------------------------ MODULE NachosMonitorsProofs ------------------------
(***************************************************************************)
(* Mutual exclusion in the monitors of NachOS and what it is there for,    *)
(* for any number of threads, philosophers, programs and calls, and        *)
(* wherever a yield or an interrupt comes.                                 *)
(*                                                                         *)
(* TypeOK is inductive, and MutualExclusion is inductive beside it: that a *)
(* lock's semaphore is 1 exactly when nobody owns it makes the P of        *)
(* Acquire find no owner, and that a thread inside is the owner makes its  *)
(* V bring the semaphore to 1 and no further.                              *)
(*                                                                         *)
(* The second half proves what the monitors promise, MonitorPromises.  It  *)
(* needs to know who sleeps where (Sleepers), what a philosopher has still *)
(* to do (Seats, Eats), how far each user of the barrier is (Round) and    *)
(* what the disk's semaphore tells of its request (DiskState): PromiseInv  *)
(* is inductive beside Inv.                                                *)
(***************************************************************************)
EXTENDS NachosMonitors, SequenceTheorems, FiniteSetTheorems, FunctionTheorems, TLAPS

KernelOK ==
    /\ currentThread \in Thread
    /\ readyList \in Seq(Thread)
    /\ status \in [Thread -> Status]
    /\ level \in [Thread -> {"on", "off", "root"}]
    /\ yieldOnReturn \in BOOLEAN /\ halted \in BOOLEAN
    /\ threadToBeDestroyed \in Thread \cup {NoThread}
    /\ value \in [Semaphore -> Nat]
    /\ queue \in [Semaphore \cup Condition -> Seq(Thread)]
    /\ owner \in [Lock -> Thread \cup {NoThread}]

ControlOK ==
    /\ todo \in [Thread -> Seq(Call)]
    /\ pc \in [Thread -> Inside \cup Outside \cup {"done"}]

ObjectsOK ==
    /\ state \in [Philosopher -> {"Thinking", "Hungry", "Eating"}]
    /\ currentCount \in Nat
    /\ list \in Seq(Thread)
    /\ active \in BOOLEAN

\* The type invariant in three parts: the thread system, where the threads are, and
\* what the monitors guard.
LEMMA TypeParts ==
    /\ TypeOK <=> KernelOK /\ ControlOK /\ ObjectsOK
    /\ TypeOK' <=> KernelOK' /\ ControlOK' /\ ObjectsOK'
BY DEF TypeOK, KernelOK, ControlOK, ObjectsOK

-----------------------------------------------------------------------------
(* Sequences, calls and names                                              *)

\* A queue loses its head, or nothing (List::Remove).
LEMMA QueueParts ==
    ASSUME NEW q \in Seq(Thread)
    PROVE  First(q) \in Seq(Thread) /\ Rest(q) \in Seq(Thread)
<1>1. CASE q = <<>>
    BY <1>1 DEF First, Rest
<1>2. CASE q # <<>>
    <2>1. Head(q) \in Thread /\ Tail(q) \in Seq(Thread)
        BY <1>2
    <2>2. <<Head(q)>> \in Seq(Thread)
        BY <2>1
    <2> QED BY <1>2, <2>1, <2>2 DEF First, Rest
<1> QED BY <1>1, <1>2

\* Locks, the semaphore of the disk, those of programs and conditions differ.
LEMMA Names ==
    /\ Lock \subseteq Semaphore /\ DiskSemaphore \in Semaphore \ Lock
    /\ \A s \in UserSemaphore : s \in Semaphore \ Lock
    /\ BarrierCondition \in Condition /\ ListEmpty \in Condition
    /\ \A i \in Philosopher : Self(i) \in Condition
BY MonitorAssumption DEF Lock, DpLock, BarrierLock, ListLock, DiskLock, DiskSemaphore,
    Semaphore, Condition, BarrierCondition, ListEmpty, Self

LEMMA ConditionsAreNoLocks == Condition \cap Lock = {}
BY DEF Lock, DpLock, BarrierLock, ListLock, DiskLock, Condition, BarrierCondition,
    ListEmpty, Self

LEMMA LockOfCall == ASSUME NEW c PROVE LockOf(c) \in Lock
BY DEF LockOf, Lock

\* The argument of a call fits its kind.
LEMMA Arguments ==
    ASSUME NEW c \in Call
    PROVE  /\ c.kind = "fork" => c.arg \in Thread
           /\ c.kind \in {"pickup", "putdown"} => c.arg \in Philosopher
           /\ c.kind \in {"P", "V"} => c.arg \in UserSemaphore
BY DEF Call, Fork_, Pickup, Putdown, Meet, Put, Get, ReadSector, Down, Up, YieldCall

\* The neighbours of a philosopher (DiningPh::test).
LEMMA Neighbours ==
    ASSUME NEW i \in Philosopher
    PROVE  Left(i) \in Philosopher /\ Right(i) \in Philosopher
BY MonitorAssumption DEF Philosopher, Left, Right

-----------------------------------------------------------------------------
(* The operations of the thread system keep its types.                     *)

LEMMA ReadyTyped ==
    ASSUME KernelOK, NEW w \in Seq(Thread), ReadyToRun(w)
    PROVE  readyList' \in Seq(Thread) /\ status' \in [Thread -> Status]
<1>1. readyList' \in Seq(Thread)
    BY DEF KernelOK, ReadyToRun
<1>2. status' \in [Thread -> Status]
    BY DEF KernelOK, ReadyToRun, Status
<1> QED BY <1>1, <1>2

LEMMA RunTyped ==
    ASSUME KernelOK, NEW u \in Thread, NEW before \in [Thread -> Status], Run(u, before)
    PROVE  /\ currentThread' \in Thread /\ status' \in [Thread -> Status]
           /\ level' \in [Thread -> {"on", "off", "root"}]
           /\ threadToBeDestroyed' \in Thread \cup {NoThread}
<1>1. currentThread' \in Thread
    BY DEF Run
<1>2. status' \in [Thread -> Status]
    BY DEF Run, Status
<1>3. level' \in [Thread -> {"on", "off", "root"}]
    BY DEF Run, KernelOK
<1>4. threadToBeDestroyed' \in Thread \cup {NoThread}
    BY DEF Run, KernelOK
<1> QED BY <1>1, <1>2, <1>3, <1>4

LEMMA YieldTyped ==
    ASSUME KernelOK, NEW t \in Thread, Yield(t)
    PROVE  /\ currentThread' \in Thread /\ readyList' \in Seq(Thread)
           /\ status' \in [Thread -> Status]
           /\ level' \in [Thread -> {"on", "off", "root"}]
           /\ threadToBeDestroyed' \in Thread \cup {NoThread}
<1>1. CASE readyList = <<>>
    BY <1>1 DEF Yield, KernelOK
<1>2. CASE readyList # <<>>
    <2>1. Head(readyList) \in Thread /\ Tail(readyList) \in Seq(Thread)
        BY <1>2 DEF KernelOK
    <2>2. readyList' \in Seq(Thread)
        BY <1>2, <2>1 DEF Yield
    <2>3. [status EXCEPT ![t] = "READY"] \in [Thread -> Status]
        BY DEF KernelOK, Status
    <2>4. Run(Head(readyList), [status EXCEPT ![t] = "READY"])
        BY <1>2 DEF Yield
    <2> QED BY <2>1, <2>2, <2>3, <2>4, RunTyped
<1> QED BY <1>1, <1>2

LEMMA SleepTyped ==
    ASSUME KernelOK, NEW t \in Thread, Sleep(t)
    PROVE  status' \in [Thread -> Status] /\ level' \in [Thread -> {"on", "off", "root"}]
BY DEF KernelOK, Sleep, Status

LEMMA VTyped ==
    ASSUME KernelOK, NEW s \in Semaphore, V(s),
           UNCHANGED <<currentThread, level, threadToBeDestroyed, halted>>,
           yieldOnReturn' \in BOOLEAN, owner' \in [Lock -> Thread \cup {NoThread}]
    PROVE  KernelOK'
<1>1. queue[s] \in Seq(Thread)
    BY DEF KernelOK
<1>2. First(queue[s]) \in Seq(Thread) /\ Rest(queue[s]) \in Seq(Thread)
    BY <1>1, QueueParts
<1>3. readyList' \in Seq(Thread) /\ status' \in [Thread -> Status]
    BY <1>2, ReadyTyped DEF V
<1>4. value' \in [Semaphore -> Nat]
    BY DEF V, KernelOK
<1>5. queue' \in [Semaphore \cup Condition -> Seq(Thread)]
    BY <1>2 DEF V, KernelOK
<1> QED BY <1>3, <1>4, <1>5 DEF KernelOK

LEMMA SignalTyped ==
    ASSUME KernelOK, NEW c \in Condition, Signal(c)
    PROVE  KernelOK'
<1>1. queue[c] \in Seq(Thread)
    BY DEF KernelOK
<1>2. First(queue[c]) \in Seq(Thread) /\ Rest(queue[c]) \in Seq(Thread)
    BY <1>1, QueueParts
<1>3. readyList' \in Seq(Thread) /\ status' \in [Thread -> Status]
    BY <1>2, ReadyTyped DEF Signal
<1>4. queue' \in [Semaphore \cup Condition -> Seq(Thread)]
    BY <1>2 DEF Signal, KernelOK
<1> QED BY <1>3, <1>4 DEF KernelOK, Signal, machine

LEMMA BroadcastTyped ==
    ASSUME KernelOK, NEW c \in Condition, Broadcast(c)
    PROVE  KernelOK'
<1>1. queue[c] \in Seq(Thread)
    BY DEF KernelOK
<1>2. readyList' \in Seq(Thread) /\ status' \in [Thread -> Status]
    BY <1>1, ReadyTyped DEF Broadcast
<1>3. queue' \in [Semaphore \cup Condition -> Seq(Thread)]
    BY DEF Broadcast, KernelOK
<1> QED BY <1>2, <1>3 DEF KernelOK, Broadcast, machine

LEMMA WaitTyped ==
    ASSUME KernelOK, NEW t \in Thread, NEW c \in Condition, NEW l \in Lock, Wait(t, c, l)
    PROVE  KernelOK'
<1> DEFINE woken == First(queue[l])
           released == [queue EXCEPT ![l] = Rest(@)]
<1>1. l \in Semaphore /\ queue[l] \in Seq(Thread)
    BY Names DEF KernelOK
<1>2. woken \in Seq(Thread) /\ Rest(queue[l]) \in Seq(Thread)
    BY <1>1, QueueParts
<1>3. readyList' \in Seq(Thread)
    BY <1>2 DEF Wait, KernelOK
<1>4. status' \in [Thread -> Status]
    BY DEF Wait, KernelOK, Status
<1>5. released \in [Semaphore \cup Condition -> Seq(Thread)]
    BY <1>2 DEF KernelOK
<1>6. queue' = [released EXCEPT ![c] = Append(queue[c], t)]
    BY DEF Wait
<1>7. queue' \in [Semaphore \cup Condition -> Seq(Thread)]
    <2>1. Append(queue[c], t) \in Seq(Thread)
        BY DEF KernelOK
    <2> HIDE DEF released
    <2> QED BY <1>5, <1>6, <2>1
<1>8. value' \in [Semaphore -> Nat]
    BY <1>1 DEF Wait, KernelOK
<1>10. owner' \in [Lock -> Thread \cup {NoThread}]
    BY DEF Wait, KernelOK
<1>9. level' \in [Thread -> {"on", "off", "root"}]
    BY DEF Wait, KernelOK
<1> QED BY <1>3, <1>4, <1>7, <1>8, <1>9, <1>10 DEF KernelOK, Wait, machine

LEMMA PWaitsTyped ==
    ASSUME KernelOK, NEW t \in Thread, NEW s \in Semaphore, PWaits(t, s)
    PROVE  KernelOK'
<1>1. status' \in [Thread -> Status] /\ level' \in [Thread -> {"on", "off", "root"}]
    BY SleepTyped DEF PWaits
<1>2. queue' \in [Semaphore \cup Condition -> Seq(Thread)]
    BY DEF PWaits, KernelOK
<1> QED BY <1>1, <1>2 DEF KernelOK, PWaits, machine

LEMMA PTakesTyped ==
    ASSUME KernelOK, NEW t \in Thread, NEW s \in Semaphore, PTakes(t, s),
           owner' \in [Lock -> Thread \cup {NoThread}]
    PROVE  KernelOK'
<1>1. value' \in [Semaphore -> Nat]
    BY DEF PTakes, KernelOK
<1>2. level' \in [Thread -> {"on", "off", "root"}]
    BY DEF PTakes, SetLevelOn, KernelOK
<1> QED BY <1>1, <1>2 DEF KernelOK, PTakes, machine

-----------------------------------------------------------------------------
(* What a step does to the locks.                                          *)

Inv == TypeOK /\ MutualExclusion

\* The types of the kernel are kept, and no lock changes hands.
KernelMoves == KernelOK' /\ owner' = owner /\ \A l \in Lock : value'[l] = value[l]

LEMMA KernelStays == KernelOK /\ UNCHANGED kernel => KernelMoves
BY DEF KernelMoves, KernelOK, kernel, scheduling, machine, synch

\* A condition is no lock (Condition::Signal, Condition::Broadcast).
LEMMA SignalMoves ==
    ASSUME KernelOK, NEW c \in Condition, Signal(c) \/ Broadcast(c)
    PROVE  KernelMoves
BY SignalTyped, BroadcastTyped DEF KernelMoves, Signal, Broadcast

\* A semaphore that is not a lock's (Semaphore::P, Semaphore::V).
LEMMA SemaphoreMoves ==
    ASSUME KernelOK, NEW t \in Thread, NEW s \in Semaphore \ Lock,
           PWaits(t, s) \/ (PTakes(t, s) /\ owner' = owner)
    PROVE  KernelMoves
<1>1. CASE PWaits(t, s)
    BY <1>1, PWaitsTyped DEF KernelMoves, PWaits
<1>2. CASE PTakes(t, s) /\ owner' = owner
    <2>1. owner' \in [Lock -> Thread \cup {NoThread}]
        BY <1>2 DEF KernelOK
    <2>2. \A l \in Lock : value'[l] = value[l]
        BY <1>2, Names DEF PTakes, KernelOK
    <2> QED BY <1>2, <2>1, <2>2, PTakesTyped DEF KernelMoves
<1> QED BY <1>1, <1>2

\* A thread moves on in the body of a monitor.
LEMMA InsideStep ==
    ASSUME Inv, NEW t \in Thread, pc[t] \in Inside, NEW w \in Inside, Goto(t, w),
           UNCHANGED todo, KernelMoves, ObjectsOK'
    PROVE  Inv'
<1>1. pc' = [pc EXCEPT ![t] = w] /\ pc \in [Thread -> Inside \cup Outside \cup {"done"}]
    BY TypeParts DEF Inv, ControlOK, Goto
<1>2. ControlOK'
    BY <1>1, TypeParts DEF Inv, ControlOK
<1>3. \A u \in Thread : pc'[u] \in Inside => pc[u] \in Inside
    BY <1>1
<1>4. InsideOwns'
    BY <1>3 DEF Inv, MutualExclusion, InsideOwns, KernelMoves
<1>5. LockIsBinary'
    BY DEF Inv, MutualExclusion, LockIsBinary, KernelMoves
<1> QED BY <1>2, <1>4, <1>5, TypeParts DEF Inv, MutualExclusion, KernelMoves

\* A thread outside the monitors makes another call, or ends.
LEMMA OutsideStep ==
    ASSUME Inv, NEW t \in Thread, NEW w \in Outside \cup {"done"}, Goto(t, w),
           todo' \in [Thread -> Seq(Call)],
           \A u \in Thread \ {t} : todo'[u] = todo[u],
           KernelMoves, ObjectsOK'
    PROVE  Inv'
<1>1. pc' = [pc EXCEPT ![t] = w] /\ pc \in [Thread -> Inside \cup Outside \cup {"done"}]
    BY TypeParts DEF Inv, ControlOK, Goto
<1>2. ControlOK'
    BY <1>1 DEF ControlOK
<1>3. \A u \in Thread : pc'[u] \in Inside => u # t /\ pc[u] \in Inside
    BY <1>1 DEF Inside, Outside
<1>4. InsideOwns'
    BY <1>3 DEF Inv, MutualExclusion, InsideOwns, KernelMoves
<1>5. LockIsBinary'
    BY DEF Inv, MutualExclusion, LockIsBinary, KernelMoves
<1> QED BY <1>2, <1>4, <1>5, TypeParts DEF Inv, MutualExclusion, KernelMoves

\* The owner gives the lock up, and is not in the monitor any more.
LEMMA GiveUp ==
    ASSUME Inv, NEW t \in Thread, pc[t] \in Inside, NEW w \in Outside, Goto(t, w),
           NEW l, l = LockOf(Head(todo[t])),
           owner' = [owner EXCEPT ![l] = NoThread], value' = [value EXCEPT ![l] = @ + 1],
           todo' \in [Thread -> Seq(Call)],
           \A u \in Thread \ {t} : todo'[u] = todo[u],
           KernelOK', UNCHANGED objects
    PROVE  Inv'
<1>1. pc' = [pc EXCEPT ![t] = w] /\ pc \in [Thread -> Inside \cup Outside \cup {"done"}]
    BY TypeParts DEF Inv, ControlOK, Goto
<1>2. ControlOK'
    BY <1>1 DEF ControlOK
<1>3. \A u \in Thread : pc'[u] \in Inside => u # t /\ pc[u] \in Inside
    BY <1>1 DEF Inside, Outside
<1>4. l \in Lock /\ owner[l] = t /\ t # NoThread
    BY LockOfCall, ThreadAssumption DEF Inv, MutualExclusion, InsideOwns
<1>5. owner \in [Lock -> Thread \cup {NoThread}] /\ value \in [Semaphore -> Nat]
      /\ Lock \subseteq Semaphore
    BY TypeParts, Names DEF Inv, KernelOK
<1>6. InsideOwns'
    <2> SUFFICES ASSUME NEW u \in Thread, pc'[u] \in Inside
                 PROVE  /\ todo'[u] # <<>> /\ Head(todo'[u]).kind \in Monitor
                        /\ owner'[LockOf(Head(todo'[u]))] = u
        BY DEF InsideOwns
    <2>1. u # t /\ todo'[u] = todo[u] /\ todo[u] # <<>> /\ Head(todo[u]).kind \in Monitor
          /\ owner[LockOf(Head(todo[u]))] = u
        BY <1>3 DEF Inv, MutualExclusion, InsideOwns
    <2>2. LockOf(Head(todo[u])) \in Lock \ {l}
        BY <1>4, <2>1, LockOfCall
    <2> QED BY <1>5, <2>1, <2>2
<1>7. LockIsBinary'
    <2>1. value[l] = 0
        BY <1>4 DEF Inv, MutualExclusion, LockIsBinary
    <2>2. value'[l] = 1 /\ owner'[l] = NoThread
        BY <1>4, <1>5, <2>1
    <2>3. \A k \in Lock \ {l} : value'[k] = value[k] /\ owner'[k] = owner[k]
        BY <1>5
    <2> QED BY <2>2, <2>3 DEF Inv, MutualExclusion, LockIsBinary
<1>8. ObjectsOK'
    BY TypeParts DEF Inv, ObjectsOK, objects
<1> QED BY <1>2, <1>6, <1>7, <1>8, TypeParts DEF Inv, MutualExclusion

\* The same, to sleep on a condition of the monitor.
LEMMA WaitStep ==
    ASSUME Inv, NEW t \in Thread, pc[t] \in Inside, NEW c \in Condition,
           NEW l, l = LockOf(Head(todo[t])), Wait(t, c, l),
           Goto(t, "again"), UNCHANGED <<todo, objects>>
    PROVE  Inv'
<1>1. KernelOK'
    BY LockOfCall, WaitTyped, TypeParts DEF Inv
<1>2. todo' \in [Thread -> Seq(Call)]
    BY TypeParts DEF Inv, ControlOK
<1>3. owner' = [owner EXCEPT ![l] = NoThread] /\ value' = [value EXCEPT ![l] = @ + 1]
    BY DEF Wait
<1>4. "again" \in Outside
    BY DEF Outside
<1>5. UNCHANGED todo /\ UNCHANGED objects
    OBVIOUS
<1> QED BY <1>1, <1>2, <1>3, <1>4, <1>5, GiveUp

-----------------------------------------------------------------------------
(* One lemma for each part of Step.                                        *)

\* What the guard of a step says of the thread's call.
LEMMA CallTyped ==
    ASSUME ControlOK, NEW t \in Thread, NEW kinds, Calls(t, kinds)
    PROVE  /\ Head(todo[t]) \in Call /\ Head(todo[t]).kind \in kinds
           /\ Tail(todo[t]) \in Seq(Call)
BY DEF ControlOK, Calls

LEMMA ReturnsTyped ==
    ASSUME ControlOK, NEW t \in Thread, todo[t] # <<>>, Returns(t)
    PROVE  /\ todo' \in [Thread -> Seq(Call)]
           /\ \A u \in Thread \ {t} : todo'[u] = todo[u]
           /\ Goto(t, "call")
<1>1. Tail(todo[t]) \in Seq(Call)
    BY DEF ControlOK
<1> QED BY <1>1 DEF Returns, ControlOK

\* Lock::Acquire in front of the body: whoever takes the semaphore finds no owner.
LEMMA AcquireStep ==
    ASSUME Inv, NEW t \in Thread, Acquire(t)
    PROVE  Inv'
<1> DEFINE l == LockOf(Head(todo[t]))
<1>1. KernelOK /\ ControlOK /\ ObjectsOK /\ l \in Lock /\ l \in Semaphore
    BY TypeParts, LockOfCall, Names DEF Inv
<1>2. todo[t] # <<>> /\ Head(todo[t]).kind \in Monitor /\ pc[t] \in Outside
    BY DEF Acquire, Calls
<1>3. UNCHANGED <<todo, objects>> /\ ObjectsOK'
    BY <1>1 DEF Acquire, ObjectsOK, objects
<1>4. CASE AcquireWaits(t, l) /\ UNCHANGED pc
    <2>1. PWaits(t, l)
        BY <1>4 DEF AcquireWaits
    <2>2. KernelOK' /\ UNCHANGED <<value, owner>>
        BY <1>1, <2>1, PWaitsTyped DEF PWaits
    <2>3. ControlOK'
        BY <1>1, <1>3, <1>4 DEF ControlOK
    <2>4. MutualExclusion'
        BY <1>3, <1>4, <2>2 DEF Inv, MutualExclusion, InsideOwns, LockIsBinary
    <2> QED BY <1>3, <2>2, <2>3, <2>4, TypeParts DEF Inv
<1>5. CASE AcquireTakes(t, l) /\ Goto(t, Entered(t))
    <2> HIDE DEF l
    <2>1. PTakes(t, l) /\ owner' = [owner EXCEPT ![l] = t]
        BY <1>5 DEF AcquireTakes
    <2>2. owner' \in [Lock -> Thread \cup {NoThread}]
        BY <1>1, <2>1 DEF KernelOK
    <2>3. KernelOK'
        BY <1>1, <2>1, <2>2, PTakesTyped
    <2>4. Entered(t) \in Inside
        BY DEF Entered, Inside
    <2>5. pc \in [Thread -> Inside \cup Outside \cup {"done"}] /\ pc' = [pc EXCEPT ![t] = Entered(t)]
        BY <1>1, <1>5 DEF ControlOK, Goto
    <2>6. ControlOK'
        BY <1>1, <1>3, <2>4, <2>5 DEF ControlOK
    <2>7. owner[l] = NoThread /\ value[l] = 1 /\ value'[l] = 0 /\ owner'[l] = t
        <3>1. value[l] > 0 /\ value' = [value EXCEPT ![l] = @ - 1]
            BY <2>1 DEF PTakes
        <3>2. value \in [Semaphore -> Nat] /\ owner \in [Lock -> Thread \cup {NoThread}]
            BY <1>1 DEF KernelOK
        <3>3. owner[l] = NoThread /\ value[l] = 1
            BY <1>1, <3>1 DEF Inv, MutualExclusion, LockIsBinary
        <3> QED BY <1>1, <2>1, <3>1, <3>2, <3>3
    <2>8. \A k \in Lock \ {l} : value'[k] = value[k] /\ owner'[k] = owner[k]
        BY <1>1, <2>1, Names DEF PTakes, KernelOK
    <2>9. LockIsBinary'
        BY <2>7, <2>8, ThreadAssumption DEF Inv, MutualExclusion, LockIsBinary
    <2>10. InsideOwns'
        <3> SUFFICES ASSUME NEW u \in Thread, pc'[u] \in Inside
                     PROVE  /\ todo'[u] # <<>> /\ Head(todo'[u]).kind \in Monitor
                            /\ owner'[LockOf(Head(todo'[u]))] = u
            BY DEF InsideOwns
        <3>1. CASE u = t
            BY <1>2, <1>3, <2>7, <3>1 DEF l
        <3>2. CASE u # t
            <4>1. todo[u] # <<>> /\ Head(todo[u]).kind \in Monitor
                  /\ owner[LockOf(Head(todo[u]))] = u
                BY <2>5, <3>2 DEF Inv, MutualExclusion, InsideOwns
            <4>2. LockOf(Head(todo[u])) \in Lock \ {l}
                BY <2>7, <4>1, LockOfCall, ThreadAssumption
            <4> QED BY <1>3, <2>8, <4>1, <4>2
        <3> QED BY <3>1, <3>2
    <2> QED BY <1>3, <2>3, <2>6, <2>9, <2>10, TypeParts DEF Inv, MutualExclusion
<1> QED BY <1>4, <1>5 DEF Acquire

\* Lock::Release behind the body.
LEMMA LeaveStep ==
    ASSUME Inv, NEW t \in Thread, Leave(t)
    PROVE  Inv'
<1> DEFINE l == LockOf(Head(todo[t]))
<1>1. KernelOK /\ ControlOK /\ l \in Lock /\ l \in Semaphore
    BY TypeParts, LockOfCall, Names DEF Inv
<1>2. todo[t] # <<>> /\ pc[t] \in Inside
    BY DEF Leave, At, Calls, Inside
<1>3. Release(l) /\ Returns(t) /\ UNCHANGED objects
    BY DEF Leave
<1> HIDE DEF l
<1>4. owner' = [owner EXCEPT ![l] = NoThread] /\ value' = [value EXCEPT ![l] = @ + 1]
    BY <1>3 DEF Release, V
<1>5. KernelOK'
    <2>1. owner' \in [Lock -> Thread \cup {NoThread}]
        BY <1>1, <1>4 DEF KernelOK
    <2>2. V(l) /\ UNCHANGED <<currentThread, level, threadToBeDestroyed, halted, yieldOnReturn>>
        BY <1>3 DEF Release, machine
    <2>3. yieldOnReturn' \in BOOLEAN
        BY <1>1, <2>2 DEF KernelOK
    <2> QED BY <1>1, <2>1, <2>2, <2>3, VTyped
<1>6. "call" \in Outside
    BY DEF Outside
<1> QED BY <1>1, <1>2, <1>3, <1>4, <1>5, <1>6, ReturnsTyped, GiveUp DEF l

\* What a thread at a place of a body knows of itself.
LEMMA AtTyped ==
    ASSUME Inv, NEW t \in Thread, NEW where \in Inside, NEW kinds, At(t, where, kinds)
    PROVE  /\ KernelOK /\ ControlOK /\ ObjectsOK
           /\ pc[t] \in Inside /\ todo[t] # <<>>
           /\ Head(todo[t]) \in Call /\ Head(todo[t]).kind \in kinds
<1>1. KernelOK /\ ControlOK /\ ObjectsOK
    BY TypeParts DEF Inv
<1>2. Calls(t, kinds) /\ pc[t] = where /\ todo[t] # <<>>
    BY DEF At, Calls
<1> QED BY <1>1, <1>2, CallTyped

\* DiningPh::test.
LEMMA TestTyped ==
    ASSUME KernelOK, ObjectsOK, NEW i \in Philosopher, test(i)
    PROVE  KernelMoves /\ state' \in [Philosopher -> {"Thinking", "Hungry", "Eating"}]
<1>1. CASE MayEat(i)
    <2>1. Signal(Self(i)) /\ Self(i) \in Condition
        BY <1>1, Names DEF test
    <2> QED BY <1>1, <2>1, SignalMoves DEF test, ObjectsOK
<1>2. CASE ~MayEat(i)
    BY <1>2, KernelStays DEF test, ObjectsOK
<1> QED BY <1>1, <1>2

LEMMA DiningStep ==
    ASSUME Inv, NEW t \in Thread,
           Announce(t) \/ TestSelf(t) \/ CheckHungry(t) \/ TestLeft(t) \/ TestRight(t)
    PROVE  Inv'
<1> USE DEF Inside
<1>1. CASE Announce(t)
    <2>1. At(t, "body", {"pickup", "putdown"})
        BY <1>1 DEF Announce
    <2>2. KernelOK /\ ObjectsOK /\ pc[t] \in Inside /\ Arg(t) \in Philosopher
        BY <2>1, AtTyped, Arguments DEF Arg
    <2>3. UNCHANGED <<todo, currentCount, list, active>> /\ KernelMoves
        BY <1>1, <2>2, KernelStays DEF Announce, DiningUnchanged
    <2>4. ObjectsOK'
        BY <1>1, <2>2, <2>3 DEF Announce, ObjectsOK
    <2>5. PICK w \in {"test", "left"} : Goto(t, w)
        BY <1>1 DEF Announce
    <2> QED BY <2>2, <2>3, <2>4, <2>5, InsideStep
<1>2. ASSUME NEW where \in Inside, NEW kinds \in {{"pickup"}, {"putdown"}}, NEW w \in Inside,
             NEW i \in Philosopher,
             At(t, where, kinds), test(i), Goto(t, w), DiningUnchanged
      PROVE  Inv'
    <2>1. KernelOK /\ ObjectsOK /\ pc[t] \in Inside
        BY <1>2, AtTyped
    <2>2. KernelMoves /\ ObjectsOK' /\ UNCHANGED todo
        BY <1>2, <2>1, TestTyped DEF DiningUnchanged, ObjectsOK
    <2> QED BY <1>2, <2>1, <2>2, InsideStep
<1>3. CASE TestSelf(t)
    <2>1. Arg(t) \in Philosopher
        BY <1>3, AtTyped, Arguments DEF TestSelf, Arg
    <2> QED BY <1>2, <1>3, <2>1 DEF TestSelf
<1>4. CASE TestLeft(t)
    <2>1. Left(Arg(t)) \in Philosopher
        BY <1>4, AtTyped, Arguments, Neighbours DEF TestLeft, Arg
    <2> QED BY <1>2, <1>4, <2>1 DEF TestLeft
<1>5. CASE TestRight(t)
    <2>1. Right(Arg(t)) \in Philosopher
        BY <1>5, AtTyped, Arguments, Neighbours DEF TestRight, Arg
    <2> QED BY <1>2, <1>5, <2>1 DEF TestRight
<1>6. CASE CheckHungry(t)
    <2>1. At(t, "check", {"pickup"}) /\ UNCHANGED <<todo, objects>>
        BY <1>6 DEF CheckHungry, DiningUnchanged, objects
    <2>2. KernelOK /\ ObjectsOK /\ pc[t] \in Inside /\ Arg(t) \in Philosopher
        BY <2>1, AtTyped, Arguments DEF Arg
    <2>3. DpLock = LockOf(Head(todo[t])) /\ Self(Arg(t)) \in Condition
        BY <2>1, <2>2, AtTyped, Names DEF LockOf
    <2>4. CASE Wait(t, Self(Arg(t)), DpLock) /\ Goto(t, "again")
        BY <2>1, <2>2, <2>3, <2>4, WaitStep
    <2>5. CASE Goto(t, "leave") /\ UNCHANGED kernel
        <3>1. ObjectsOK' /\ KernelMoves
            BY <2>1, <2>2, <2>5, KernelStays DEF ObjectsOK, objects
        <3> QED BY <2>1, <2>2, <2>5, <3>1, InsideStep
    <2> QED BY <1>6, <2>4, <2>5 DEF CheckHungry
<1> QED BY <1>1, <1>3, <1>4, <1>5, <1>6

LEMMA BarrierStep ==
    ASSUME Inv, NEW t \in Thread, Arrive(t) \/ Compare(t) \/ Reset(t)
    PROVE  Inv'
<1> USE DEF Inside
<1>1. ASSUME NEW where \in Inside, NEW w \in Inside, At(t, where, {"meet"}), Goto(t, w),
             BarrierUnchanged, KernelMoves, currentCount' \in Nat
      PROVE  Inv'
    <2>1. ObjectsOK /\ pc[t] \in Inside
        BY <1>1, AtTyped
    <2>2. ObjectsOK' /\ UNCHANGED todo
        BY <1>1, <2>1 DEF BarrierUnchanged, ObjectsOK
    <2> QED BY <1>1, <2>1, <2>2, InsideStep
<1>2. KernelOK /\ currentCount \in Nat
    BY TypeParts DEF Inv, ObjectsOK
<1>3. CASE Arrive(t)
    BY <1>1, <1>2, <1>3, KernelStays DEF Arrive
<1>4. CASE Reset(t)
    BY <1>1, <1>2, <1>4, KernelStays DEF Reset
<1>5. CASE Compare(t)
    <2>1. At(t, "compare", {"meet"}) /\ BarrierUnchanged /\ UNCHANGED currentCount
        BY <1>5 DEF Compare
    <2>2. CASE Broadcast(BarrierCondition) /\ Goto(t, "reset")
        <3>1. KernelMoves
            BY <1>2, <2>2, SignalMoves, Names
        <3> QED BY <1>1, <1>2, <2>1, <2>2, <3>1
    <2>3. CASE Wait(t, BarrierCondition, BarrierLock) /\ Goto(t, "again")
        <3>1. pc[t] \in Inside /\ BarrierLock = LockOf(Head(todo[t]))
            BY <2>1, AtTyped DEF LockOf
        <3>2. UNCHANGED <<todo, objects>>
            BY <2>1 DEF BarrierUnchanged, objects
        <3> QED BY <2>3, <3>1, <3>2, WaitStep, Names
    <2> QED BY <1>5, <2>2, <2>3 DEF Compare
<1> QED BY <1>3, <1>4, <1>5

LEMMA ListStep ==
    ASSUME Inv, NEW t \in Thread,
           AppendItem(t) \/ SignalItem(t) \/ CheckItem(t) \/ TakeItem(t)
    PROVE  Inv'
<1> USE DEF Inside
<1>1. ASSUME NEW where \in Inside, NEW w \in Inside, NEW kinds \in {{"put"}, {"get"}},
             At(t, where, kinds), Goto(t, w), ListUnchanged, KernelMoves, list' \in Seq(Thread)
      PROVE  Inv'
    <2>1. ObjectsOK /\ pc[t] \in Inside
        BY <1>1, AtTyped
    <2>2. ObjectsOK' /\ UNCHANGED todo
        BY <1>1, <2>1 DEF ListUnchanged, ObjectsOK
    <2> QED BY <1>1, <2>1, <2>2, InsideStep
<1>2. KernelOK /\ list \in Seq(Thread)
    BY TypeParts DEF Inv, ObjectsOK
<1>3. CASE AppendItem(t)
    <2>1. Append(list, t) \in Seq(Thread)
        BY <1>2
    <2> QED BY <1>1, <1>2, <1>3, <2>1, KernelStays DEF AppendItem
<1>4. CASE SignalItem(t)
    <2>1. KernelMoves
        BY <1>2, <1>4, SignalMoves, Names DEF SignalItem
    <2> QED BY <1>1, <1>2, <1>4, <2>1 DEF SignalItem
<1>5. CASE TakeItem(t)
    <2>1. Rest(list) \in Seq(Thread)
        BY <1>2, QueueParts
    <2> QED BY <1>1, <1>2, <1>5, <2>1, KernelStays DEF TakeItem
<1>6. CASE CheckItem(t)
    <2>1. At(t, "body", {"get"}) /\ ListUnchanged /\ UNCHANGED list
        BY <1>6 DEF CheckItem
    <2>2. CASE Goto(t, "take") /\ UNCHANGED kernel
        BY <1>1, <1>2, <2>1, <2>2, KernelStays
    <2>3. CASE Wait(t, ListEmpty, ListLock) /\ Goto(t, "again")
        <3>1. pc[t] \in Inside /\ ListLock = LockOf(Head(todo[t]))
            BY <2>1, AtTyped DEF LockOf
        <3>2. UNCHANGED <<todo, objects>>
            BY <2>1 DEF ListUnchanged, objects
        <3> QED BY <2>3, <3>1, <3>2, WaitStep, Names
    <2> QED BY <1>6, <2>2, <2>3 DEF CheckItem
<1> QED BY <1>3, <1>4, <1>5, <1>6

LEMMA DiskStep ==
    ASSUME Inv, NEW t \in Thread, Request(t) \/ Transfer(t)
    PROVE  Inv'
<1> USE DEF Inside
<1>1. KernelOK /\ ObjectsOK
    BY TypeParts DEF Inv
<1>2. CASE Request(t)
    <2>1. pc[t] \in Inside /\ UNCHANGED todo /\ KernelMoves /\ Goto(t, "transfer")
        BY <1>1, <1>2, AtTyped, KernelStays DEF Request, DiskUnchanged
    <2>2. ObjectsOK'
        BY <1>1, <1>2 DEF Request, DiskUnchanged, ObjectsOK
    <2> QED BY <2>1, <2>2, InsideStep
<1>3. CASE Transfer(t)
    <2>1. At(t, "transfer", {"read"}) /\ UNCHANGED <<todo, objects>>
        BY <1>3 DEF Transfer, DiskUnchanged, objects
    <2>2. pc[t] \in Inside /\ ObjectsOK' /\ ControlOK
        BY <1>1, <2>1, AtTyped DEF ObjectsOK, objects
    <2>3. CASE PWaits(t, DiskSemaphore) /\ UNCHANGED pc
        <3>1. KernelMoves
            BY <1>1, <2>3, SemaphoreMoves, Names
        <3>2. ControlOK'
            BY <2>1, <2>2, <2>3 DEF ControlOK
        <3>3. MutualExclusion'
            BY <2>1, <2>3, <3>1
               DEF Inv, MutualExclusion, InsideOwns, LockIsBinary, KernelMoves
        <3> QED BY <2>2, <3>1, <3>2, <3>3, TypeParts DEF Inv, KernelMoves
    <2>4. CASE PTakes(t, DiskSemaphore) /\ Goto(t, "leave") /\ UNCHANGED owner
        <3>1. KernelMoves
            BY <1>1, <2>4, SemaphoreMoves, Names
        <3> QED BY <2>1, <2>2, <2>4, <3>1, InsideStep
    <2> QED BY <1>3, <2>3, <2>4 DEF Transfer
<1> QED BY <1>2, <1>3

\* The calls that are not monitors: a thread outside makes one, or ends.
LEMMA CallStep ==
    ASSUME Inv, NEW t \in Thread,
           UserP(t) \/ UserV(t) \/ CallFork(t) \/ CallYield(t) \/ CallFinish(t)
    PROVE  Inv'
<1> USE DEF Outside
<1>1. KernelOK /\ ControlOK /\ ObjectsOK
    BY TypeParts DEF Inv
<1>2. ASSUME Returns(t), todo[t] # <<>>, KernelMoves, UNCHANGED objects
      PROVE  Inv'
    <2>1. ObjectsOK'
        BY <1>1, <1>2 DEF ObjectsOK, objects
    <2> QED BY <1>1, <1>2, <2>1, ReturnsTyped, OutsideStep
<1>3. ASSUME NEW kinds, At(t, "call", kinds)
      PROVE  Head(todo[t]) \in Call /\ Head(todo[t]).kind \in kinds /\ todo[t] # <<>>
    BY <1>1, <1>3, CallTyped DEF At, Calls
<1>4. CASE UserP(t)
    <2>1. Arg(t) \in Semaphore \ Lock /\ todo[t] # <<>>
        BY <1>3, <1>4, Arguments, Names DEF UserP, Arg
    <2>2. CASE PWaits(t, Arg(t)) /\ UNCHANGED <<todo, pc>>
        <3>1. KernelMoves
            BY <1>1, <2>1, <2>2, SemaphoreMoves
        <3>2. ControlOK' /\ ObjectsOK'
            BY <1>1, <1>4, <2>2 DEF UserP, ControlOK, ObjectsOK, objects
        <3>3. MutualExclusion'
            BY <2>2, <3>1 DEF Inv, MutualExclusion, InsideOwns, LockIsBinary, KernelMoves
        <3> QED BY <3>1, <3>2, <3>3, TypeParts DEF Inv, KernelMoves
    <2>3. CASE PTakes(t, Arg(t)) /\ Returns(t) /\ UNCHANGED owner
        <3>1. KernelMoves
            BY <1>1, <2>1, <2>3, SemaphoreMoves
        <3> QED BY <1>2, <1>4, <2>1, <2>3, <3>1 DEF UserP
    <2> QED BY <1>4, <2>2, <2>3 DEF UserP
<1>5. CASE UserV(t)
    <2>1. Arg(t) \in Semaphore \ Lock /\ todo[t] # <<>>
        BY <1>3, <1>5, Arguments, Names DEF UserV, Arg
    <2>2. V(Arg(t)) /\ UNCHANGED <<owner, currentThread, level, threadToBeDestroyed, halted>>
          /\ yieldOnReturn' \in BOOLEAN /\ owner' \in [Lock -> Thread \cup {NoThread}]
        BY <1>1, <1>5 DEF UserV, machine, KernelOK
    <2>3. KernelOK'
        BY <1>1, <2>1, <2>2, VTyped
    <2>4. \A l \in Lock : value'[l] = value[l]
        BY <1>1, <2>1, <2>2, Names DEF V, KernelOK
    <2>5. KernelMoves
        BY <2>2, <2>3, <2>4 DEF KernelMoves
    <2> QED BY <1>2, <1>5, <2>1, <2>5 DEF UserV
<1>6. CASE CallFork(t)
    <2>1. Arg(t) \in Thread /\ todo[t] # <<>>
        BY <1>3, <1>6, Arguments DEF CallFork, Arg
    <2>2. Fork(Arg(t))
        BY <1>6 DEF CallFork
    <2>3. <<Arg(t)>> \in Seq(Thread)
        BY <2>1
    <2>4. readyList' \in Seq(Thread) /\ status' \in [Thread -> Status]
        BY <1>1, <2>2, <2>3, ReadyTyped DEF Fork
    <2>5. level' \in [Thread -> {"on", "off", "root"}]
        BY <1>1, <2>2 DEF Fork, StackAllocate, KernelOK
    <2>6. KernelMoves
        BY <1>1, <2>2, <2>4, <2>5 DEF Fork, KernelMoves, KernelOK, machine, synch
    <2> QED BY <1>2, <1>6, <2>1, <2>6 DEF CallFork
<1>7. CASE CallYield(t)
    <2>1. todo[t] # <<>> /\ Yield(t) /\ UNCHANGED <<yieldOnReturn, halted, synch, objects>>
        BY <1>3, <1>7 DEF CallYield
    <2>2. KernelMoves
        BY <1>1, <2>1, YieldTyped DEF KernelMoves, KernelOK, synch
    <2> QED BY <1>2, <1>7, <2>1, <2>2 DEF CallYield
<1>8. CASE CallFinish(t)
    <2>1. Finish(t) /\ Goto(t, "done") /\ UNCHANGED <<todo, objects>>
        BY <1>8 DEF CallFinish
    <2>2. status' \in [Thread -> Status] /\ level' \in [Thread -> {"on", "off", "root"}]
        BY <1>1, <2>1, SleepTyped DEF Finish
    <2>3. KernelMoves
        BY <1>1, <2>1, <2>2 DEF Finish, KernelMoves, KernelOK, synch
    <2>4. ObjectsOK' /\ todo' \in [Thread -> Seq(Call)]
        BY <1>1, <2>1 DEF ObjectsOK, objects, ControlOK
    <2> QED BY <2>1, <2>3, <2>4, OutsideStep
<1> QED BY <1>4, <1>5, <1>6, <1>7, <1>8

\* The scheduler, the timer and the disk touch no lock and no program.
LEMMA OtherStep ==
    ASSUME Inv, Scheduling \/ DiskInterrupt \/ UNCHANGED vars
    PROVE  Inv'
<1>1. KernelOK /\ ControlOK /\ ObjectsOK
    BY TypeParts DEF Inv
<1>2. ASSUME KernelMoves, UNCHANGED <<todo, pc>>, ObjectsOK'
      PROVE  Inv'
    <2>1. ControlOK'
        BY <1>1, <1>2 DEF ControlOK
    <2>2. MutualExclusion'
        BY <1>2 DEF Inv, MutualExclusion, InsideOwns, LockIsBinary, KernelMoves
    <2> QED BY <1>2, <2>1, <2>2, TypeParts DEF Inv, KernelMoves
<1>3. CASE Scheduling
    <2>1. UNCHANGED <<todo, pc, objects>> /\ ObjectsOK'
        BY <1>1, <1>3 DEF Scheduling, ObjectsOK, objects
    <2>2. KernelMoves
        <3>1. CASE Dispatch
            <4>1. Head(readyList) \in Thread /\ Tail(readyList) \in Seq(Thread)
                BY <1>1, <3>1 DEF Dispatch, KernelOK
            <4>2. status \in [Thread -> Status] /\ Run(Head(readyList), status)
                BY <1>1, <3>1 DEF Dispatch, KernelOK
            <4> QED BY <1>1, <3>1, <4>1, <4>2, RunTyped
                    DEF Dispatch, KernelMoves, KernelOK, synch
        <3>2. CASE TimerInterruptHandler
            BY <1>1, <3>2
               DEF TimerInterruptHandler, KernelMoves, KernelOK, scheduling, synch
        <3>3. CASE ContextSwitch
            <4>1. currentThread \in Thread /\ UNCHANGED <<halted, synch>>
                BY <1>1, <3>3 DEF ContextSwitch, KernelOK
            <4>2. CASE Yield(currentThread) /\ UNCHANGED yieldOnReturn
                BY <1>1, <4>1, <4>2, YieldTyped DEF KernelMoves, KernelOK, synch
            <4>3. CASE yieldOnReturn' = TRUE /\ UNCHANGED <<scheduling, threadToBeDestroyed>>
                BY <1>1, <4>1, <4>3 DEF KernelMoves, KernelOK, scheduling, synch
            <4> QED BY <3>3, <4>2, <4>3 DEF ContextSwitch
        <3>4. CASE YieldOnReturn
            <4>1. currentThread \in Thread /\ Yield(currentThread)
                BY <1>1, <3>4 DEF YieldOnReturn, KernelOK
            <4> QED BY <1>1, <3>4, <4>1, YieldTyped
                    DEF YieldOnReturn, KernelMoves, KernelOK, synch
        <3>5. CASE Idle(active)
            BY <1>1, <3>5 DEF Idle, KernelMoves, KernelOK, scheduling, synch
        <3> QED BY <1>3, <3>1, <3>2, <3>3, <3>4, <3>5 DEF Scheduling
    <2> QED BY <1>2, <2>1, <2>2
<1>4. CASE DiskInterrupt
    <2>1. UNCHANGED <<todo, pc, owner>> /\ ObjectsOK'
        BY <1>1, <1>4 DEF DiskInterrupt, DiskUnchanged, ObjectsOK
    <2>2. V(DiskSemaphore) /\ UNCHANGED <<currentThread, level, threadToBeDestroyed, halted>>
        BY <1>4 DEF DiskInterrupt
    <2>3. yieldOnReturn' \in BOOLEAN
        BY <1>4, Zenon DEF DiskInterrupt
    <2>4. owner' \in [Lock -> Thread \cup {NoThread}]
        BY <1>1, <2>1 DEF KernelOK
    <2>5. KernelOK'
        BY <1>1, <2>2, <2>3, <2>4, VTyped, Names
    <2>6. \A l \in Lock : value'[l] = value[l]
        BY <1>1, <2>2, Names DEF V, KernelOK
    <2> QED BY <1>2, <2>1, <2>5, <2>6 DEF KernelMoves
<1>5. CASE UNCHANGED vars
    BY <1>1, <1>2, <1>5, KernelStays DEF vars, objects, ObjectsOK
<1> QED BY <1>3, <1>4, <1>5

-----------------------------------------------------------------------------
LEMMA Initially == Init => Inv
<1> SUFFICES ASSUME Init PROVE Inv
    OBVIOUS
<1>1. value \in [Semaphore -> Nat]
    <2>1. \A s \in Semaphore : s \in Lock \/ s = DiskSemaphore \/ Initial(s) \in Nat
        BY MonitorAssumption DEF Semaphore
    <2> QED BY <2>1 DEF Init
<1>2. KernelOK
    <2>1. currentThread \in Thread /\ readyList \in Seq(Thread)
          /\ threadToBeDestroyed \in Thread \cup {NoThread}
        BY ThreadAssumption DEF Init, SchedulerInit
    <2>2. status \in [Thread -> Status] /\ level \in [Thread -> {"on", "off", "root"}]
        BY DEF Init, ThreadInit, Status
    <2>3. queue \in [Semaphore \cup Condition -> Seq(Thread)]
        BY DEF Init
    <2>4. owner \in [Lock -> Thread \cup {NoThread}]
        BY DEF Init
    <2> QED BY <1>1, <2>1, <2>2, <2>3, <2>4 DEF Init, KernelOK
<1>3. ControlOK
    <2>1. todo \in [Thread -> Seq(Call)]
        <3>1. Programs \subseteq [Thread -> Seq(Call)]
            BY MonitorAssumption
        <3> QED BY <3>1 DEF Init
    <2>2. pc \in [Thread -> Inside \cup Outside \cup {"done"}]
        BY DEF Init, Outside
    <2> QED BY <2>1, <2>2 DEF ControlOK
<1>4. ObjectsOK
    <2>1. state \in [Philosopher -> {"Thinking", "Hungry", "Eating"}]
        BY DEF Init
    <2>2. list = <<>> /\ active = FALSE /\ currentCount = 0
        BY DEF Init, BarrierInit
    <2>3. currentCount \in Nat /\ list \in Seq(Thread)
        BY <2>2
    <2>4. active \in BOOLEAN
        BY <2>2, Zenon
    <2> QED BY <2>1, <2>3, <2>4 DEF ObjectsOK
<1>5. InsideOwns
    BY DEF Init, InsideOwns, Inside
<1>6. LockIsBinary
    BY Names DEF Init, LockIsBinary
<1> QED BY <1>2, <1>3, <1>4, <1>5, <1>6, TypeParts DEF Inv, MutualExclusion

LEMMA Preserved == Inv /\ [Next]_vars => Inv'
<1> SUFFICES ASSUME Inv, [Next]_vars PROVE Inv'
    OBVIOUS
<1>1. ASSUME NEW t \in Thread, Step(t) PROVE Inv'
    BY <1>1, AcquireStep, LeaveStep, DiningStep, BarrierStep, ListStep, DiskStep, CallStep
       DEF Step
<1> QED BY <1>1, OtherStep DEF Next

\* Threads, queues, values and owners keep their types, and a semaphore's value does
\* not fall below 0 (threads/synch.cc).
THEOREM MonitorsTyped == Spec => []TypeOK
<1>1. Inv => TypeOK
    BY DEF Inv
<1> QED BY <1>1, Initially, Preserved, PTL DEF Spec

\* One thread at a time is in a monitor, and it owns the lock, wherever yields and
\* interrupts fall (threads/synch.cc, threads/diningph.cc, threads/synchlist.h,
\* filesys/synchdisk.cc).
THEOREM MutexAlways == Spec => []MutualExclusion
<1>1. Inv => MutualExclusion
    BY DEF Inv
<1> QED BY <1>1, Initially, Preserved, PTL DEF Spec

-----------------------------------------------------------------------------
(* What the promises of the monitors rest on.                              *)

\* The call a thread is in fits the place where it is.
Places ==
    \A t \in Thread :
        /\ pc[t] \in Inside \cup {"again"} => todo[t] # <<>>
        /\ pc[t] \in {"test", "check"} => Head(todo[t]).kind = "pickup"
        /\ pc[t] \in {"left", "right"} => Head(todo[t]).kind = "putdown"
        /\ pc[t] \in {"compare", "reset"} => Head(todo[t]).kind = "meet"
        /\ pc[t] = "signal" => Head(todo[t]).kind = "put"
        /\ pc[t] = "take" => Head(todo[t]).kind = "get"
        /\ pc[t] = "transfer" => Head(todo[t]).kind = "read"
        /\ pc[t] = "again" => Head(todo[t]).kind \in {"pickup", "meet", "get"}

Waiting(t, q) == t \in ToSet(queue[q])

Line == Semaphore \cup Condition
InList(u, ready, lines) == u \in ToSet(ready) \/ \E q \in Line : u \in ToSet(lines[q])

\* Who is on the ready list is ready and who is in a line sleeps: a thread is in one
\* of them at most, and once; who has finished is in none.
Listed(ready, lines, stat, dead) ==
    /\ IsInjective(ready) /\ \A u \in ToSet(ready) : stat[u] = "READY"
    /\ \A q \in Line : IsInjective(lines[q]) /\ \A u \in ToSet(lines[q]) : stat[u] = "BLOCKED"
    /\ \A p, q \in Line : p # q => ToSet(lines[p]) \cap ToSet(lines[q]) = {}
    /\ \A u \in dead : ~InList(u, ready, lines)

Dead == {t \in Thread : pc[t] = "done"}

Sleepers ==
    /\ Listed(readyList, queue, status, Dead)
    /\ threadToBeDestroyed # NoThread => threadToBeDestroyed \in Dead
    /\ \A t \in Dead : status[t] \in {"BLOCKED", "DELETED"}

\* A request is with the disk or has been answered exactly while a thread waits for it.
DiskState ==
    IF \E t \in Thread : pc[t] = "transfer"
    THEN value[DiskSemaphore] = IF active THEN 0 ELSE 1
    ELSE ~active /\ value[DiskSemaphore] = 0

\* The next call about the philosopher is the putdown.
Owes(calls, i) ==
    \E m \in DOMAIN calls :
        calls[m] = Putdown(i) /\ \A k \in 1..(m - 1) : calls[k] # Pickup(i)

\* Between two putdowns there is a pickup.
OneDown(calls, i) ==
    \A k, m \in DOMAIN calls :
        k < m /\ calls[k] = Putdown(i) /\ calls[m] = Putdown(i) =>
            \E j \in k..m : calls[j] = Pickup(i)

\* A philosopher is one thread.
Seats ==
    \A i \in Philosopher :
        /\ \A t, u \in Thread : Uses(todo[t], i) /\ Uses(todo[u], i) => t = u
        /\ \A t \in Thread : OneDown(todo[t], i)

NeighboursApart ==
    \A i \in Philosopher :
        state[i] = "Eating" => "Eating" \notin {state[Left(i)], state[Right(i)]}

\* A philosopher eats from its pickup to its putdown; a pickup that waits is woken by
\* who has made it eat.
EatsAs(t, i) ==
    /\ Owes(todo[t], i) => \/ state[i] = "Eating"
                           \/ Head(todo[t]) = Putdown(i) /\ pc[t] \in {"left", "right", "leave"}
    /\ todo[t] # <<>> /\ Head(todo[t]) = Pickup(i) =>
          /\ pc[t] \in {"test", "check"} => state[i] # "Thinking"
          /\ pc[t] = "leave" => state[i] = "Eating"
          /\ pc[t] = "again" => state[i] = "Eating" \/ Waiting(t, Self(i))
Eats == \A t \in Thread, i \in Philosopher : EatsAs(t, i)

AtBarrier(t) == todo[t] # <<>> /\ Head(todo[t]) = Meet

\* The threads that have come to the barrier and wait for the others; those that the
\* last one of their round has freed.
Gathered(t) ==
    AtBarrier(t) /\ (pc[t] = "compare" \/ (pc[t] = "again" /\ Waiting(t, BarrierCondition)))
Freed(t) ==
    AtBarrier(t) /\
       (pc[t] \in {"reset", "leave"} \/ (pc[t] = "again" /\ ~Waiting(t, BarrierCondition)))

\* The users of the barrier have n rounds to go, one more if they are about to leave one.
Round(users, n) ==
    /\ IsFiniteSet(users) /\ users \subseteq Thread
    /\ users # {} => Cardinality(users) = BarrierCount
    /\ \A t \in Thread : Rounds(t) = IF t \notin users THEN 0 ELSE IF Freed(t) THEN n + 1 ELSE n
    /\ IF \E t \in Thread : pc[t] = "reset"
       THEN \A t \in users : Freed(t) /\ pc[t] # "leave"
       ELSE currentCount = Cardinality({t \in users : Gathered(t)})

PromiseInv ==
    /\ Inv /\ Places /\ Sleepers
    /\ TakeFindsItem /\ DiskState
    /\ Seats /\ NeighboursApart /\ Eats
    /\ \E users \in SUBSET Thread, n \in Nat : Round(users, n)

-----------------------------------------------------------------------------
(* Lists of threads                                                        *)

\* A queue without its head (List::Remove).
LEMMA RestOf ==
    ASSUME NEW q \in Seq(Thread), IsInjective(q), q # <<>>
    PROVE  /\ Head(q) \in ToSet(q) /\ Tail(q) \in Seq(Thread) /\ IsInjective(Tail(q))
           /\ ToSet(Tail(q)) = ToSet(q) \ {Head(q)}
<1>1. PICK n \in Nat : n = Len(q) /\ n > 0
    BY EmptySeq
<1>2. DOMAIN q = 1..n /\ Head(q) = q[1]
    BY <1>1
<1>3. /\ Tail(q) \in Seq(Thread) /\ DOMAIN Tail(q) = 1..(n - 1)
      /\ \A i \in 1..(n - 1) : Tail(q)[i] = q[i + 1]
    BY <1>1, HeadTailProperties
<1>4. \A i, j \in 1..n : q[i] = q[j] => i = j
    BY <1>2 DEF IsInjective
<1>5. IsInjective(Tail(q))
    <2>1. ASSUME NEW i \in 1..(n - 1), NEW j \in 1..(n - 1), Tail(q)[i] = Tail(q)[j]
          PROVE  i = j
        <3>1. i + 1 \in 1..n /\ j + 1 \in 1..n /\ q[i + 1] = q[j + 1]
            BY <1>1, <1>3, <2>1
        <3>2. i + 1 = j + 1
            BY <1>4, <3>1
        <3> QED BY <3>2
    <2> QED BY <1>3, <2>1 DEF IsInjective
<1>6. ASSUME NEW x \in ToSet(Tail(q))
      PROVE  x \in ToSet(q) \ {Head(q)}
    <2>1. PICK i \in 1..(n - 1) : x = q[i + 1]
        BY <1>3 DEF ToSet
    <2>2. i + 1 \in 1..n /\ i + 1 # 1 /\ 1 \in 1..n
        BY <1>1
    <2>3. q[i + 1] # q[1]
        BY <1>4, <2>2
    <2> QED BY <1>2, <2>1, <2>2, <2>3 DEF ToSet
<1>7. ASSUME NEW x \in ToSet(q) \ {Head(q)}
      PROVE  x \in ToSet(Tail(q))
    <2>1. PICK i \in 1..n : x = q[i] /\ i # 1
        BY <1>2 DEF ToSet
    <2>2. i - 1 \in 1..(n - 1) /\ (i - 1) + 1 = i
        BY <2>1
    <2>3. Tail(q)[i - 1] = x
        BY <1>3, <2>1, <2>2
    <2> QED BY <1>3, <2>2, <2>3 DEF ToSet
<1>8. Head(q) \in ToSet(q)
    <2>1. 1 \in DOMAIN q
        BY <1>1, <1>2
    <2> QED BY <1>2, <2>1 DEF ToSet
<1> QED BY <1>3, <1>5, <1>6, <1>7, <1>8

LEMMA NoneOf == ToSet(<<>>) = {} /\ IsInjective(<<>>) /\ <<>> \in Seq(Thread)
BY DEF ToSet, IsInjective

LEMMA OneOf ==
    ASSUME NEW t \in Thread
    PROVE  ToSet(<<t>>) = {t} /\ IsInjective(<<t>>) /\ <<t>> \in Seq(Thread)
BY DEF ToSet, IsInjective

\* What V and Signal take from a queue, and what they leave.
LEMMA FirstRest ==
    ASSUME NEW q \in Seq(Thread), IsInjective(q)
    PROVE  /\ First(q) \in Seq(Thread) /\ IsInjective(First(q))
           /\ Rest(q) \in Seq(Thread) /\ IsInjective(Rest(q))
           /\ ToSet(First(q)) \subseteq ToSet(q)
           /\ ToSet(Rest(q)) = ToSet(q) \ ToSet(First(q))
<1>1. CASE q = <<>>
    <2>1. First(q) = <<>> /\ Rest(q) = <<>>
        BY <1>1 DEF First, Rest
    <2> QED BY <1>1, <2>1, NoneOf
<1>2. CASE q # <<>>
    <2>1. First(q) = <<Head(q)>> /\ Rest(q) = Tail(q)
        BY <1>2 DEF First, Rest
    <2>2. PICK h \in Thread : h = Head(q)
        BY <1>2
    <2>3. First(q) \in Seq(Thread) /\ IsInjective(First(q)) /\ ToSet(First(q)) = {h}
        BY <2>1, <2>2, OneOf
    <2> QED BY <1>2, <2>1, <2>2, <2>3, RestOf
<1> QED BY <1>1, <1>2

LEMMA Joined ==
    ASSUME NEW q \in Seq(Thread), NEW w \in Seq(Thread), IsInjective(q), IsInjective(w),
           ToSet(q) \cap ToSet(w) = {}
    PROVE  /\ q \o w \in Seq(Thread) /\ IsInjective(q \o w)
           /\ ToSet(q \o w) = ToSet(q) \cup ToSet(w)
<1>1. PICK n \in Nat : n = Len(q)
    OBVIOUS
<1>2. PICK m \in Nat : m = Len(w)
    OBVIOUS
<1>3. PICK r : r = q \o w
    OBVIOUS
<1>4. DOMAIN q = 1..n /\ DOMAIN w = 1..m
    BY <1>1, <1>2
<1>5. /\ r \in Seq(Thread) /\ DOMAIN r = 1..(n + m)
      /\ \A i \in 1..(n + m) : r[i] = IF i <= n THEN q[i] ELSE w[i - n]
    <2>1. /\ q \o w \in Seq(Thread) /\ Len(q \o w) = Len(q) + Len(w)
          /\ \A i \in 1..(Len(q) + Len(w)) :
               (q \o w)[i] = IF i <= Len(q) THEN q[i] ELSE w[i - Len(q)]
        BY ConcatProperties
    <2> QED BY <1>1, <1>2, <1>3, <2>1
<1>6. \A i, j \in 1..n : q[i] = q[j] => i = j
    BY <1>4 DEF IsInjective
<1>7. \A i, j \in 1..m : w[i] = w[j] => i = j
    BY <1>4 DEF IsInjective
<1>8. \A i \in 1..n : \A j \in 1..m : q[i] # w[j]
    BY <1>4 DEF ToSet
<1>9. ASSUME NEW i \in 1..(n + m)
      PROVE  \/ i \in 1..n /\ r[i] = q[i]
             \/ i - n \in 1..m /\ i \notin 1..n /\ r[i] = w[i - n]
    <2>1. r[i] = IF i <= n THEN q[i] ELSE w[i - n]
        BY <1>5
    <2>2. i \in 1..n \/ (i - n \in 1..m /\ i \notin 1..n)
        OBVIOUS
    <2> QED BY <2>1, <2>2
<1>10. ASSUME NEW i \in 1..(n + m), NEW j \in 1..(n + m), r[i] = r[j]
       PROVE  i = j
    <2>1. CASE i \in 1..n /\ j \in 1..n
        BY <1>6, <1>9, <1>10, <2>1
    <2>2. CASE i \notin 1..n /\ j \notin 1..n
        <3>1. w[i - n] = w[j - n] /\ i - n \in 1..m /\ j - n \in 1..m
            BY <1>9, <1>10, <2>2
        <3>2. i - n = j - n
            BY <1>7, <3>1
        <3> QED BY <3>2
    <2>3. CASE i \in 1..n /\ j \notin 1..n
        BY <1>8, <1>9, <1>10, <2>3
    <2>4. CASE i \notin 1..n /\ j \in 1..n
        BY <1>8, <1>9, <1>10, <2>4
    <2> QED BY <2>1, <2>2, <2>3, <2>4
<1>11. IsInjective(r)
    BY <1>5, <1>10 DEF IsInjective
<1>12. ToSet(r) \subseteq ToSet(q) \cup ToSet(w)
    BY <1>4, <1>5, <1>9 DEF ToSet
<1>13. ASSUME NEW x \in ToSet(q)
       PROVE  x \in ToSet(r)
    <2>1. PICK i \in 1..n : x = q[i]
        BY <1>4 DEF ToSet
    <2>2. i \in 1..(n + m) /\ r[i] = x
        BY <1>5, <2>1
    <2> QED BY <1>5, <2>2 DEF ToSet
<1>14. ASSUME NEW x \in ToSet(w)
       PROVE  x \in ToSet(r)
    <2>1. PICK i \in 1..m : x = w[i]
        BY <1>4 DEF ToSet
    <2>2. i + n \in 1..(n + m) /\ ~(i + n <= n) /\ (i + n) - n = i
        OBVIOUS
    <2>3. r[i + n] = x
        BY <1>5, <2>1, <2>2
    <2> QED BY <1>5, <2>2, <2>3 DEF ToSet
<1> QED BY <1>3, <1>5, <1>11, <1>12, <1>13, <1>14

LEMMA AppendedSet ==
    ASSUME NEW q \in Seq(Thread), NEW t
    PROVE  ToSet(Append(q, t)) = ToSet(q) \cup {t}
<1>1. PICK n \in Nat : n = Len(q) /\ DOMAIN q = 1..n
    OBVIOUS
<1>2. /\ DOMAIN Append(q, t) = 1..(n + 1) /\ Append(q, t)[n + 1] = t
      /\ \A i \in 1..n : Append(q, t)[i] = q[i]
    BY <1>1, AppendProperties
<1>3. \A i \in 1..(n + 1) : i \in 1..n \/ i = n + 1
    OBVIOUS
<1>4. n + 1 \in 1..(n + 1) /\ \A i \in 1..n : i \in 1..(n + 1)
    OBVIOUS
<1> QED BY <1>1, <1>2, <1>3, <1>4 DEF ToSet

LEMMA Appended ==
    ASSUME NEW q \in Seq(Thread), NEW t \in Thread, IsInjective(q), t \notin ToSet(q)
    PROVE  /\ Append(q, t) \in Seq(Thread) /\ IsInjective(Append(q, t))
           /\ ToSet(Append(q, t)) = ToSet(q) \cup {t}
<1>1. Append(q, t) = q \o <<t>>
    OBVIOUS
<1>2. PICK w \in Seq(Thread) : w = <<t>> /\ IsInjective(w) /\ ToSet(w) = {t}
    BY OneOf
<1>3. ToSet(q) \cap ToSet(w) = {}
    BY <1>2
<1>4. q \o w \in Seq(Thread) /\ IsInjective(q \o w) /\ ToSet(q \o w) = ToSet(q) \cup ToSet(w)
    BY <1>2, <1>3, Joined
<1> QED BY <1>1, <1>2, <1>4

-----------------------------------------------------------------------------
(* Who is in which list                                                    *)

LEMMA Lines ==
    /\ Lock \subseteq Line /\ DiskSemaphore \in Line /\ Semaphore \subseteq Line
    /\ Condition \subseteq Line /\ Condition \cap Semaphore = {}
BY Names, MonitorAssumption DEF Line, Semaphore, Condition, Lock, DpLock, BarrierLock,
    ListLock, DiskLock, DiskSemaphore, BarrierCondition, ListEmpty, Self

\* The thread that is neither ready nor blocked is in no list.
LEMMA NotListed ==
    ASSUME NEW ready, NEW lines, NEW stat, NEW dead, Listed(ready, lines, stat, dead),
           NEW t, stat[t] \notin {"READY", "BLOCKED"}
    PROVE  ~InList(t, ready, lines)
BY DEF Listed, InList

\* Whoever is in no list may change its status, and end.
LEMMA StatusListed ==
    ASSUME NEW ready, NEW lines, NEW stat, NEW dead, Listed(ready, lines, stat, dead),
           NEW stat2, NEW dead2,
           \A u : InList(u, ready, lines) => stat2[u] = stat[u] /\ u \notin dead2
    PROVE  Listed(ready, lines, stat2, dead2)
BY DEF Listed, InList

\* A thread falls asleep in a line (Semaphore::P, Condition::Wait).
LEMMA SleepListed ==
    ASSUME NEW ready, NEW lines \in [Line -> Seq(Thread)], NEW stat, NEW dead,
           Listed(ready, lines, stat, dead), NEW t \in Thread, NEW q \in Line,
           ~InList(t, ready, lines), t \notin dead, stat[t] = "BLOCKED"
    PROVE  Listed(ready, [lines EXCEPT ![q] = Append(@, t)], stat, dead)
<1>1. PICK l \in Seq(Thread) : l = lines[q]
    OBVIOUS
<1>2. IsInjective(l) /\ t \notin ToSet(l)
    BY <1>1 DEF Listed, InList
<1>3. PICK m \in Seq(Thread) :
        m = Append(l, t) /\ IsInjective(m) /\ ToSet(m) = ToSet(l) \cup {t}
    BY <1>2, Appended
<1>4. PICK new : new = [lines EXCEPT ![q] = m]
    OBVIOUS
<1>5. new[q] = m /\ \A p \in Line \ {q} : new[p] = lines[p]
    BY <1>4
<1>6. ToSet(new[q]) = ToSet(lines[q]) \cup {t}
    BY <1>1, <1>3, <1>5
<1>7. \A u \in ToSet(new[q]) : stat[u] = "BLOCKED"
    BY <1>6 DEF Listed
<1>8. \A p \in Line \ {q} : ToSet(new[p]) \cap ToSet(new[q]) = {}
    BY <1>5, <1>6 DEF Listed, InList
<1>9. \A u \in dead : ~InList(u, ready, new)
    BY <1>5, <1>6 DEF Listed, InList
<1>10. \A p \in Line : IsInjective(new[p]) /\ \A u \in ToSet(new[p]) : stat[u] = "BLOCKED"
    BY <1>3, <1>5, <1>7 DEF Listed
<1>11. \A p, r \in Line : p # r => ToSet(new[p]) \cap ToSet(new[r]) = {}
    <2>1. ASSUME NEW p \in Line, NEW r \in Line, p # r
          PROVE  ToSet(new[p]) \cap ToSet(new[r]) = {}
        <3>1. CASE p # q /\ r # q
            BY <1>5, <2>1, <3>1 DEF Listed
        <3>2. CASE p = q \/ r = q
            BY <1>8, <2>1, <3>2
        <3> QED BY <3>1, <3>2
    <2> QED BY <2>1
<1>12. IsInjective(ready) /\ \A u \in ToSet(ready) : stat[u] = "READY"
    BY DEF Listed
<1>13. Listed(ready, new, stat, dead)
    BY <1>9, <1>10, <1>11, <1>12 DEF Listed
<1> QED BY <1>1, <1>3, <1>4, <1>13

\* A line loses threads (Semaphore::V, Condition::Signal).
LEMMA LeaveListed ==
    ASSUME NEW ready, NEW lines \in [Line -> Seq(Thread)], NEW stat, NEW dead,
           Listed(ready, lines, stat, dead), NEW q \in Line, NEW rest \in Seq(Thread),
           IsInjective(rest), ToSet(rest) \subseteq ToSet(lines[q])
    PROVE  /\ Listed(ready, [lines EXCEPT ![q] = rest], stat, dead)
           /\ \A u : InList(u, ready, [lines EXCEPT ![q] = rest]) => InList(u, ready, lines)
           /\ \A u \in ToSet(lines[q]) \ ToSet(rest) :
                ~InList(u, ready, [lines EXCEPT ![q] = rest])
<1>1. PICK new : new = [lines EXCEPT ![q] = rest]
    OBVIOUS
<1>2. new[q] = rest /\ \A p \in Line \ {q} : new[p] = lines[p]
    BY <1>1
<1>3. \A p \in Line : ToSet(new[p]) \subseteq ToSet(lines[p])
    BY <1>2
<1>4. \A u : InList(u, ready, new) => InList(u, ready, lines)
    BY <1>3 DEF InList
<1>5. \A p \in Line : IsInjective(new[p])
    BY <1>2 DEF Listed
<1>6. Listed(ready, new, stat, dead)
    <2>1. \A p \in Line : \A u \in ToSet(new[p]) : stat[u] = "BLOCKED"
        BY <1>3 DEF Listed
    <2>2. ASSUME NEW p \in Line, NEW r \in Line, p # r
          PROVE  ToSet(new[p]) \cap ToSet(new[r]) = {}
        <3>1. ToSet(lines[p]) \cap ToSet(lines[r]) = {}
            BY <2>2 DEF Listed
        <3> QED BY <1>3, <3>1
    <2>3. \A u \in dead : ~InList(u, ready, new)
        BY <1>4 DEF Listed
    <2> QED BY <1>5, <2>1, <2>2, <2>3 DEF Listed
<1>7. ASSUME NEW u \in ToSet(lines[q]) \ ToSet(rest)
      PROVE  ~InList(u, ready, new)
    <2>1. u \notin ToSet(ready)
        BY DEF Listed
    <2>2. \A p \in Line : u \notin ToSet(new[p])
        BY <1>2 DEF Listed
    <2> QED BY <2>1, <2>2 DEF InList
<1> QED BY <1>1, <1>4, <1>6, <1>7

\* Threads are made ready (Scheduler::ReadyToRun).
LEMMA ReadyListed ==
    ASSUME NEW ready \in Seq(Thread), NEW lines, NEW stat, NEW dead,
           Listed(ready, lines, stat, dead), NEW w \in Seq(Thread), IsInjective(w),
           \A u \in ToSet(w) : ~InList(u, ready, lines) /\ u \notin dead, NEW stat2,
           \A u : InList(u, ready, lines) => stat2[u] = stat[u],
           \A u \in ToSet(w) : stat2[u] = "READY"
    PROVE  Listed(ready \o w, lines, stat2, dead)
<1>1. ToSet(ready) \cap ToSet(w) = {} /\ IsInjective(ready)
    BY DEF InList, Listed
<1>2. IsInjective(ready \o w) /\ ToSet(ready \o w) = ToSet(ready) \cup ToSet(w)
    BY <1>1, Joined
<1> QED BY <1>2 DEF Listed, InList

\* The first of the ready list is taken (Scheduler::FindNextToRun).
LEMMA TakenListed ==
    ASSUME NEW ready \in Seq(Thread), NEW lines, NEW stat, NEW dead,
           Listed(ready, lines, stat, dead), ready # <<>>
    PROVE  /\ Listed(Tail(ready), lines, stat, dead)
           /\ ~InList(Head(ready), Tail(ready), lines)
           /\ \A u : InList(u, Tail(ready), lines) => InList(u, ready, lines)
           /\ InList(Head(ready), ready, lines)
<1>1. IsInjective(ready)
    BY DEF Listed
<1>2. /\ Head(ready) \in ToSet(ready) /\ IsInjective(Tail(ready))
      /\ ToSet(Tail(ready)) = ToSet(ready) \ {Head(ready)}
    BY <1>1, RestOf
<1>3. \A q \in Line : Head(ready) \notin ToSet(lines[q])
    BY <1>2 DEF Listed
<1> QED BY <1>2, <1>3 DEF Listed, InList

-----------------------------------------------------------------------------
(* The operations of the thread system keep Sleepers.                      *)

\* A thread that runs is in no list, and has not finished.
LEMMA RunnerFree ==
    ASSUME KernelOK, Sleepers, NEW t \in Thread, status[t] \notin {"READY", "BLOCKED", "DELETED"}
    PROVE  ~InList(t, readyList, queue) /\ t \notin Dead
BY NotListed DEF Sleepers

LEMMA QueuesTyped ==
    ASSUME KernelOK
    PROVE  queue \in [Line -> Seq(Thread)] /\ readyList \in Seq(Thread)
BY DEF KernelOK, Line

LEMMA PWaitsSleeps ==
    ASSUME KernelOK, Sleepers, NEW t \in Thread, Runs(t), NEW s \in Semaphore, PWaits(t, s),
           Dead' = Dead
    PROVE  Sleepers'
<1>1. ~InList(t, readyList, queue) /\ t \notin Dead /\ s \in Line
    BY RunnerFree, Lines DEF Runs
<1>2. status' = [status EXCEPT ![t] = "BLOCKED"] /\ readyList' = readyList
      /\ queue' = [queue EXCEPT ![s] = Append(@, t)] /\ threadToBeDestroyed' = threadToBeDestroyed
    BY DEF PWaits, Sleep, machine
<1>3. status'[t] = "BLOCKED" /\ \A u : u # t => status'[u] = status[u]
    BY <1>2 DEF KernelOK
<1>4. Listed(readyList, queue, status', Dead)
    <2>1. \A u : InList(u, readyList, queue) => u # t /\ u \notin Dead
        BY <1>1 DEF Sleepers, Listed
    <2>2. \A u : InList(u, readyList, queue) => status'[u] = status[u] /\ u \notin Dead
        BY <1>3, <2>1
    <2> QED BY <2>2, StatusListed DEF Sleepers
<1>5. Listed(readyList, queue', status', Dead)
    BY <1>1, <1>2, <1>3, <1>4, QueuesTyped, SleepListed
<1> QED BY <1>1, <1>2, <1>3, <1>5 DEF Sleepers

\* Threads leave a line for the ready list.
LEMMA WakeSleeps ==
    ASSUME KernelOK, Sleepers, NEW q \in Line, NEW w \in Seq(Thread), NEW rest \in Seq(Thread),
           IsInjective(w), IsInjective(rest), ToSet(w) \subseteq ToSet(queue[q]),
           ToSet(rest) = ToSet(queue[q]) \ ToSet(w),
           queue' = [queue EXCEPT ![q] = rest], ReadyToRun(w),
           threadToBeDestroyed' = threadToBeDestroyed, Dead' = Dead
    PROVE  Sleepers'
<1>1. readyList' = readyList \o w
      /\ status' = [u \in Thread |-> IF u \in ToSet(w) THEN "READY" ELSE status[u]]
    BY DEF ReadyToRun
<1>2. queue \in [Line -> Seq(Thread)] /\ readyList \in Seq(Thread)
    BY QueuesTyped
<1>3. /\ Listed(readyList, queue', status, Dead)
      /\ \A u \in ToSet(w) : ~InList(u, readyList, queue')
    <2>1. /\ Listed(readyList, [queue EXCEPT ![q] = rest], status, Dead)
          /\ \A u \in ToSet(queue[q]) \ ToSet(rest) :
               ~InList(u, readyList, [queue EXCEPT ![q] = rest])
        BY <1>2, LeaveListed DEF Sleepers
    <2> QED BY <2>1
<1>4. \A u \in ToSet(w) : u \in Thread /\ u \notin Dead /\ status'[u] = "READY"
    <2>1. \A u \in ToSet(w) : u \in Thread
        BY DEF ToSet
    <2>2. \A u \in ToSet(w) : u \notin Dead
        BY DEF Sleepers, Listed, InList
    <2> QED BY <1>1, <2>1, <2>2
<1>5. \A u \in Thread : u \notin ToSet(w) => status'[u] = status[u]
    BY <1>1
<1>6. \A u : InList(u, readyList, queue') => u \in Thread /\ status'[u] = status[u]
    <2>1. \A u : InList(u, readyList, queue') => u \in Thread
        <3>1. \A u \in ToSet(readyList) : u \in Thread
            BY <1>2 DEF ToSet
        <3>2. queue' \in [Line -> Seq(Thread)]
            BY <1>2
        <3>3. ASSUME NEW p \in Line, NEW u \in ToSet(queue'[p])
              PROVE  u \in Thread
            <4>1. queue'[p] \in Seq(Thread)
                BY <3>2
            <4> QED BY <4>1 DEF ToSet
        <3> QED BY <3>1, <3>3 DEF InList
    <2> QED BY <1>3, <1>5, <2>1
<1>7. Listed(readyList', queue', status', Dead)
    BY <1>1, <1>2, <1>3, <1>4, <1>6, ReadyListed
<1>8. \A t \in Dead : status'[t] \in {"BLOCKED", "DELETED"}
    BY <1>4, <1>5 DEF Sleepers, Dead
<1> QED BY <1>7, <1>8 DEF Sleepers

LEMMA VSleeps ==
    ASSUME KernelOK, Sleepers, NEW q \in Line,
           queue' = [queue EXCEPT ![q] = Rest(@)], ReadyToRun(First(queue[q])),
           threadToBeDestroyed' = threadToBeDestroyed, Dead' = Dead
    PROVE  Sleepers'
<1>1. queue[q] \in Seq(Thread) /\ IsInjective(queue[q])
    BY QueuesTyped DEF Sleepers, Listed
<1>2. PICK l \in Seq(Thread) : l = queue[q] /\ IsInjective(l)
    BY <1>1
<1>3. /\ First(l) \in Seq(Thread) /\ IsInjective(First(l))
      /\ Rest(l) \in Seq(Thread) /\ IsInjective(Rest(l))
      /\ ToSet(First(l)) \subseteq ToSet(l)
      /\ ToSet(Rest(l)) = ToSet(l) \ ToSet(First(l))
    BY <1>2, FirstRest
<1>4. PICK w \in Seq(Thread), rest \in Seq(Thread) : w = First(l) /\ rest = Rest(l)
    BY <1>3
<1> QED BY <1>2, <1>3, <1>4, WakeSleeps

LEMMA BroadcastSleeps ==
    ASSUME KernelOK, Sleepers, NEW c \in Condition, Broadcast(c), Dead' = Dead
    PROVE  Sleepers'
<1>1. PICK l \in Seq(Thread) : l = queue[c] /\ IsInjective(l)
    BY Lines, QueuesTyped DEF Sleepers, Listed
<1>2. queue' = [queue EXCEPT ![c] = <<>>] /\ ReadyToRun(l)
      /\ threadToBeDestroyed' = threadToBeDestroyed
    BY <1>1 DEF Broadcast, machine
<1>3. PICK none \in Seq(Thread) : none = <<>> /\ ToSet(none) = {} /\ IsInjective(none)
    BY NoneOf
<1> QED BY <1>1, <1>2, <1>3, Lines, WakeSleeps

LEMMA WaitSleeps ==
    ASSUME KernelOK, Sleepers, NEW t \in Thread, Runs(t), NEW c \in Condition, NEW l \in Lock,
           Wait(t, c, l), Dead' = Dead
    PROVE  Sleepers'
<1>1. ~InList(t, readyList, queue) /\ t \notin Dead
    BY RunnerFree DEF Runs
<1>2. queue \in [Line -> Seq(Thread)] /\ readyList \in Seq(Thread) /\ l \in Line /\ c \in Line /\ c # l
    BY QueuesTyped, Lines, Names
<1>3. PICK line \in Seq(Thread) : line = queue[l] /\ IsInjective(line)
    BY <1>2 DEF Sleepers, Listed
<1>4. /\ First(line) \in Seq(Thread) /\ IsInjective(First(line))
      /\ Rest(line) \in Seq(Thread) /\ IsInjective(Rest(line))
      /\ ToSet(First(line)) \subseteq ToSet(line)
      /\ ToSet(Rest(line)) = ToSet(line) \ ToSet(First(line))
    BY <1>3, FirstRest
<1>5. PICK w \in Seq(Thread), rest \in Seq(Thread) : w = First(line) /\ rest = Rest(line)
    BY <1>4
<1>6. PICK mid : mid = [queue EXCEPT ![l] = rest]
    OBVIOUS
<1>7. mid \in [Line -> Seq(Thread)] /\ queue' = [mid EXCEPT ![c] = Append(@, t)]
    BY <1>2, <1>3, <1>5, <1>6 DEF Wait
<1>8. /\ Listed(readyList, mid, status, Dead)
      /\ \A u : InList(u, readyList, mid) => InList(u, readyList, queue)
      /\ \A u \in ToSet(w) : ~InList(u, readyList, mid)
    <2>1. /\ Listed(readyList, [queue EXCEPT ![l] = rest], status, Dead)
          /\ \A u : InList(u, readyList, [queue EXCEPT ![l] = rest]) => InList(u, readyList, queue)
          /\ \A u \in ToSet(queue[l]) \ ToSet(rest) :
               ~InList(u, readyList, [queue EXCEPT ![l] = rest])
        BY <1>2, <1>3, <1>4, <1>5, LeaveListed DEF Sleepers
    <2> QED BY <1>3, <1>4, <1>5, <1>6, <2>1
<1>9. status' = [u \in Thread |-> CASE u = t -> "BLOCKED"
                                    [] u \in ToSet(w) -> "READY"
                                    [] OTHER -> status[u]]
    BY <1>3, <1>5 DEF Wait
<1>10. \A u \in ToSet(w) : u \in Thread /\ u # t /\ u \notin Dead /\ InList(u, readyList, queue)
    <2>1. \A u \in ToSet(w) : u \in Thread
        BY DEF ToSet
    <2>2. \A u \in ToSet(w) : InList(u, readyList, queue)
        BY <1>2, <1>3, <1>4, <1>5 DEF InList
    <2> QED BY <1>1, <2>1, <2>2 DEF Sleepers, Listed
<1>11. status'[t] = "BLOCKED"
    BY <1>9, <1>10
<1>12. \A u \in ToSet(w) : status'[u] = "READY"
    BY <1>9, <1>10
<1>13. \A u \in Thread : u # t /\ u \notin ToSet(w) => status'[u] = status[u]
    BY <1>9
<1>14. \A u : InList(u, readyList, mid) => u \in Thread /\ status'[u] = status[u] /\ u # t
    <2>1. \A u \in ToSet(readyList) : u \in Thread
        BY <1>2 DEF ToSet
    <2>2. ASSUME NEW p \in Line, NEW u \in ToSet(mid[p])
          PROVE  u \in Thread
        <3>1. mid[p] \in Seq(Thread)
            BY <1>7
        <3> QED BY <3>1 DEF ToSet
    <2>3. \A u : InList(u, readyList, mid) => u \in Thread
        BY <2>1, <2>2 DEF InList
    <2> QED BY <1>1, <1>8, <1>13, <2>3
<1>15. Listed(readyList \o w, mid, status', Dead)
    BY <1>2, <1>4, <1>5, <1>8, <1>10, <1>12, <1>14, ReadyListed
<1>16. ~InList(t, readyList \o w, mid)
    <2>1. status'[t] # "READY" /\ \A u \in ToSet(readyList \o w) : status'[u] = "READY"
        BY <1>11, <1>15 DEF Listed
    <2>2. \A p \in Line : t \notin ToSet(mid[p])
        BY <1>14 DEF InList
    <2> QED BY <2>1, <2>2 DEF InList
<1>17. Listed(readyList \o w, [mid EXCEPT ![c] = Append(@, t)], status', Dead)
    BY <1>1, <1>2, <1>7, <1>11, <1>15, <1>16, SleepListed
<1>18. readyList' = readyList \o w /\ threadToBeDestroyed' = threadToBeDestroyed
    BY <1>3, <1>5 DEF Wait, machine
<1>19. \A u \in Dead : status'[u] \in {"BLOCKED", "DELETED"}
    BY <1>1, <1>10, <1>13 DEF Sleepers, Dead
<1> QED BY <1>7, <1>17, <1>18, <1>19 DEF Sleepers

LEMMA ForkSleeps ==
    ASSUME KernelOK, Sleepers, NEW u \in Thread, Fork(u), Dead' = Dead
    PROVE  Sleepers'
<1>1. ~InList(u, readyList, queue) /\ u \notin Dead
    BY RunnerFree DEF Fork
<1>2. PICK w \in Seq(Thread) : w = <<u>> /\ ToSet(w) = {u} /\ IsInjective(w)
    BY OneOf
<1>3. /\ readyList' = readyList \o w
      /\ status' = [v \in Thread |-> IF v \in ToSet(w) THEN "READY" ELSE status[v]]
      /\ queue' = queue /\ threadToBeDestroyed' = threadToBeDestroyed
    BY <1>2 DEF Fork, ReadyToRun, machine, synch
<1>4. status'[u] = "READY" /\ \A v \in Thread \ {u} : status'[v] = status[v]
    BY <1>2, <1>3
<1>5. \A v : InList(v, readyList, queue) => v \in Thread /\ v # u
    <2>1. \A v \in ToSet(readyList) : v \in Thread
        BY QueuesTyped DEF ToSet
    <2>2. ASSUME NEW p \in Line, NEW v \in ToSet(queue[p])
          PROVE  v \in Thread
        <3>1. queue[p] \in Seq(Thread)
            BY QueuesTyped
        <3> QED BY <3>1 DEF ToSet
    <2> QED BY <1>1, <2>1, <2>2 DEF InList
<1>6. Listed(readyList \o w, queue, status', Dead)
    BY <1>1, <1>2, <1>4, <1>5, QueuesTyped, ReadyListed DEF Sleepers
<1> QED BY <1>1, <1>3, <1>4, <1>6 DEF Sleepers, Dead

\* The first of the ready list runs; a carcass is deleted.
LEMMA RunSleeps ==
    ASSUME KernelOK, Sleepers, NEW ready \in Seq(Thread), NEW before \in [Thread -> Status],
           NEW next \in Thread, Listed(ready, queue, before, Dead), ~InList(next, ready, queue),
           next \notin Dead, Run(next, before), readyList' = ready, queue' = queue,
           Dead' = Dead, \A u \in Dead : before[u] = status[u]
    PROVE  Sleepers'
<1> DEFINE deletes == level[next] # "root" /\ threadToBeDestroyed # NoThread
<1>1. deletes => threadToBeDestroyed # NoThread
    OBVIOUS
<1>2. /\ status' = [u \in Thread |-> CASE u = next -> "RUNNING"
                                       [] deletes /\ u = threadToBeDestroyed -> "DELETED"
                                       [] OTHER -> before[u]]
      /\ threadToBeDestroyed' = IF deletes THEN NoThread ELSE threadToBeDestroyed
    BY DEF Run
<1> HIDE DEF deletes
<1>3. deletes => threadToBeDestroyed \in Dead /\ threadToBeDestroyed # next
    BY <1>1 DEF Sleepers
<1>4. \A u \in Thread : u # next /\ ~(deletes /\ u = threadToBeDestroyed) => status'[u] = before[u]
    BY <1>2
<1>5. \A u \in Thread : u # next /\ deletes /\ u = threadToBeDestroyed => status'[u] = "DELETED"
    BY <1>2
<1>6. \A u : InList(u, ready, queue) => u \in Thread /\ u \notin Dead
    <2>1. \A u \in ToSet(ready) : u \in Thread
        BY DEF ToSet
    <2>2. ASSUME NEW p \in Line, NEW u \in ToSet(queue[p])
          PROVE  u \in Thread
        <3>1. queue[p] \in Seq(Thread)
            BY QueuesTyped
        <3> QED BY <3>1 DEF ToSet
    <2> QED BY <2>1, <2>2 DEF InList, Listed
<1>7. Listed(ready, queue, status', Dead)
    BY <1>3, <1>4, <1>6, StatusListed
<1>8. \A u \in Dead : u \in Thread /\ status'[u] \in {"BLOCKED", "DELETED"}
    BY <1>4, <1>5 DEF Sleepers, Dead
<1> QED BY <1>2, <1>7, <1>8 DEF Sleepers

LEMMA DispatchSleeps ==
    ASSUME KernelOK, Sleepers, Dispatch, Dead' = Dead
    PROVE  Sleepers'
<1>1. /\ readyList # <<>> /\ readyList' = Tail(readyList) /\ Run(Head(readyList), status)
      /\ queue' = queue
    BY DEF Dispatch, synch
<1>2. PICK h \in Thread : h = Head(readyList)
    BY <1>1, QueuesTyped
<1>3. PICK ready \in Seq(Thread) : ready = Tail(readyList)
    <2>1. readyList \in Seq(Thread)
        BY QueuesTyped
    <2>2. Tail(readyList) \in Seq(Thread)
        BY <1>1, <2>1, HeadTailProperties
    <2> QED BY <2>2
<1>4. Listed(ready, queue, status, Dead) /\ ~InList(h, ready, queue) /\ InList(h, readyList, queue)
    BY <1>1, <1>2, <1>3, QueuesTyped, TakenListed DEF Sleepers
<1>5. h \notin Dead
    BY <1>4 DEF Sleepers, Listed
<1>6. status \in [Thread -> Status]
    BY DEF KernelOK
<1> QED BY <1>1, <1>2, <1>4, <1>5, <1>6, <1>3, RunSleeps

LEMMA YieldSleeps ==
    ASSUME KernelOK, Sleepers, NEW t \in Thread, status[t] = "RUNNING", Yield(t),
           queue' = queue, Dead' = Dead
    PROVE  Sleepers'
<1>1. CASE readyList = <<>>
    <2>1. UNCHANGED <<readyList, status, threadToBeDestroyed>>
        BY <1>1 DEF Yield
    <2> QED BY <2>1 DEF Sleepers
<1>2. CASE readyList # <<>>
    <2>1. ~InList(t, readyList, queue) /\ t \notin Dead
        BY RunnerFree
    <2>2. PICK h \in Thread : h = Head(readyList)
        BY <1>2, QueuesTyped
    <2>3. PICK rest \in Seq(Thread) : rest = Tail(readyList)
        <3>1. readyList \in Seq(Thread)
            BY QueuesTyped
        <3>2. Tail(readyList) \in Seq(Thread)
            BY <1>2, <3>1, HeadTailProperties
        <3> QED BY <3>2
    <2>4. /\ Listed(rest, queue, status, Dead) /\ ~InList(h, rest, queue)
          /\ \A u : InList(u, rest, queue) => InList(u, readyList, queue)
          /\ InList(h, readyList, queue)
        BY <1>2, <2>2, <2>3, QueuesTyped, TakenListed DEF Sleepers
    <2>5. h \notin Dead /\ h # t
        BY <2>1, <2>4 DEF Sleepers, Listed
    <2>6. PICK w \in Seq(Thread) : w = <<t>> /\ ToSet(w) = {t} /\ IsInjective(w)
        BY OneOf
    <2>7. PICK before \in [Thread -> Status] : before = [status EXCEPT ![t] = "READY"]
        BY DEF KernelOK, Status
    <2>8. before[t] = "READY" /\ \A u : u # t => before[u] = status[u]
        BY <2>7 DEF KernelOK
    <2>9. ToSet(rest) \cap ToSet(w) = {} /\ IsInjective(rest)
        BY <2>1, <2>4, <2>6 DEF InList, Listed
    <2>10. rest \o w \in Seq(Thread) /\ ToSet(rest \o w) = ToSet(rest) \cup ToSet(w)
        BY <2>6, <2>9, Joined
    <2>11. PICK ready \in Seq(Thread) : ready = rest \o w
        BY <2>10
    <2>12. Listed(ready, queue, before, Dead)
        BY <2>1, <2>4, <2>6, <2>8, <2>11, ReadyListed
    <2>13. ~InList(h, ready, queue)
        <3>1. ToSet(ready) = ToSet(rest) \cup {t}
            BY <2>6, <2>11, <2>10
        <3> QED BY <2>4, <2>5, <3>1 DEF InList
    <2>14. ready = Append(rest, t)
        BY <2>6, <2>11
    <2>15. readyList' = ready /\ Run(h, before)
        BY <1>2, <2>2, <2>3, <2>7, <2>14 DEF Yield
    <2>16. \A u \in Dead : before[u] = status[u]
        BY <2>1, <2>8
    <2> QED BY <2>5, <2>12, <2>13, <2>15, <2>16, RunSleeps
<1> QED BY <1>1, <1>2

LEMMA FinishSleeps ==
    ASSUME KernelOK, Sleepers, NEW t \in Thread, Runs(t), Finish(t), Dead' = Dead \cup {t}
    PROVE  Sleepers'
<1>1. ~InList(t, readyList, queue) /\ t \notin Dead
    BY RunnerFree DEF Runs
<1>2. /\ status' = [status EXCEPT ![t] = "BLOCKED"] /\ threadToBeDestroyed' = t
      /\ readyList' = readyList /\ queue' = queue
    BY DEF Finish, Sleep, synch
<1>3. status'[t] = "BLOCKED" /\ \A u : u # t => status'[u] = status[u]
    BY <1>2 DEF KernelOK
<1>4. \A u : InList(u, readyList, queue) => u \notin Dead \cup {t}
    BY <1>1 DEF Sleepers, Listed
<1>5. Listed(readyList, queue, status', Dead \cup {t})
    BY <1>1, <1>3, <1>4, StatusListed DEF Sleepers
<1> QED BY <1>2, <1>3, <1>5 DEF Sleepers

LEMMA NoneSleeps ==
    ASSUME Sleepers, UNCHANGED <<readyList, queue, status, threadToBeDestroyed>>, Dead' = Dead
    PROVE  Sleepers'
BY DEF Sleepers

\* A step of a running thread that does not finish leaves the dead as they are.
LEMMA DeadStay ==
    ASSUME Inv, Sleepers, NEW t \in Thread, Runs(t),
           UNCHANGED pc \/ \E w \in Inside \cup Outside : Goto(t, w)
    PROVE  Dead' = Dead
<1>1. pc[t] # "done"
    BY RunnerFree, TypeParts DEF Inv, Runs, Dead
<1>2. CASE UNCHANGED pc
    BY <1>2 DEF Dead
<1>3. CASE \E w \in Inside \cup Outside : Goto(t, w)
    <2>1. PICK w \in Inside \cup Outside : pc' = [pc EXCEPT ![t] = w]
        BY <1>3 DEF Goto
    <2>2. pc'[t] # "done" /\ \A u \in Thread \ {t} : pc'[u] = pc[u]
        BY <2>1, TypeParts DEF Inv, ControlOK, Inside, Outside
    <2> QED BY <1>1, <2>2 DEF Dead
<1> QED BY <1>2, <1>3

LEMMA MonitorSleeps ==
    ASSUME Inv, Sleepers, NEW t \in Thread, Acquire(t) \/ Leave(t)
    PROVE  Sleepers'
<1>1. KernelOK /\ LockOf(Head(todo[t])) \in Lock /\ LockOf(Head(todo[t])) \in Semaphore
      /\ LockOf(Head(todo[t])) \in Line
    BY TypeParts, LockOfCall, Names, Lines DEF Inv
<1>2. PICK l \in Lock : l = LockOf(Head(todo[t])) /\ l \in Semaphore /\ l \in Line
    BY <1>1
<1>3. Runs(t)
    BY DEF Acquire, Leave, At, Calls
<1>4. CASE Acquire(t)
    <2>1. Entered(t) \in Inside
        BY DEF Entered, Inside
    <2>2. CASE AcquireWaits(t, l) /\ UNCHANGED pc
        <3>1. Dead' = Dead
            BY <1>3, <2>2, DeadStay
        <3> QED BY <1>1, <1>2, <1>3, <2>2, <3>1, PWaitsSleeps DEF AcquireWaits
    <2>3. CASE AcquireTakes(t, l) /\ Goto(t, Entered(t))
        <3>1. Dead' = Dead
            BY <1>3, <2>1, <2>3, DeadStay
        <3> QED BY <2>3, <3>1, NoneSleeps DEF AcquireTakes, PTakes, machine
    <2> QED BY <1>2, <1>4, <2>2, <2>3 DEF Acquire
<1>5. CASE Leave(t)
    <2>1. Dead' = Dead
        <3>1. Goto(t, "call") /\ "call" \in Outside
            BY <1>5 DEF Leave, Returns, Outside
        <3> QED BY <1>3, <3>1, DeadStay
    <2>2. Release(l)
        BY <1>2, <1>5 DEF Leave
    <2>3. /\ queue' = [queue EXCEPT ![l] = Rest(@)] /\ ReadyToRun(First(queue[l]))
          /\ threadToBeDestroyed' = threadToBeDestroyed
        BY <2>2 DEF Release, V, machine
    <2> QED BY <1>1, <1>2, <2>1, <2>3, VSleeps
<1> QED BY <1>4, <1>5

LEMMA SignalSleeps ==
    ASSUME KernelOK, Sleepers, NEW c \in Condition, Signal(c), Dead' = Dead
    PROVE  Sleepers'
BY Lines, VSleeps DEF Signal, machine

LEMMA TestSleeps ==
    ASSUME KernelOK, Sleepers, NEW i \in Philosopher, test(i), Dead' = Dead
    PROVE  Sleepers'
<1>1. CASE MayEat(i)
    BY <1>1, SignalSleeps, Names DEF test
<1>2. CASE ~MayEat(i)
    BY <1>2, NoneSleeps DEF test, kernel, scheduling, machine, synch
<1> QED BY <1>1, <1>2

LEMMA BodySleeps ==
    ASSUME Inv, Sleepers, NEW t \in Thread,
           \/ Announce(t) \/ TestSelf(t) \/ CheckHungry(t) \/ TestLeft(t) \/ TestRight(t)
           \/ Arrive(t) \/ Compare(t) \/ Reset(t)
           \/ AppendItem(t) \/ SignalItem(t) \/ CheckItem(t) \/ TakeItem(t)
    PROVE  Sleepers'
<1>1. KernelOK /\ ControlOK
    BY TypeParts DEF Inv
<1>2. Runs(t)
    BY DEF Announce, TestSelf, CheckHungry, TestLeft, TestRight, Arrive, Compare, Reset,
           AppendItem, SignalItem, CheckItem, TakeItem, At, Calls
<1>3. Dead' = Dead
    <2>1. \E w \in Inside \cup Outside : Goto(t, w)
        BY DEF Announce, TestSelf, CheckHungry, TestLeft, TestRight, Arrive, Compare, Reset,
               AppendItem, SignalItem, CheckItem, TakeItem, Inside, Outside
    <2> QED BY <1>2, <2>1, DeadStay
<1>4. Head(todo[t]).kind \in {"pickup", "putdown"} /\ todo[t] # <<>> => Arg(t) \in Philosopher
    <2> SUFFICES ASSUME Head(todo[t]).kind \in {"pickup", "putdown"}, todo[t] # <<>>
                 PROVE  Arg(t) \in Philosopher
        OBVIOUS
    <2>1. Head(todo[t]) \in Call
        BY <1>1 DEF ControlOK
    <2> QED BY <2>1, Arguments DEF Arg
<1>5. CASE Announce(t) \/ Arrive(t) \/ Reset(t) \/ AppendItem(t) \/ TakeItem(t)
    <2>1. UNCHANGED kernel
        BY <1>5 DEF Announce, Arrive, Reset, AppendItem, TakeItem
    <2> QED BY <1>3, <2>1, NoneSleeps DEF kernel, scheduling, machine, synch
<1>6. CASE TestSelf(t)
    BY <1>1, <1>3, <1>4, <1>6, TestSleeps DEF TestSelf, At, Calls
<1>7. CASE TestLeft(t)
    BY <1>1, <1>3, <1>4, <1>7, TestSleeps, Neighbours DEF TestLeft, At, Calls
<1>8. CASE TestRight(t)
    BY <1>1, <1>3, <1>4, <1>8, TestSleeps, Neighbours DEF TestRight, At, Calls
<1>9. CASE CheckHungry(t)
    <2>1. Self(Arg(t)) \in Condition /\ DpLock \in Lock
        BY <1>4, <1>9, Names DEF CheckHungry, At, Calls, Lock
    <2>2. CASE UNCHANGED kernel
        BY <1>3, <2>2, NoneSleeps DEF kernel, scheduling, machine, synch
    <2>3. CASE Wait(t, Self(Arg(t)), DpLock)
        BY <1>1, <1>2, <1>3, <2>1, <2>3, WaitSleeps
    <2> QED BY <1>9, <2>2, <2>3 DEF CheckHungry
<1>10. CASE Compare(t)
    <2>1. BarrierCondition \in Condition /\ BarrierLock \in Lock
        BY Names DEF Lock
    <2>2. CASE Broadcast(BarrierCondition)
        BY <1>1, <1>3, <2>1, <2>2, BroadcastSleeps
    <2>3. CASE Wait(t, BarrierCondition, BarrierLock)
        BY <1>1, <1>2, <1>3, <2>1, <2>3, WaitSleeps
    <2> QED BY <1>10, <2>2, <2>3 DEF Compare
<1>11. CASE SignalItem(t)
    BY <1>1, <1>3, <1>11, SignalSleeps, Names DEF SignalItem
<1>12. CASE CheckItem(t)
    <2>1. ListEmpty \in Condition /\ ListLock \in Lock
        BY Names DEF Lock
    <2>2. CASE UNCHANGED kernel
        BY <1>3, <2>2, NoneSleeps DEF kernel, scheduling, machine, synch
    <2>3. CASE Wait(t, ListEmpty, ListLock)
        BY <1>1, <1>2, <1>3, <2>1, <2>3, WaitSleeps
    <2> QED BY <1>12, <2>2, <2>3 DEF CheckItem
<1> QED BY <1>5, <1>6, <1>7, <1>8, <1>9, <1>10, <1>11, <1>12

LEMMA CallSleeps ==
    ASSUME Inv, Sleepers, NEW t \in Thread,
           \/ Request(t) \/ Transfer(t)
           \/ UserP(t) \/ UserV(t) \/ CallFork(t) \/ CallYield(t) \/ CallFinish(t)
    PROVE  Sleepers'
<1>1. KernelOK /\ ControlOK
    BY TypeParts DEF Inv
<1>2. Runs(t)
    BY DEF Request, Transfer, UserP, UserV, CallFork, CallYield, CallFinish, At, Calls
<1>3. ~CallFinish(t) => Dead' = Dead
    <2> SUFFICES ASSUME ~CallFinish(t) PROVE Dead' = Dead
        OBVIOUS
    <2>1. UNCHANGED pc \/ \E w \in Inside \cup Outside : Goto(t, w)
        BY DEF Request, Transfer, UserP, UserV, CallFork, CallYield, Returns, Inside, Outside
    <2> QED BY <1>2, <2>1, DeadStay
<1>4. todo[t] # <<>> /\ Head(todo[t]).kind \in {"P", "V", "fork"} =>
        /\ Head(todo[t]).kind = "fork" => Arg(t) \in Thread
        /\ Head(todo[t]).kind \in {"P", "V"} => Arg(t) \in Semaphore /\ Arg(t) \in Line
    <2> SUFFICES ASSUME todo[t] # <<>>
                 PROVE  /\ Head(todo[t]).kind = "fork" => Arg(t) \in Thread
                        /\ Head(todo[t]).kind \in {"P", "V"} => Arg(t) \in Semaphore /\ Arg(t) \in Line
        OBVIOUS
    <2>1. Head(todo[t]) \in Call
        BY <1>1 DEF ControlOK
    <2> QED BY <2>1, Arguments, Names, Lines DEF Arg
<1>5. CASE Request(t)
    <2>1. UNCHANGED kernel /\ ~CallFinish(t)
        BY <1>5 DEF Request, CallFinish, At, Calls
    <2> QED BY <1>3, <2>1, NoneSleeps DEF kernel, scheduling, machine, synch
<1>6. CASE Transfer(t)
    <2>1. ~CallFinish(t) /\ DiskSemaphore \in Semaphore
        BY <1>6, Names DEF Transfer, CallFinish, At, Calls
    <2>2. CASE PWaits(t, DiskSemaphore)
        BY <1>1, <1>2, <1>3, <2>1, <2>2, PWaitsSleeps
    <2>3. CASE PTakes(t, DiskSemaphore)
        BY <1>3, <2>1, <2>3, NoneSleeps DEF PTakes, machine
    <2> QED BY <1>6, <2>2, <2>3 DEF Transfer
<1>7. CASE UserP(t)
    <2>1. ~CallFinish(t) /\ Arg(t) \in Semaphore
        BY <1>4, <1>7 DEF UserP, CallFinish, At, Calls
    <2>2. CASE PWaits(t, Arg(t))
        BY <1>1, <1>2, <1>3, <2>1, <2>2, PWaitsSleeps
    <2>3. CASE PTakes(t, Arg(t))
        BY <1>3, <2>1, <2>3, NoneSleeps DEF PTakes, machine
    <2> QED BY <1>7, <2>2, <2>3 DEF UserP
<1>8. CASE UserV(t)
    <2>1. ~CallFinish(t) /\ Arg(t) \in Line
        BY <1>4, <1>8 DEF UserV, CallFinish, At, Calls
    <2>2. /\ queue' = [queue EXCEPT ![Arg(t)] = Rest(@)] /\ ReadyToRun(First(queue[Arg(t)]))
          /\ threadToBeDestroyed' = threadToBeDestroyed
        BY <1>8 DEF UserV, V, machine
    <2> QED BY <1>1, <1>3, <2>1, <2>2, VSleeps
<1>9. CASE CallFork(t)
    <2>1. ~CallFinish(t) /\ Arg(t) \in Thread /\ Fork(Arg(t))
        BY <1>4, <1>9 DEF CallFork, CallFinish, At, Calls
    <2> QED BY <1>1, <1>3, <2>1, ForkSleeps
<1>10. CASE CallYield(t)
    <2>1. ~CallFinish(t) /\ Yield(t) /\ queue' = queue /\ status[t] = "RUNNING"
        BY <1>2, <1>10 DEF CallYield, CallFinish, At, Calls, synch, Runs
    <2> QED BY <1>1, <1>3, <2>1, YieldSleeps
<1>11. CASE CallFinish(t)
    <2>1. pc' = [pc EXCEPT ![t] = "done"] /\ Finish(t)
        BY <1>11 DEF CallFinish, Goto
    <2>2. pc'[t] = "done" /\ \A u \in Thread \ {t} : pc'[u] = pc[u]
        BY <1>1, <2>1 DEF ControlOK
    <2>3. Dead' = Dead \cup {t}
        BY <2>2 DEF Dead
    <2> QED BY <1>1, <1>2, <2>1, <2>3, FinishSleeps
<1> QED BY <1>5, <1>6, <1>7, <1>8, <1>9, <1>10, <1>11

LEMMA OtherSleeps ==
    ASSUME Inv, Sleepers, Scheduling \/ DiskInterrupt \/ UNCHANGED vars
    PROVE  Sleepers'
<1>1. KernelOK /\ ControlOK
    BY TypeParts DEF Inv
<1>2. Dead' = Dead
    BY DEF Scheduling, DiskInterrupt, vars, Dead
<1>3. CASE Dispatch
    BY <1>1, <1>2, <1>3, DispatchSleeps
<1>4. ASSUME NEW t \in Thread, t = currentThread, status[t] = "RUNNING",
             UNCHANGED synch, Yield(t)
      PROVE  Sleepers'
    <2>1. queue' = queue
        BY <1>4 DEF synch
    <2> QED BY <1>1, <1>2, <1>4, <2>1, YieldSleeps
<1>5. currentThread \in Thread
    BY <1>1 DEF KernelOK
<1>6. CASE ContextSwitch
    <2>1. CASE level[currentThread] = "on"
        BY <1>4, <1>5, <1>6, <2>1 DEF ContextSwitch
    <2>2. CASE level[currentThread] # "on"
        BY <1>2, <1>6, <2>2, NoneSleeps DEF ContextSwitch, scheduling, synch
    <2> QED BY <2>1, <2>2
<1>7. CASE YieldOnReturn
    BY <1>4, <1>5, <1>7 DEF YieldOnReturn
<1>8. CASE TimerInterruptHandler \/ Idle(active) \/ UNCHANGED vars
    BY <1>2, <1>8, NoneSleeps DEF TimerInterruptHandler, Idle, vars, kernel, scheduling,
       machine, synch
<1>9. CASE DiskInterrupt
    <2>1. DiskSemaphore \in Line
        BY Lines
    <2>2. /\ queue' = [queue EXCEPT ![DiskSemaphore] = Rest(@)]
          /\ ReadyToRun(First(queue[DiskSemaphore]))
          /\ threadToBeDestroyed' = threadToBeDestroyed
        BY <1>9 DEF DiskInterrupt, V
    <2> QED BY <1>1, <1>2, <2>1, <2>2, VSleeps
<1> QED BY <1>3, <1>6, <1>7, <1>8, <1>9 DEF Scheduling

\* Nobody is lost between the lists, and the dead do not come back.
LEMMA StepSleeps ==
    ASSUME Inv, Sleepers, [Next]_vars
    PROVE  Sleepers'
<1>1. ASSUME NEW t \in Thread, Step(t) PROVE Sleepers'
    BY <1>1, MonitorSleeps, BodySleeps, CallSleeps DEF Step
<1> QED BY <1>1, OtherSleeps DEF Next

-----------------------------------------------------------------------------
(* What a step leaves alone                                                *)

\* Who waits for a condition, other than c.
LinesStay(c) == \A d \in Condition \ {c} : queue'[d] = queue[d]
DiskValueStays == value'[DiskSemaphore] = value[DiskSemaphore]

\* A semaphore is no condition.
LEMMA SemaphoreFrame ==
    ASSUME KernelOK, NEW t, NEW s \in Semaphore, PWaits(t, s) \/ PTakes(t, s) \/ V(s)
    PROVE  /\ \A d \in Condition : queue'[d] = queue[d]
           /\ s # DiskSemaphore => DiskValueStays
<1>1. queue \in [Line -> Seq(Thread)] /\ value \in [Semaphore -> Nat] /\ DiskSemaphore \in Semaphore
    BY QueuesTyped, Names DEF KernelOK
<1>2. \A d \in Condition : d # s /\ d \in Line
    BY Lines
<1>3. queue' = queue \/ \E l : queue' = [queue EXCEPT ![s] = l]
    BY DEF PWaits, PTakes, V
<1>4. \A d \in Condition : queue'[d] = queue[d]
    BY <1>1, <1>2, <1>3
<1>5. value' = value \/ \E n : value' = [value EXCEPT ![s] = n]
    BY DEF PWaits, PTakes, V
<1>6. s # DiskSemaphore => DiskValueStays
    BY <1>1, <1>5 DEF DiskValueStays
<1> QED BY <1>4, <1>6

\* A condition is no semaphore.
LEMMA ConditionFrame ==
    ASSUME KernelOK, NEW t \in Thread, NEW c \in Condition, NEW l \in Lock,
           Signal(c) \/ Broadcast(c) \/ Wait(t, c, l)
    PROVE  LinesStay(c) /\ DiskValueStays
<1>1. queue \in [Line -> Seq(Thread)] /\ value \in [Semaphore -> Nat]
      /\ DiskSemaphore \in Semaphore /\ l \in Semaphore /\ l # DiskSemaphore
    BY QueuesTyped, Names DEF KernelOK
<1>2. \A d \in Condition : d # l /\ d \in Line
    BY Lines, ConditionsAreNoLocks
<1>3. \/ \E w : queue' = [queue EXCEPT ![c] = w]
      \/ \E r : queue' = [queue EXCEPT ![l] = r, ![c] = Append(@, t)]
    BY DEF Signal, Broadcast, Wait
<1>4. \A d \in Condition \ {c} : queue'[d] = queue[d]
    BY <1>1, <1>2, <1>3
<1>5. value' = value \/ \E n : value' = [value EXCEPT ![l] = n]
    BY DEF Signal, Broadcast, Wait
<1>6. DiskValueStays
    BY <1>1, <1>5 DEF DiskValueStays
<1> QED BY <1>4, <1>6 DEF LinesStay

LEMMA ConditionNames ==
    /\ \A i \in Philosopher : Self(i) \in Condition /\ Self(i) # BarrierCondition /\ Self(i) # ListEmpty
    /\ \A i, j \in Philosopher : Self(i) = Self(j) => i = j
    /\ BarrierCondition \in Condition /\ ListEmpty \in Condition /\ BarrierCondition # ListEmpty
    /\ DpLock # BarrierLock /\ DpLock # ListLock /\ DpLock # DiskLock
    /\ BarrierLock # ListLock /\ BarrierLock # DiskLock /\ ListLock # DiskLock
BY DEF Condition, Self, BarrierCondition, ListEmpty, DpLock, BarrierLock, ListLock, DiskLock

\* The thread is in a call of one of these kinds.
InCall(t, kinds) == todo[t] # <<>> /\ Head(todo[t]).kind \in kinds

\* What a thread's step changes of the threads and of the objects of calls it is not in.
Frame(t) ==
    /\ \A u \in Thread \ {t} : todo'[u] = todo[u] /\ pc'[u] = pc[u]
    /\ \/ todo[t] = <<>> /\ todo'[t] = todo[t]
       \/ todo[t] # <<>> /\ todo'[t] = todo[t]
       \/ todo[t] # <<>> /\ todo'[t] = Tail(todo[t]) /\ pc'[t] = "call"
    /\ ~InCall(t, {"pickup", "putdown"}) =>
          state' = state /\ \A i \in Philosopher : queue'[Self(i)] = queue[Self(i)]
    /\ ~InCall(t, {"meet"}) =>
          currentCount' = currentCount /\ queue'[BarrierCondition] = queue[BarrierCondition]
    /\ ~InCall(t, {"put", "get"}) => list' = list
    /\ ~InCall(t, {"read"}) => active' = active /\ DiskValueStays

LEMMA GotoFrame ==
    ASSUME ControlOK, NEW t \in Thread, UNCHANGED todo,
           UNCHANGED pc \/ \E w : Goto(t, w)
    PROVE  /\ \A u \in Thread \ {t} : todo'[u] = todo[u] /\ pc'[u] = pc[u]
           /\ todo'[t] = todo[t]
BY DEF ControlOK, Goto

LEMMA ReturnFrame ==
    ASSUME ControlOK, NEW t \in Thread, Returns(t)
    PROVE  /\ \A u \in Thread \ {t} : todo'[u] = todo[u] /\ pc'[u] = pc[u]
           /\ todo'[t] = Tail(todo[t]) /\ pc'[t] = "call"
BY DEF ControlOK, Goto, Returns

\* Acquire and Release touch no object and no condition.
LEMMA MonitorFrame ==
    ASSUME Inv, NEW t \in Thread, Acquire(t) \/ Leave(t)
    PROVE  Frame(t) /\ UNCHANGED objects /\ DiskValueStays
           /\ \A d \in Condition : queue'[d] = queue[d]
<1>1. KernelOK /\ ControlOK
    BY TypeParts DEF Inv
<1>2. PICK l \in Lock : l = LockOf(Head(todo[t])) /\ l \in Semaphore /\ l # DiskSemaphore
    BY LockOfCall, Names
<1>3. PWaits(t, l) \/ PTakes(t, l) \/ V(l)
    BY <1>2 DEF Acquire, Leave, AcquireWaits, AcquireTakes, Release
<1>4. DiskValueStays /\ \A d \in Condition : queue'[d] = queue[d]
    BY <1>1, <1>2, <1>3, SemaphoreFrame
<1>5. UNCHANGED objects /\ todo[t] # <<>>
    BY DEF Acquire, Leave, At, Calls
<1>6. CASE Acquire(t)
    BY <1>1, <1>4, <1>5, <1>6, GotoFrame, ConditionNames DEF Acquire, Frame, objects
<1>7. CASE Leave(t)
    BY <1>1, <1>4, <1>5, <1>7, ReturnFrame, ConditionNames DEF Leave, Frame, objects
<1> QED BY <1>4, <1>5, <1>6, <1>7

LEMMA KernelFrame ==
    ASSUME UNCHANGED kernel
    PROVE  DiskValueStays /\ \A d \in Condition : queue'[d] = queue[d]
BY DEF kernel, synch, DiskValueStays

\* What the body of a monitor does to the conditions.
LEMMA BodyFrame ==
    ASSUME Inv, NEW t \in Thread,
           \/ Announce(t) \/ TestSelf(t) \/ CheckHungry(t) \/ TestLeft(t) \/ TestRight(t)
           \/ Arrive(t) \/ Compare(t) \/ Reset(t)
           \/ AppendItem(t) \/ SignalItem(t) \/ CheckItem(t) \/ TakeItem(t)
    PROVE  Frame(t) /\ DiskValueStays
<1>1. KernelOK /\ ControlOK /\ Lock # {}
    BY TypeParts DEF Inv, Lock
<1>2. /\ \A u \in Thread \ {t} : todo'[u] = todo[u] /\ pc'[u] = pc[u]
      /\ todo'[t] = todo[t]
    <2>1. UNCHANGED todo /\ \E w : Goto(t, w)
        BY DEF Announce, TestSelf, CheckHungry, TestLeft, TestRight, Arrive, Compare, Reset,
               AppendItem, SignalItem, CheckItem, TakeItem, DiningUnchanged, BarrierUnchanged,
               ListUnchanged
    <2> QED BY <1>1, <2>1, GotoFrame
<1>3. todo[t] # <<>>
    BY DEF Announce, TestSelf, CheckHungry, TestLeft, TestRight, Arrive, Compare, Reset,
           AppendItem, SignalItem, CheckItem, TakeItem, At, Calls
<1>4. InCall(t, {"pickup", "putdown"}) => Arg(t) \in Philosopher
    BY <1>1, Arguments DEF ControlOK, InCall, Arg
<1>5. CASE Announce(t) \/ TestSelf(t) \/ CheckHungry(t) \/ TestLeft(t) \/ TestRight(t)
    <2>1. InCall(t, {"pickup", "putdown"}) /\ ~InCall(t, {"meet"}) /\ ~InCall(t, {"put", "get"})
          /\ ~InCall(t, {"read"}) /\ UNCHANGED <<currentCount, list, active>>
        BY <1>5 DEF InCall, Announce, TestSelf, CheckHungry, TestLeft, TestRight, At, Calls,
                    DiningUnchanged
    <2>2. \/ UNCHANGED kernel
          \/ \E i \in Philosopher : Signal(Self(i)) \/ Wait(t, Self(i), DpLock)
        BY <1>4, <1>5, <2>1, Neighbours
           DEF Announce, TestSelf, CheckHungry, TestLeft, TestRight, test
    <2>3. DpLock \in Lock
        BY DEF Lock
    <2>4. DiskValueStays /\ queue'[BarrierCondition] = queue[BarrierCondition]
        <3>1. CASE UNCHANGED kernel
            BY <3>1, KernelFrame, ConditionNames
        <3>2. ASSUME NEW i \in Philosopher, Signal(Self(i)) \/ Wait(t, Self(i), DpLock)
              PROVE  DiskValueStays /\ queue'[BarrierCondition] = queue[BarrierCondition]
            <4>1. LinesStay(Self(i)) /\ DiskValueStays
                BY <1>1, <2>3, <3>2, ConditionNames, ConditionFrame
            <4> QED BY <4>1, ConditionNames DEF LinesStay
        <3> QED BY <2>2, <3>1, <3>2
    <2> QED BY <1>2, <1>3, <2>1, <2>4 DEF Frame
<1>6. CASE Arrive(t) \/ Compare(t) \/ Reset(t)
    <2>1. InCall(t, {"meet"}) /\ ~InCall(t, {"pickup", "putdown"}) /\ ~InCall(t, {"put", "get"})
          /\ ~InCall(t, {"read"}) /\ UNCHANGED <<state, list, active>>
        BY <1>6 DEF InCall, Arrive, Compare, Reset, At, Calls, BarrierUnchanged
    <2>2. \/ UNCHANGED kernel
          \/ Broadcast(BarrierCondition) \/ Wait(t, BarrierCondition, BarrierLock)
        BY <1>6 DEF Arrive, Compare, Reset
    <2>3. BarrierLock \in Lock
        BY DEF Lock
    <2>4. DiskValueStays /\ \A i \in Philosopher : queue'[Self(i)] = queue[Self(i)]
        <3>1. CASE UNCHANGED kernel
            BY <3>1, KernelFrame, ConditionNames
        <3>2. CASE Broadcast(BarrierCondition) \/ Wait(t, BarrierCondition, BarrierLock)
            <4>1. LinesStay(BarrierCondition) /\ DiskValueStays
                BY <1>1, <2>3, <3>2, ConditionNames, ConditionFrame
            <4> QED BY <4>1, ConditionNames DEF LinesStay
        <3> QED BY <2>2, <3>1, <3>2
    <2> QED BY <1>2, <1>3, <2>1, <2>4 DEF Frame
<1>7. CASE AppendItem(t) \/ SignalItem(t) \/ CheckItem(t) \/ TakeItem(t)
    <2>1. InCall(t, {"put", "get"}) /\ ~InCall(t, {"pickup", "putdown"}) /\ ~InCall(t, {"meet"})
          /\ ~InCall(t, {"read"}) /\ UNCHANGED <<state, currentCount, active>>
        BY <1>7 DEF InCall, AppendItem, SignalItem, CheckItem, TakeItem, At, Calls, ListUnchanged
    <2>2. UNCHANGED kernel \/ Signal(ListEmpty) \/ Wait(t, ListEmpty, ListLock)
        BY <1>7 DEF AppendItem, SignalItem, CheckItem, TakeItem
    <2>3. ListLock \in Lock
        BY DEF Lock
    <2>4. DiskValueStays /\ queue'[BarrierCondition] = queue[BarrierCondition]
          /\ \A i \in Philosopher : queue'[Self(i)] = queue[Self(i)]
        <3>1. CASE UNCHANGED kernel
            BY <3>1, KernelFrame, ConditionNames
        <3>2. CASE Signal(ListEmpty) \/ Wait(t, ListEmpty, ListLock)
            <4>1. LinesStay(ListEmpty) /\ DiskValueStays
                BY <1>1, <2>3, <3>2, ConditionNames, ConditionFrame
            <4> QED BY <4>1, ConditionNames DEF LinesStay
        <3> QED BY <2>2, <3>1, <3>2
    <2> QED BY <1>2, <1>3, <2>1, <2>4 DEF Frame
<1> QED BY <1>5, <1>6, <1>7, <1>2 DEF Frame

\* The calls that are not monitors, and the disk.
LEMMA CallFrame ==
    ASSUME Inv, NEW t \in Thread,
           \/ Request(t) \/ Transfer(t)
           \/ UserP(t) \/ UserV(t) \/ CallFork(t) \/ CallYield(t) \/ CallFinish(t)
    PROVE  Frame(t)
<1>1. KernelOK /\ ControlOK
    BY TypeParts DEF Inv
<1>2. InCall(t, {"P", "V"}) => Arg(t) \in Semaphore /\ Arg(t) # DiskSemaphore
    BY <1>1, Arguments, Names, MonitorAssumption DEF ControlOK, InCall, Arg
<1>3. DiskSemaphore \in Semaphore
    BY Names
<1>4. UNCHANGED <<state, currentCount, list>>
    BY DEF Request, Transfer, UserP, UserV, CallFork, CallYield, CallFinish, DiskUnchanged, objects
<1>5. \A d \in Condition : queue'[d] = queue[d]
    <2>1. CASE Request(t) \/ CallFork(t) \/ CallYield(t) \/ CallFinish(t)
        BY <2>1 DEF Request, CallFork, CallYield, CallFinish, Fork, Finish, kernel, synch
    <2>2. CASE Transfer(t)
        BY <1>1, <1>3, <2>2, SemaphoreFrame DEF Transfer
    <2>3. CASE UserP(t)
        <3>1. InCall(t, {"P", "V"})
            BY <2>3 DEF UserP, At, Calls, InCall
        <3> QED BY <1>1, <1>2, <2>3, <3>1, SemaphoreFrame DEF UserP
    <2>4. CASE UserV(t)
        <3>1. InCall(t, {"P", "V"})
            BY <2>4 DEF UserV, At, Calls, InCall
        <3> QED BY <1>1, <1>2, <2>4, <3>1, SemaphoreFrame DEF UserV
    <2> QED BY <2>1, <2>2, <2>3, <2>4
<1>6. ~InCall(t, {"read"}) => active' = active /\ DiskValueStays
    <2>1. CASE CallFork(t) \/ CallYield(t) \/ CallFinish(t)
        BY <2>1 DEF CallFork, CallYield, CallFinish, Fork, Finish, synch, objects, DiskValueStays
    <2>2. CASE UserP(t)
        <3>1. InCall(t, {"P", "V"}) /\ active' = active
            BY <2>2 DEF UserP, At, Calls, InCall, objects
        <3> QED BY <1>1, <1>2, <2>2, <3>1, SemaphoreFrame DEF UserP
    <2>3. CASE UserV(t)
        <3>1. InCall(t, {"P", "V"}) /\ active' = active
            BY <2>3 DEF UserV, At, Calls, InCall, objects
        <3> QED BY <1>1, <1>2, <2>3, <3>1, SemaphoreFrame DEF UserV
    <2>4. CASE Request(t) \/ Transfer(t)
        BY <2>4 DEF Request, Transfer, At, Calls, InCall
    <2> QED BY <2>1, <2>2, <2>3, <2>4
<1>7. /\ \A u \in Thread \ {t} : todo'[u] = todo[u] /\ pc'[u] = pc[u]
      /\ \/ todo[t] = <<>> /\ todo'[t] = todo[t]
         \/ todo[t] # <<>> /\ todo'[t] = todo[t]
         \/ todo[t] # <<>> /\ todo'[t] = Tail(todo[t]) /\ pc'[t] = "call"
    <2>1. CASE UNCHANGED todo /\ (UNCHANGED pc \/ \E w : Goto(t, w))
        BY <1>1, <2>1, GotoFrame
    <2>2. CASE Returns(t) /\ todo[t] # <<>>
        BY <1>1, <2>2, ReturnFrame
    <2> QED BY <2>1, <2>2 DEF Request, Transfer, UserP, UserV, CallFork, CallYield, CallFinish,
               DiskUnchanged, At, Calls
<1> QED BY <1>4, <1>5, <1>6, <1>7, ConditionNames DEF Frame

LEMMA StepFrame ==
    ASSUME Inv, NEW t \in Thread, Step(t)
    PROVE  Frame(t)
BY MonitorFrame, BodyFrame, CallFrame DEF Step

\* The scheduler and the interrupts leave threads and objects alone.
LEMMA OtherFrame ==
    ASSUME Inv, Scheduling \/ DiskInterrupt \/ UNCHANGED vars
    PROVE  /\ UNCHANGED <<todo, pc, state, currentCount, list>>
           /\ \A d \in Condition : queue'[d] = queue[d]
           /\ ~DiskInterrupt => active' = active /\ DiskValueStays
<1>1. KernelOK /\ DiskSemaphore \in Semaphore
    BY TypeParts, Names DEF Inv
<1>2. CASE DiskInterrupt
    BY <1>1, <1>2, SemaphoreFrame DEF DiskInterrupt, DiskUnchanged
<1>3. CASE Scheduling \/ UNCHANGED vars
    <2>1. UNCHANGED synch /\ UNCHANGED <<todo, pc, objects>>
        BY <1>3 DEF Scheduling, Dispatch, TimerInterruptHandler, ContextSwitch, YieldOnReturn,
                    Idle, vars, kernel
    <2> QED BY <2>1 DEF synch, objects, DiskValueStays
<1> QED BY <1>2, <1>3

\* The steps of each kind of call.
LEMMA Kinds ==
    ASSUME NEW t \in Thread, Step(t)
    PROVE  /\ InCall(t, {"pickup", "putdown"}) =>
                \/ Acquire(t) \/ Leave(t)
                \/ Announce(t) \/ TestSelf(t) \/ CheckHungry(t) \/ TestLeft(t) \/ TestRight(t)
           /\ InCall(t, {"meet"}) =>
                Acquire(t) \/ Leave(t) \/ Arrive(t) \/ Compare(t) \/ Reset(t)
           /\ InCall(t, {"put", "get"}) =>
                \/ Acquire(t) \/ Leave(t)
                \/ AppendItem(t) \/ SignalItem(t) \/ CheckItem(t) \/ TakeItem(t)
           /\ InCall(t, {"read"}) => Acquire(t) \/ Leave(t) \/ Request(t) \/ Transfer(t)
<1>1. Announce(t) \/ TestSelf(t) \/ CheckHungry(t) \/ TestLeft(t) \/ TestRight(t) =>
        todo[t] # <<>> /\ Head(todo[t]).kind \in {"pickup", "putdown"}
    BY DEF Announce, TestSelf, CheckHungry, TestLeft, TestRight, At, Calls
<1>2. Arrive(t) \/ Compare(t) \/ Reset(t) => Head(todo[t]).kind = "meet"
    BY DEF Arrive, Compare, Reset, At, Calls
<1>3. AppendItem(t) \/ SignalItem(t) \/ CheckItem(t) \/ TakeItem(t) =>
        Head(todo[t]).kind \in {"put", "get"}
    BY DEF AppendItem, SignalItem, CheckItem, TakeItem, At, Calls
<1>4. Request(t) \/ Transfer(t) => Head(todo[t]).kind = "read"
    BY DEF Request, Transfer, At, Calls
<1>5. UserP(t) \/ UserV(t) \/ CallFork(t) \/ CallYield(t) =>
        Head(todo[t]).kind \in {"P", "V", "fork", "yield"}
    BY DEF UserP, UserV, CallFork, CallYield, At, Calls
<1>6. CallFinish(t) => todo[t] = <<>>
    BY DEF CallFinish
<1> QED BY <1>1, <1>2, <1>3, <1>4, <1>5, <1>6 DEF Step, InCall

\* Two threads are not inside the same monitor.
LEMMA Alone ==
    ASSUME Inv, NEW t \in Thread, NEW u \in Thread, pc[t] \in Inside, pc[u] \in Inside,
           LockOf(Head(todo[t])) = LockOf(Head(todo[u]))
    PROVE  t = u
BY DEF Inv, MutualExclusion, InsideOwns

\* Who enters finds nobody.
LEMMA Enters ==
    ASSUME Inv, NEW t \in Thread, Acquire(t), pc' # pc, NEW u \in Thread, pc[u] \in Inside
    PROVE  LockOf(Head(todo[u])) # LockOf(Head(todo[t]))
<1>1. PICK l \in Lock : l = LockOf(Head(todo[t]))
    BY LockOfCall
<1>2. AcquireTakes(t, l)
    BY <1>1 DEF Acquire
<1>3. value[l] > 0 /\ value \in [Semaphore -> Nat] /\ l \in Semaphore
    BY <1>2, Names, TypeParts DEF AcquireTakes, PTakes, Inv, KernelOK
<1>4. owner[l] = NoThread
    BY <1>3 DEF Inv, MutualExclusion, LockIsBinary
<1> QED BY <1>1, <1>4, ThreadAssumption DEF Inv, MutualExclusion, InsideOwns

\* Where Acquire leads.
LEMMA AcquireGoes ==
    ASSUME Inv, NEW t \in Thread, Acquire(t)
    PROVE  /\ todo' = todo /\ todo[t] # <<>> /\ Head(todo[t]).kind \in Monitor
           /\ pc[t] \in Outside
           /\ \/ pc' = pc
              \/ /\ pc'[t] = Entered(t)
                 /\ pc' # pc
<1>1. todo' = todo /\ todo[t] # <<>> /\ Head(todo[t]).kind \in Monitor /\ pc[t] \in Outside
    BY DEF Acquire, Calls
<1>2. pc' = pc \/ Goto(t, Entered(t))
    BY DEF Acquire
<1>3. Goto(t, Entered(t)) => pc'[t] = Entered(t)
    BY TypeParts DEF Goto, Inv, ControlOK
<1>4. Entered(t) \notin Outside
    BY DEF Entered, Outside
<1> QED BY <1>1, <1>2, <1>3, <1>4

LEMMA StepPlaces ==
    ASSUME Inv, Places, [Next]_vars
    PROVE  Places'
<1>1. ASSUME NEW t \in Thread, Step(t) PROVE Places'
    <2>1. ControlOK /\ Frame(t)
        BY <1>1, TypeParts, StepFrame DEF Inv
    <2>2. \A u \in Thread \ {t} : todo'[u] = todo[u] /\ pc'[u] = pc[u]
        BY <2>1 DEF Frame
    <2> DEFINE Fits(call, where) ==
            /\ where \in {"test", "check"} => call.kind = "pickup"
            /\ where \in {"left", "right"} => call.kind = "putdown"
            /\ where \in {"compare", "reset"} => call.kind = "meet"
            /\ where = "signal" => call.kind = "put"
            /\ where = "take" => call.kind = "get"
            /\ where = "transfer" => call.kind = "read"
            /\ where = "again" => call.kind \in {"pickup", "meet", "get"}
    <2>3. \A u \in Thread : (pc[u] \in Inside \cup {"again"} => todo[u] # <<>>)
                            /\ Fits(Head(todo[u]), pc[u])
        BY DEF Places
    <2>4. pc'[t] \in Inside \cup {"again"} =>
            todo'[t] = todo[t] /\ todo[t] # <<>> /\ Fits(Head(todo[t]), pc'[t])
        <3>1. CASE Acquire(t)
            <4>1. todo' = todo /\ todo[t] # <<>>
                  /\ (pc' = pc \/ pc'[t] \in {"body", "leave"})
                BY <3>1, AcquireGoes DEF Entered
            <4> QED BY <2>3, <4>1
        <3>2. CASE Returns(t) \/ Goto(t, "done")
            <4>1. pc'[t] \in {"call", "done"}
                BY <2>1, <3>2 DEF Returns, Goto, ControlOK
            <4> QED BY <4>1 DEF Inside
        <3>3. CASE UNCHANGED <<todo, pc>>
            BY <2>3, <3>3
        <3>4. ASSUME NEW w \in Inside \cup {"again"}, Goto(t, w), todo' = todo, todo[t] # <<>>,
                     Fits(Head(todo[t]), w)
              PROVE  todo'[t] = todo[t] /\ todo[t] # <<>> /\ Fits(Head(todo[t]), pc'[t])
            <4>1. pc'[t] = w
                BY <2>1, <3>4 DEF Goto, ControlOK
            <4> QED BY <3>4, <4>1
        <3>5. CASE Announce(t) \/ TestSelf(t) \/ CheckHungry(t) \/ TestLeft(t) \/ TestRight(t)
            <4>1. PICK w \in {"test", "left", "check", "again", "leave", "right"} :
                    Goto(t, w) /\ todo' = todo /\ todo[t] # <<>> /\ Fits(Head(todo[t]), w)
                BY <3>5 DEF Announce, TestSelf, CheckHungry, TestLeft, TestRight, At, Calls,
                            DiningUnchanged
            <4> QED BY <3>4, <4>1 DEF Inside
        <3>6. CASE Arrive(t) \/ Compare(t) \/ Reset(t)
            <4>1. PICK w \in {"compare", "reset", "again", "leave"} :
                    Goto(t, w) /\ todo' = todo /\ todo[t] # <<>> /\ Fits(Head(todo[t]), w)
                BY <3>6 DEF Arrive, Compare, Reset, At, Calls, BarrierUnchanged
            <4> QED BY <3>4, <4>1 DEF Inside
        <3>7. CASE AppendItem(t) \/ SignalItem(t) \/ CheckItem(t) \/ TakeItem(t)
            <4>1. PICK w \in {"signal", "leave", "again", "take"} :
                    Goto(t, w) /\ todo' = todo /\ todo[t] # <<>> /\ Fits(Head(todo[t]), w)
                BY <3>7 DEF AppendItem, SignalItem, CheckItem, TakeItem, At, Calls, ListUnchanged
            <4> QED BY <3>4, <4>1 DEF Inside
        <3>8. CASE Request(t) \/ Transfer(t)
            <4>1. UNCHANGED <<todo, pc>> \/ \E w \in {"transfer", "leave"} :
                    Goto(t, w) /\ todo' = todo /\ todo[t] # <<>> /\ Fits(Head(todo[t]), w)
                BY <3>8 DEF Request, Transfer, At, Calls, DiskUnchanged
            <4> QED BY <3>3, <3>4, <4>1 DEF Inside
        <3>9. CASE Leave(t) \/ UserP(t) \/ UserV(t) \/ CallFork(t) \/ CallYield(t) \/ CallFinish(t)
            BY <3>2, <3>3, <3>9 DEF Leave, UserP, UserV, CallFork, CallYield, CallFinish
        <3> QED BY <1>1, <3>1, <3>5, <3>6, <3>7, <3>8, <3>9 DEF Step
    <2>5. pc'[t] \notin Inside \cup {"again"} => Fits(Head(todo'[t]), pc'[t])
        BY DEF Inside
    <2>6. \A u \in Thread : (pc'[u] \in Inside \cup {"again"} => todo'[u] # <<>>)
                            /\ Fits(Head(todo'[u]), pc'[u])
        BY <2>2, <2>3, <2>4, <2>5
    <2> QED BY <2>6 DEF Places
<1>2. CASE Scheduling \/ DiskInterrupt \/ UNCHANGED vars
    BY <1>2, OtherFrame DEF Places
<1> QED BY <1>1, <1>2 DEF Next

-----------------------------------------------------------------------------
(* The list and the disk                                                   *)

\* A thread is at a place of a kind of call only while it is in one.
LEMMA PlaceInCall ==
    ASSUME Inv, Places, NEW t \in Thread, Step(t)
    PROVE  /\ pc'[t] = "take" => InCall(t, {"put", "get"})
           /\ pc'[t] = "transfer" \/ pc[t] = "transfer" => InCall(t, {"read"})
           /\ pc'[t] = "reset" \/ pc[t] = "reset" => InCall(t, {"meet"})
<1>1. Places' /\ Frame(t)
    BY StepPlaces, StepFrame DEF Next
<1>2. pc'[t] \in {"take", "transfer", "reset"} => todo[t] # <<>> /\ todo'[t] = todo[t]
    BY <1>1 DEF Frame, Places, Inside
<1> QED BY <1>1, <1>2 DEF Places, InCall, Inside

LEMMA StepTake ==
    ASSUME Inv, Places, TakeFindsItem, [Next]_vars
    PROVE  TakeFindsItem'
<1>1. ASSUME NEW t \in Thread, Step(t) PROVE TakeFindsItem'
    <2>1. Frame(t) /\ ControlOK /\ ObjectsOK
        BY <1>1, StepFrame, TypeParts DEF Inv
    <2>2. CASE ~InCall(t, {"put", "get"})
        BY <1>1, <2>1, <2>2, PlaceInCall DEF Frame, TakeFindsItem
    <2>3. CASE Acquire(t) \/ Leave(t)
        <3>1. (list' = list /\ pc'[t] # "take") \/ UNCHANGED <<list, pc>>
            BY <2>1, <2>3, AcquireGoes, MonitorFrame, ReturnFrame
               DEF Leave, Entered, objects, Frame
        <3> QED BY <2>1, <3>1 DEF Frame, TakeFindsItem
    <2>4. CASE AppendItem(t)
        <3>1. list' = Append(list, t) /\ list \in Seq(Thread)
            BY <2>1, <2>4 DEF AppendItem, ObjectsOK
        <3>2. list' # <<>>
            BY <3>1
        <3> QED BY <3>2 DEF TakeFindsItem
    <2>5. CASE SignalItem(t)
        <3>1. list' = list /\ pc'[t] = "leave"
            BY <2>1, <2>5 DEF SignalItem, Goto, ControlOK
        <3> QED BY <2>1, <3>1 DEF Frame, TakeFindsItem
    <2>6. CASE CheckItem(t)
        <3>1. list' = list /\ (list = <<>> => pc'[t] = "again")
            BY <2>1, <2>6 DEF CheckItem, Goto, ControlOK
        <3> QED BY <2>1, <3>1 DEF Frame, TakeFindsItem
    <2>7. CASE TakeItem(t)
        <3>1. pc'[t] = "leave" /\ pc[t] = "take" /\ LockOf(Head(todo[t])) = ListLock
            BY <2>1, <2>7 DEF TakeItem, At, Calls, Goto, ControlOK, LockOf
        <3>2. ASSUME NEW u \in Thread, pc[u] = "take" PROVE u = t
            <4>1. LockOf(Head(todo[u])) = ListLock /\ pc[t] \in Inside /\ pc[u] \in Inside
                BY <3>1, <3>2 DEF Places, LockOf, Inside
            <4> QED BY <3>1, <4>1, Alone
        <3> QED BY <2>1, <3>1, <3>2 DEF Frame, TakeFindsItem
    <2> QED BY <1>1, <2>2, <2>3, <2>4, <2>5, <2>6, <2>7, Kinds
<1>2. CASE Scheduling \/ DiskInterrupt \/ UNCHANGED vars
    BY <1>2, OtherFrame DEF TakeFindsItem
<1> QED BY <1>1, <1>2 DEF Next

\* Only one thread waits for the disk.
LEMMA OneTransfer ==
    ASSUME Inv, Places, NEW t \in Thread, InCall(t, {"read"}), pc[t] \in Inside,
           NEW u \in Thread, pc[u] = "transfer"
    PROVE  u = t
<1>1. LockOf(Head(todo[u])) = DiskLock /\ LockOf(Head(todo[t])) = DiskLock /\ pc[u] \in Inside
    BY DEF Places, LockOf, Inside, InCall
<1> QED BY <1>1, Alone

LEMMA StepDisk ==
    ASSUME Inv, Places, DiskState, [Next]_vars
    PROVE  DiskState'
<1>1. ASSUME NEW t \in Thread, Step(t) PROVE DiskState'
    <2>1. Frame(t) /\ ControlOK /\ ObjectsOK /\ KernelOK
        BY <1>1, StepFrame, TypeParts DEF Inv
    <2>2. CASE ~InCall(t, {"read"})
        <3>1. (\E u \in Thread : pc'[u] = "transfer") <=> (\E u \in Thread : pc[u] = "transfer")
            BY <1>1, <2>1, <2>2, PlaceInCall DEF Frame
        <3> QED BY <2>1, <2>2, <3>1 DEF Frame, DiskState, DiskValueStays
    <2>3. CASE Acquire(t) \/ Leave(t)
        <3>1. active' = active /\ DiskValueStays
            BY <2>3, MonitorFrame DEF objects
        <3>2. pc' = pc \/ (pc'[t] # "transfer" /\ pc[t] # "transfer")
            BY <2>1, <2>3, AcquireGoes, ReturnFrame DEF Leave, At, Entered, Outside
        <3> QED BY <2>1, <3>1, <3>2 DEF Frame, DiskState, DiskValueStays
    <2>4. CASE Request(t)
        <3>1. InCall(t, {"read"}) /\ pc[t] = "body" /\ pc'[t] = "transfer" /\ active' = TRUE
              /\ value' = value
            BY <2>1, <2>4 DEF Request, At, Calls, Goto, ControlOK, InCall, kernel, synch
        <3>2. ~ \E u \in Thread : pc[u] = "transfer"
            BY <3>1, OneTransfer DEF Inside
        <3> QED BY <3>1, <3>2 DEF DiskState
    <2>5. CASE Transfer(t)
        <3>1. InCall(t, {"read"}) /\ pc[t] = "transfer" /\ active' = active
            BY <2>5 DEF Transfer, At, Calls, InCall
        <3>2. CASE PWaits(t, DiskSemaphore) /\ UNCHANGED pc
            BY <3>1, <3>2 DEF DiskState, PWaits
        <3>3. CASE PTakes(t, DiskSemaphore) /\ Goto(t, "leave")
            <4>1. value[DiskSemaphore] > 0 /\ value' = [value EXCEPT ![DiskSemaphore] = @ - 1]
                BY <3>3 DEF PTakes
            <4>2. ~active /\ value[DiskSemaphore] = 1
                BY <3>1, <4>1 DEF DiskState
            <4>3. value'[DiskSemaphore] = 0
                BY <2>1, <4>1, <4>2, Names DEF KernelOK
            <4>4. pc'[t] = "leave"
                BY <2>1, <3>3 DEF Goto, ControlOK
            <4>5. \A u \in Thread : pc'[u] # "transfer"
                BY <2>1, <3>1, <4>4, OneTransfer DEF Frame, Inside
            <4> QED BY <3>1, <4>2, <4>3, <4>5 DEF DiskState
        <3> QED BY <2>5, <3>2, <3>3 DEF Transfer
    <2> QED BY <1>1, <2>2, <2>3, <2>4, <2>5, Kinds
<1>2. CASE (Scheduling \/ UNCHANGED vars) /\ ~DiskInterrupt
    BY <1>2, OtherFrame DEF DiskState, DiskValueStays
<1>3. CASE DiskInterrupt
    <2>1. active /\ active' = FALSE /\ value' = [value EXCEPT ![DiskSemaphore] = @ + 1] /\ pc' = pc
        BY <1>3 DEF DiskInterrupt, V
    <2>2. value[DiskSemaphore] = 0 /\ \E u \in Thread : pc[u] = "transfer"
        BY <2>1 DEF DiskState
    <2>3. value'[DiskSemaphore] = 1
        BY <2>1, <2>2, Names, TypeParts DEF Inv, KernelOK
    <2> QED BY <2>1, <2>2, <2>3 DEF DiskState
<1> QED BY <1>1, <1>2, <1>3 DEF Next

\* The disk has nothing to do when a request comes.
LEMMA RequestsFree ==
    ASSUME Inv, Places, DiskState
    PROVE  DiskIsFree
<1> SUFFICES ASSUME NEW t \in Thread, pc[t] = "body", Head(todo[t]).kind = "read"
             PROVE  ~active
    BY DEF DiskIsFree
<1>1. InCall(t, {"read"})
    BY DEF Places, InCall, Inside
<1>2. ~ \E u \in Thread : pc[u] = "transfer"
    BY <1>1, OneTransfer DEF Inside
<1> QED BY <1>2 DEF DiskState

-----------------------------------------------------------------------------
(* The barrier                                                             *)

\* A call that is done with takes its meeting along.
LEMMA MeetingsOf ==
    ASSUME NEW s \in Seq(Call)
    PROVE  /\ Meetings(s) \in Nat
           /\ s # <<>> => Meetings(s) = Meetings(Tail(s)) + (IF Head(s) = Meet THEN 1 ELSE 0)
           /\ s # <<>> /\ Head(s) = Meet => Meetings(s) > 0
<1> DEFINE Spots(q) == {k \in DOMAIN q : q[k] = Meet}
<1>1. PICK n \in Nat : n = Len(s)
    OBVIOUS
<1>2. DOMAIN s = 1..n
    BY <1>1
<1>3. IsFiniteSet(1..n) /\ IsFiniteSet(Spots(s)) /\ Meetings(s) \in Nat
    <2>1. IsFiniteSet(1..n)
        BY FS_Interval
    <2>2. IsFiniteSet(Spots(s))
        BY <1>2, <2>1, FS_Subset
    <2> QED BY <2>1, <2>2, FS_CardinalityType DEF Meetings
<1>4. ASSUME s # <<>>
      PROVE  Meetings(s) = Meetings(Tail(s)) + (IF Head(s) = Meet THEN 1 ELSE 0)
    <2>1. n > 0 /\ Head(s) = s[1]
        BY <1>1, <1>4, EmptySeq
    <2>2. DOMAIN Tail(s) = 1..(n - 1) /\ \A i \in 1..(n - 1) : Tail(s)[i] = s[i + 1]
        BY <1>1, <1>4, <2>1, HeadTailProperties
    <2> DEFINE B == Spots(Tail(s))
               C == {k \in 2..n : s[k] = Meet}
               f == [k \in B |-> k + 1]
    <2>3. B = {k \in 1..(n - 1) : s[k + 1] = Meet}
        BY <2>2
    <2>4. \A k \in B : k \in 1..(n - 1) /\ f[k] = k + 1 /\ k + 1 \in C
        BY <2>3
    <2>5. f \in Bijection(B, C)
        <3>1. f \in [B -> C]
            BY <2>4
        <3>2. \A j, k \in B : f[j] = f[k] => j = k
            <4>1. ASSUME NEW j \in B, NEW k \in B, f[j] = f[k] PROVE j = k
                <5>1. j \in Int /\ k \in Int /\ j + 1 = k + 1
                    BY <2>4, <4>1
                <5> QED BY <5>1
            <4> QED BY <4>1
        <3>3. \A c \in C : \E k \in B : f[k] = c
            <4>1. ASSUME NEW c \in C PROVE \E k \in B : f[k] = c
                <5>1. c - 1 \in 1..(n - 1) /\ (c - 1) + 1 = c /\ s[(c - 1) + 1] = Meet
                    OBVIOUS
                <5>2. c - 1 \in B
                    BY <2>3, <5>1
                <5> QED BY <2>4, <5>1, <5>2
            <4> QED BY <4>1
        <3> QED BY <3>1, <3>2, <3>3, Fun_IsBij
    <2>6. IsFiniteSet(C)
        BY <1>3, FS_Subset
    <2>7. IsFiniteSet(B)
        <3>1. IsFiniteSet(1..(n - 1)) /\ B \subseteq 1..(n - 1)
            BY <2>1, <2>3, FS_Interval
        <3> QED BY <3>1, FS_Subset
    <2>8. Cardinality(B) = Cardinality(C)
        BY <2>5, <2>6, <2>7, FS_Bijection DEF ExistsBijection
    <2>9. Meetings(s) = Cardinality(Spots(s)) /\ Meetings(Tail(s)) = Cardinality(B)
        BY DEF Meetings
    <2>10. CASE Head(s) = Meet
        <3>1. Spots(s) = C \cup {1} /\ 1 \notin C
            BY <1>2, <2>1, <2>10
        <3>2. Cardinality(Spots(s)) = Cardinality(C) + 1
            BY <2>6, <3>1, FS_AddElement
        <3> HIDE DEF B, C, Spots
        <3> QED BY <2>8, <2>9, <2>10, <3>2
    <2>11. CASE Head(s) # Meet
        <3>1. Spots(s) = C
            BY <1>2, <2>1, <2>11
        <3>2. Cardinality(B) \in Nat
            BY <2>7, FS_CardinalityType
        <3> HIDE DEF B, C, Spots
        <3> QED BY <2>8, <2>9, <2>11, <3>1, <3>2
    <2> QED BY <2>10, <2>11
<1>5. ASSUME s # <<>>, Head(s) = Meet PROVE Meetings(s) > 0
    <2>1. 1 \in Spots(s)
        BY <1>1, <1>2, <1>5, EmptySeq
    <2>2. Cardinality(Spots(s)) # 0
        BY <1>3, <2>1, FS_EmptySet
    <2> QED BY <1>3, <2>2 DEF Meetings
<1> QED BY <1>3, <1>4, <1>5

LEMMA RoundsOf ==
    ASSUME ControlOK, NEW t \in Thread
    PROVE  /\ Rounds(t) \in Nat
           /\ AtBarrier(t) => Rounds(t) > 0 /\ Meetings(Tail(todo[t])) = Rounds(t) - 1
           /\ todo[t] # <<>> /\ ~AtBarrier(t) => Meetings(Tail(todo[t])) = Rounds(t)
<1>1. PICK s \in Seq(Call) : s = todo[t]
    BY DEF ControlOK
<1>2. Meetings(s) \in Nat
    BY <1>1, MeetingsOf
<1>3. s # <<>> => Tail(s) \in Seq(Call)
    BY <1>1
<1>4. s # <<>> => Meetings(Tail(s)) \in Nat
    BY <1>3, MeetingsOf
<1>5. /\ s # <<>> => Meetings(s) = Meetings(Tail(s)) + (IF Head(s) = Meet THEN 1 ELSE 0)
      /\ s # <<>> /\ Head(s) = Meet => Meetings(s) > 0
    BY <1>1, MeetingsOf
<1> QED BY <1>1, <1>2, <1>4, <1>5 DEF Rounds, AtBarrier

\* A call of the kind is the barrier's.
LEMMA MeetIsMeet ==
    ASSUME ControlOK, NEW t \in Thread
    PROVE  AtBarrier(t) <=> InCall(t, {"meet"})
<1>1. todo[t] # <<>> => Head(todo[t]) \in Call
    BY DEF ControlOK
<1>2. \A c \in Call : c.kind = "meet" <=> c = Meet
    BY DEF Call, Fork_, Pickup, Putdown, Meet, Put, Get, ReadSector, Down, Up, YieldCall
<1> QED BY <1>1, <1>2 DEF AtBarrier, InCall

LEMMA UsersMeet ==
    ASSUME ControlOK, NEW users, NEW n \in Nat, Round(users, n), NEW t \in Thread, AtBarrier(t)
    PROVE  t \in users
BY RoundsOf DEF Round

\* Nobody comes or goes.
LEMMA RoundStays ==
    ASSUME NEW users, NEW n \in Nat, Round(users, n),
           \A t \in Thread : /\ Rounds(t)' = Rounds(t)
                             /\ Freed(t)' = Freed(t) /\ Gathered(t)' = Gathered(t),
           (\E t \in Thread : pc'[t] = "reset") <=> (\E t \in Thread : pc[t] = "reset"),
           (\E t \in Thread : pc[t] = "reset") =>
               \A t \in users : pc'[t] = "leave" => pc[t] = "leave",
           currentCount' = currentCount
    PROVE  Round(users, n)'
<1>1. users \subseteq Thread
    BY DEF Round
<1>2. {t \in users : Gathered(t)'} = {t \in users : Gathered(t)}
    BY <1>1
<1> QED BY <1>1, <1>2 DEF Round

LEMMA QuietRound ==
    ASSUME Inv, Places, NEW users, NEW n \in Nat, Round(users, n), NEW t \in Thread, Step(t),
           ~InCall(t, {"meet"})
    PROVE  Round(users, n)'
<1>1. ControlOK /\ Frame(t)
    BY StepFrame, TypeParts DEF Inv
<1>2. ~AtBarrier(t) /\ ~Freed(t) /\ ~Gathered(t)
    BY <1>1, MeetIsMeet DEF Freed, Gathered
<1>3. /\ currentCount' = currentCount
      /\ \A u \in Thread : Waiting(u, BarrierCondition)' = Waiting(u, BarrierCondition)
    BY <1>1 DEF Frame, Waiting
<1>4. \A u \in Thread \ {t} : /\ Rounds(u)' = Rounds(u)
                              /\ Freed(u)' = Freed(u) /\ Gathered(u)' = Gathered(u)
    BY <1>1, <1>3 DEF Frame, Rounds, Freed, Gathered, AtBarrier
<1>5. Rounds(t)' = Rounds(t)
    BY <1>1, <1>2, RoundsOf DEF Frame, Rounds
<1>6. Freed(t)' = Freed(t) /\ Gathered(t)' = Gathered(t)
    BY <1>1, <1>2 DEF Frame, Freed, Gathered, AtBarrier
<1>7. \A u \in Thread : /\ Rounds(u)' = Rounds(u)
                        /\ Freed(u)' = Freed(u) /\ Gathered(u)' = Gathered(u)
    BY <1>4, <1>5, <1>6
<1>8. (\E u \in Thread : pc'[u] = "reset") <=> (\E u \in Thread : pc[u] = "reset")
    BY <1>1, PlaceInCall DEF Frame
<1>9. (\E u \in Thread : pc[u] = "reset") =>
          \A u \in users : pc'[u] = "leave" => pc[u] = "leave"
    BY <1>1, <1>2 DEF Round, Frame
<1> QED BY <1>3, <1>7, <1>8, <1>9, RoundStays

\* Whoever resets the count is alone in the barrier.
LEMMA OneReset ==
    ASSUME Inv, Places, NEW t \in Thread, InCall(t, {"meet"}), pc[t] \in Inside,
           NEW u \in Thread, pc[u] \in {"reset", "compare"}
    PROVE  u = t
<1>1. LockOf(Head(todo[u])) = BarrierLock /\ LockOf(Head(todo[t])) = BarrierLock /\ pc[u] \in Inside
    BY DEF Places, LockOf, Inside, InCall
<1> QED BY <1>1, Alone

LEMMA AcquireRound ==
    ASSUME Inv, Places, Sleepers, NEW users, NEW n \in Nat, Round(users, n),
           NEW t \in Thread, InCall(t, {"meet"}), Acquire(t)
    PROVE  Round(users, n)'
<1>1. /\ ControlOK /\ Frame(t) /\ UNCHANGED objects /\ todo' = todo
      /\ queue'[BarrierCondition] = queue[BarrierCondition]
    BY MonitorFrame, TypeParts, AcquireGoes, ConditionNames DEF Inv
<1>2. \A u \in Thread : Waiting(u, BarrierCondition)' = Waiting(u, BarrierCondition)
    BY <1>1 DEF Waiting
<1>3. CASE pc' = pc
    <2>1. \A u \in Thread : /\ Rounds(u)' = Rounds(u)
                            /\ Freed(u)' = Freed(u) /\ Gathered(u)' = Gathered(u)
        BY <1>1, <1>2, <1>3 DEF Rounds, Freed, Gathered, AtBarrier
    <2> QED BY <1>1, <1>3, <2>1, RoundStays DEF objects
<1>4. CASE pc' # pc
    <2>1. pc[t] \in Outside /\ pc'[t] = Entered(t)
        BY <1>4, AcquireGoes
    <2>2. (pc[t] = "call" /\ pc'[t] = "body") \/ (pc[t] = "again" /\ pc'[t] = "leave")
        BY <2>1 DEF Entered, Outside, InCall
    <2>3. ~Waiting(t, BarrierCondition)
        <3>1. KernelOK /\ status[t] = "RUNNING" /\ BarrierCondition \in Line
            BY TypeParts, Lines, Names DEF Inv, Acquire, Calls, Runs
        <3>2. ~InList(t, readyList, queue)
            BY <3>1, RunnerFree
        <3> QED BY <3>1, <3>2 DEF InList, Waiting
    <2>4. \A u \in Thread \ {t} : /\ Rounds(u)' = Rounds(u) /\ pc'[u] = pc[u]
                                  /\ Freed(u)' = Freed(u) /\ Gathered(u)' = Gathered(u)
        BY <1>1, <1>2 DEF Frame, Rounds, Freed, Gathered, AtBarrier
    <2>5. Rounds(t)' = Rounds(t) /\ Freed(t)' = Freed(t) /\ Gathered(t)' = Gathered(t)
        BY <1>1, <1>2, <2>2, <2>3 DEF Rounds, Freed, Gathered, AtBarrier
    <2>6. \A u \in Thread : pc[u] # "reset"
        <3>1. ASSUME NEW u \in Thread, pc[u] = "reset" PROVE FALSE
            <4>1. pc[u] \in Inside /\ Head(todo[u]).kind = "meet"
                BY <3>1 DEF Inside, Places
            <4>2. LockOf(Head(todo[u])) = LockOf(Head(todo[t]))
                BY <4>1 DEF LockOf, InCall
            <4> QED BY <1>4, <4>1, <4>2, Enters
        <3> QED BY <3>1
    <2>7. \A u \in Thread : pc'[u] # "reset"
        BY <2>2, <2>4, <2>6
    <2> QED BY <1>1, <2>4, <2>5, <2>6, <2>7, RoundStays DEF objects
<1> QED BY <1>3, <1>4

LEMMA LeaveRound ==
    ASSUME Inv, Places, NEW users, NEW n \in Nat, Round(users, n),
           NEW t \in Thread, InCall(t, {"meet"}), Leave(t)
    PROVE  Round(users, n)'
<1>1. /\ ControlOK /\ Frame(t) /\ UNCHANGED objects
      /\ queue'[BarrierCondition] = queue[BarrierCondition]
    BY MonitorFrame, TypeParts, ConditionNames DEF Inv
<1>2. \A u \in Thread : Waiting(u, BarrierCondition)' = Waiting(u, BarrierCondition)
    BY <1>1 DEF Waiting
<1>3. pc[t] = "leave" /\ pc'[t] = "call" /\ todo'[t] = Tail(todo[t])
    BY <1>1, ReturnFrame DEF Leave, At
<1>4. AtBarrier(t) /\ Freed(t) /\ ~Gathered(t) /\ ~Freed(t)' /\ ~Gathered(t)' /\ t \in users
    BY <1>1, <1>3, MeetIsMeet, UsersMeet DEF Freed, Gathered
<1>5. Rounds(t) = n + 1 /\ Rounds(t)' = n
    BY <1>1, <1>3, <1>4, RoundsOf DEF Round, Rounds
<1>6. \A u \in Thread \ {t} : /\ Rounds(u)' = Rounds(u) /\ pc'[u] = pc[u]
                              /\ Freed(u)' = Freed(u) /\ Gathered(u)' = Gathered(u)
    BY <1>1, <1>2 DEF Frame, Rounds, Freed, Gathered, AtBarrier
<1>7. \A u \in Thread : pc[u] # "reset" /\ pc'[u] # "reset"
    BY <1>3, <1>6, OneReset DEF Inside
<1>8. users \subseteq Thread
    BY DEF Round
<1>9. {u \in users : Gathered(u)'} = {u \in users : Gathered(u)}
    BY <1>4, <1>6, <1>8
<1>10. \A u \in Thread : Rounds(u)' = IF u \notin users THEN 0 ELSE IF Freed(u)' THEN n + 1 ELSE n
    BY <1>4, <1>5, <1>6 DEF Round
<1> QED BY <1>1, <1>7, <1>9, <1>10 DEF Round, objects

LEMMA ArriveRound ==
    ASSUME Inv, Places, NEW users, NEW n \in Nat, Round(users, n),
           NEW t \in Thread, InCall(t, {"meet"}), Arrive(t)
    PROVE  Round(users, n)'
<1>1. ControlOK /\ ObjectsOK /\ queue' = queue /\ todo' = todo /\ currentCount' = currentCount + 1
      /\ pc[t] = "body" /\ Goto(t, "compare")
    BY TypeParts DEF Inv, Arrive, At, kernel, synch, BarrierUnchanged
<1>2. pc'[t] = "compare" /\ \A u \in Thread \ {t} : pc'[u] = pc[u]
    BY <1>1 DEF Goto, ControlOK
<1>3. \A u \in Thread : Waiting(u, BarrierCondition)' = Waiting(u, BarrierCondition)
    BY <1>1 DEF Waiting
<1>4. AtBarrier(t) /\ t \in users
    BY <1>1, MeetIsMeet, UsersMeet
<1>5. ~Freed(t) /\ ~Gathered(t) /\ ~Freed(t)' /\ Gathered(t)'
    BY <1>1, <1>2, <1>4 DEF Freed, Gathered, AtBarrier
<1>6. \A u \in Thread \ {t} : Freed(u)' = Freed(u) /\ Gathered(u)' = Gathered(u)
    BY <1>1, <1>2, <1>3 DEF Freed, Gathered, AtBarrier
<1>7. \A u \in Thread : pc[u] # "reset" /\ pc'[u] # "reset"
    BY <1>1, <1>2, OneReset DEF Inside
<1>8. \A u \in Thread : Rounds(u)' = Rounds(u)
    BY <1>1 DEF Rounds
<1>9. \A u \in Thread : Rounds(u)' = IF u \notin users THEN 0 ELSE IF Freed(u)' THEN n + 1 ELSE n
    BY <1>5, <1>6, <1>8 DEF Round
<1>10. users \subseteq Thread /\ IsFiniteSet(users)
    BY DEF Round
<1>11. PICK G \in SUBSET users : G = {u \in users : Gathered(u)}
    OBVIOUS
<1>12. IsFiniteSet(G) /\ t \notin G /\ {u \in users : Gathered(u)'} = G \cup {t}
    BY <1>4, <1>5, <1>6, <1>10, <1>11, FS_Subset
<1>13. Cardinality(G \cup {t}) = Cardinality(G) + 1
    BY <1>12, FS_AddElement
<1>14. currentCount = Cardinality(G)
    BY <1>7, <1>11 DEF Round
<1> QED BY <1>1, <1>7, <1>9, <1>12, <1>13, <1>14 DEF Round

\* The last one to come frees the others, and they are all there.
LEMMA CompareRound ==
    ASSUME Inv, Places, NEW users, NEW n \in Nat, Round(users, n),
           NEW t \in Thread, InCall(t, {"meet"}), Compare(t)
    PROVE  \E m \in Nat : Round(users, m)'
<1>1. ControlOK /\ ObjectsOK /\ KernelOK /\ todo' = todo /\ currentCount' = currentCount
      /\ pc[t] = "compare"
    BY TypeParts DEF Inv, Compare, At, BarrierUnchanged
<1>2. BarrierCondition \in Line /\ BarrierLock \in Line /\ BarrierLock # BarrierCondition
    BY Lines, Names, ConditionsAreNoLocks DEF Lock
<1>3. AtBarrier(t) /\ t \in users /\ Gathered(t) /\ ~Freed(t)
    BY <1>1, MeetIsMeet, UsersMeet DEF Gathered, Freed
<1>4. \A u \in Thread : pc[u] # "reset" /\ (pc[u] = "compare" => u = t)
    BY <1>1, OneReset DEF Inside
<1>5. users \subseteq Thread /\ IsFiniteSet(users)
      /\ currentCount = Cardinality({u \in users : Gathered(u)})
    BY <1>4 DEF Round
<1>6. \A u \in Thread : Rounds(u)' = Rounds(u)
    BY <1>1 DEF Rounds
<1>7. queue \in [Line -> Seq(Thread)]
    BY <1>1, QueuesTyped
<1>8. CASE currentCount = BarrierCount
    <2>1. Broadcast(BarrierCondition) /\ Goto(t, "reset")
        BY <1>8 DEF Compare
    <2>2. pc'[t] = "reset" /\ \A u \in Thread \ {t} : pc'[u] = pc[u]
        BY <1>1, <2>1 DEF Goto, ControlOK
    <2>3. queue'[BarrierCondition] = <<>>
        BY <1>2, <1>7, <2>1 DEF Broadcast
    <2>4. \A u \in Thread : ~Waiting(u, BarrierCondition)'
        BY <2>3, NoneOf DEF Waiting
    <2>5. \A u \in users : Gathered(u)
        <3>1. PICK G \in SUBSET users : G = {u \in users : Gathered(u)}
            OBVIOUS
        <3>2. Cardinality(users) = Cardinality(G)
            BY <1>3, <1>5, <1>8, <3>1 DEF Round
        <3>3. G = users
            BY <1>5, <3>2, FS_Subset
        <3> QED BY <3>1, <3>3
    <2>6. \A u \in users : ~Freed(u) /\ AtBarrier(u)
        BY <1>5, <2>5 DEF Gathered, Freed
    <2>7. \A u \in users : Freed(u)' /\ pc'[u] # "leave"
        BY <1>1, <1>4, <1>5, <2>2, <2>4, <2>5 DEF Gathered, Freed, AtBarrier
    <2>8. n > 0 /\ n - 1 \in Nat
        <3>1. Rounds(t) = n /\ Rounds(t) > 0
            BY <1>1, <1>3, RoundsOf DEF Round
        <3> QED BY <3>1
    <2>9. \A u \in Thread : Rounds(u)' = IF u \notin users THEN 0
                                         ELSE IF Freed(u)' THEN (n - 1) + 1 ELSE n - 1
        BY <1>6, <2>6, <2>7 DEF Round
    <2>10. Round(users, n - 1)'
        BY <2>2, <2>7, <2>9 DEF Round
    <2> QED BY <2>8, <2>10
<1>9. CASE currentCount # BarrierCount
    <2>1. Wait(t, BarrierCondition, BarrierLock) /\ Goto(t, "again")
        BY <1>9 DEF Compare
    <2>2. pc'[t] = "again" /\ \A u \in Thread \ {t} : pc'[u] = pc[u]
        BY <1>1, <2>1 DEF Goto, ControlOK
    <2>3. queue'[BarrierCondition] = Append(queue[BarrierCondition], t)
        BY <1>2, <1>7, <2>1 DEF Wait
    <2>4. ToSet(queue'[BarrierCondition]) = ToSet(queue[BarrierCondition]) \cup {t}
        <3>1. PICK q \in Seq(Thread) : q = queue[BarrierCondition]
            BY <1>2, <1>7
        <3> QED BY <2>3, <3>1, AppendedSet
    <2>5. Waiting(t, BarrierCondition)'
          /\ \A u \in Thread \ {t} : Waiting(u, BarrierCondition)' = Waiting(u, BarrierCondition)
        BY <2>4 DEF Waiting
    <2>6. \A u \in Thread \ {t} : Freed(u)' = Freed(u) /\ Gathered(u)' = Gathered(u)
        BY <1>1, <2>2, <2>5 DEF Freed, Gathered, AtBarrier
    <2>7. ~Freed(t)' /\ Gathered(t)'
        BY <1>1, <1>3, <2>2, <2>5 DEF Freed, Gathered, AtBarrier
    <2>8. \A u \in Thread : pc'[u] # "reset"
        BY <1>4, <2>2
    <2>9. {u \in users : Gathered(u)'} = {u \in users : Gathered(u)}
        BY <1>3, <1>5, <2>6, <2>7
    <2>10. \A u \in Thread : Rounds(u)' = IF u \notin users THEN 0 ELSE IF Freed(u)' THEN n + 1 ELSE n
        BY <1>3, <1>6, <2>6, <2>7 DEF Round
    <2>11. Round(users, n)'
        BY <1>1, <1>5, <2>8, <2>9, <2>10 DEF Round
    <2> QED BY <2>11
<1> QED BY <1>8, <1>9

LEMMA ResetRound ==
    ASSUME Inv, Places, NEW users, NEW n \in Nat, Round(users, n),
           NEW t \in Thread, InCall(t, {"meet"}), Reset(t)
    PROVE  Round(users, n)'
<1>1. ControlOK /\ queue' = queue /\ todo' = todo /\ currentCount' = 0
      /\ pc[t] = "reset" /\ Goto(t, "leave")
    BY TypeParts DEF Inv, Reset, At, kernel, synch, BarrierUnchanged
<1>2. pc'[t] = "leave" /\ \A u \in Thread \ {t} : pc'[u] = pc[u]
    BY <1>1 DEF Goto, ControlOK
<1>3. \A u \in Thread : Waiting(u, BarrierCondition)' = Waiting(u, BarrierCondition)
    BY <1>1 DEF Waiting
<1>4. AtBarrier(t) /\ t \in users
    BY <1>1, MeetIsMeet, UsersMeet
<1>5. \A u \in Thread : Freed(u)' = Freed(u) /\ Rounds(u)' = Rounds(u)
    BY <1>1, <1>2, <1>3, <1>4 DEF Freed, AtBarrier, Rounds
<1>6. users \subseteq Thread /\ \A u \in users : Freed(u)
    BY <1>1 DEF Round
<1>7. \A u \in users : ~Gathered(u)'
    BY <1>5, <1>6 DEF Freed, Gathered
<1>8. {u \in users : Gathered(u)'} = {}
    BY <1>7
<1>9. \A u \in Thread : pc'[u] # "reset"
    BY <1>1, <1>2, OneReset DEF Inside
<1> QED BY <1>1, <1>5, <1>8, <1>9, FS_EmptySet DEF Round

LEMMA StepRound ==
    ASSUME Inv, Places, Sleepers, NEW users, NEW n \in Nat, Round(users, n), [Next]_vars
    PROVE  \E m \in Nat : Round(users, m)'
<1>1. ASSUME NEW t \in Thread, Step(t) PROVE \E m \in Nat : Round(users, m)'
    <2>1. CASE ~InCall(t, {"meet"})
        BY <1>1, <2>1, QuietRound
    <2>2. CASE InCall(t, {"meet"})
        BY <1>1, <2>2, Kinds, AcquireRound, LeaveRound, ArriveRound, CompareRound, ResetRound
    <2> QED BY <2>1, <2>2
<1>2. CASE Scheduling \/ DiskInterrupt \/ UNCHANGED vars
    <2>1. UNCHANGED <<todo, pc, currentCount>> /\ queue'[BarrierCondition] = queue[BarrierCondition]
        BY <1>2, OtherFrame, ConditionNames
    <2>2. \A u \in Thread : /\ Rounds(u)' = Rounds(u)
                            /\ Freed(u)' = Freed(u) /\ Gathered(u)' = Gathered(u)
        BY <2>1 DEF Rounds, Freed, Gathered, AtBarrier, Waiting
    <2> QED BY <2>1, <2>2, RoundStays
<1> QED BY <1>1, <1>2 DEF Next

\* The rounds of two threads differ by one at most while both have some to go.
LEMMA RoundTogether ==
    ASSUME NEW users, NEW n \in Nat, Round(users, n)
    PROVE  BarrierTogether
BY DEF Round, BarrierTogether

LEMMA InitRound ==
    ASSUME Init, Inv
    PROVE  \E users \in SUBSET Thread, n \in Nat : Round(users, n)
<1>1. ControlOK /\ todo \in Programs /\ currentCount = 0 /\ pc = [t \in Thread |-> "call"]
    BY TypeParts DEF Init, Inv, BarrierInit
<1>2. PICK users \in SUBSET Thread : users = {t \in Thread : Meetings(todo[t]) > 0}
    OBVIOUS
<1>3. users # {} => /\ IsFiniteSet(users) /\ Cardinality(users) = BarrierCount
                    /\ \A t, u \in users : Meetings(todo[t]) = Meetings(todo[u])
    BY <1>1, <1>2, BarrierAssumption
<1>4. \A t \in Thread : Rounds(t) \in Nat
    BY <1>1, RoundsOf
<1>5. PICK n \in Nat : \A t \in users : Rounds(t) = n
    <2>1. CASE users = {}
        BY <2>1
    <2>2. CASE users # {}
        BY <1>3, <1>4, <2>2 DEF Rounds
    <2> QED BY <2>1, <2>2
<1>6. \A t \in Thread : ~Freed(t) /\ ~Gathered(t) /\ pc[t] # "reset"
    BY <1>1 DEF Freed, Gathered
<1>7. \A t \in Thread : Rounds(t) = IF t \notin users THEN 0 ELSE IF Freed(t) THEN n + 1 ELSE n
    BY <1>2, <1>4, <1>5, <1>6 DEF Rounds
<1>8. {t \in users : Gathered(t)} = {}
    BY <1>6
<1>9. IsFiniteSet(users)
    BY <1>3, FS_EmptySet
<1>10. Round(users, n)
    BY <1>1, <1>3, <1>6, <1>7, <1>8, <1>9, FS_EmptySet DEF Round
<1> QED BY <1>10

-----------------------------------------------------------------------------
(* The table                                                               *)

\* Who is left of one's right neighbour, and the other way round.
LEMMA Sides ==
    ASSUME NEW i \in Philosopher
    PROVE  /\ Left(i) \in Philosopher /\ Right(i) \in Philosopher
           /\ Left(i) # i /\ Right(i) # i
           /\ Left(Right(i)) = i /\ Right(Left(i)) = i
<1>1. N \in Nat /\ N >= 2 /\ i \in 0..(N - 1)
    BY MonitorAssumption DEF Philosopher
<1>2. \A j \in 0..(N - 1) : Right(j) = IF j = N - 1 THEN 0 ELSE j + 1
    <2>1. ASSUME NEW j \in 0..(N - 1) PROVE Right(j) = IF j = N - 1 THEN 0 ELSE j + 1
        <3>1. (j + 1) % N = IF j = N - 1 THEN 0 ELSE j + 1
            BY <1>1
        <3> QED BY <3>1 DEF Right
    <2> QED BY <2>1
<1>3. \A j \in 0..(N - 1) : Left(j) = IF j = 0 THEN N - 1 ELSE j - 1
    <2>1. ASSUME NEW j \in 0..(N - 1) PROVE Left(j) = IF j = 0 THEN N - 1 ELSE j - 1
        <3>1. (j + N - 1) % N = IF j = 0 THEN N - 1 ELSE j - 1
            BY <1>1
        <3> QED BY <3>1 DEF Left
    <2> QED BY <2>1
<1>4. Right(i) \in 0..(N - 1) /\ Right(i) # i /\ Left(Right(i)) = i
    BY <1>1, <1>2, <1>3
<1>5. Left(i) \in 0..(N - 1) /\ Left(i) # i /\ Right(Left(i)) = i
    BY <1>1, <1>2, <1>3
<1> QED BY <1>4, <1>5 DEF Philosopher

\* What remains of a program behind its first call.
LEMMA Behind ==
    ASSUME NEW s \in Seq(Call), s # <<>>, NEW i \in Philosopher
    PROVE  /\ Uses(Tail(s), i) => Uses(s, i)
           /\ Head(s) \in {Pickup(i), Putdown(i)} => Uses(s, i)
           /\ Owes(s, i) => Uses(s, i)
           /\ Owes(Tail(s), i) /\ Head(s) # Pickup(i) => Owes(s, i)
           /\ Head(s) = Pickup(i) => ~Owes(s, i)
           /\ Head(s) = Putdown(i) => Owes(s, i)
<1>1. PICK n \in Nat : n = Len(s) /\ n > 0
    BY EmptySeq
<1>2. /\ DOMAIN s = 1..n /\ Head(s) = s[1] /\ 1 \in 1..n
      /\ DOMAIN Tail(s) = 1..(n - 1) /\ \A k \in 1..(n - 1) : Tail(s)[k] = s[k + 1]
    BY <1>1, HeadTailProperties
<1>3. \A k \in 1..(n - 1) : k + 1 \in 1..n
    BY <1>1
<1>4. Uses(Tail(s), i) => Uses(s, i)
    BY <1>2, <1>3 DEF Uses
<1>5. Head(s) \in {Pickup(i), Putdown(i)} => Uses(s, i)
    BY <1>2 DEF Uses
<1>6. Owes(s, i) => Uses(s, i)
    BY <1>2 DEF Uses, Owes
<1>7. ASSUME Owes(Tail(s), i), Head(s) # Pickup(i)
      PROVE  Owes(s, i)
    <2>1. PICK m \in 1..(n - 1) :
            s[m + 1] = Putdown(i) /\ \A k \in 1..(m - 1) : Tail(s)[k] # Pickup(i)
        BY <1>2, <1>7 DEF Owes
    <2>2. ASSUME NEW k \in 1..m PROVE s[k] # Pickup(i)
        <3>1. CASE k = 1
            BY <1>2, <1>7, <3>1
        <3>2. CASE k # 1
            <4>1. k - 1 \in 1..(m - 1) /\ k - 1 \in 1..(n - 1) /\ (k - 1) + 1 = k
                BY <3>2
            <4> QED BY <1>2, <2>1, <4>1
        <3> QED BY <3>1, <3>2
    <2>3. m + 1 \in 1..n /\ (m + 1) - 1 = m
        BY <1>1
    <2> QED BY <1>2, <2>1, <2>2, <2>3 DEF Owes
<1>8. Head(s) = Pickup(i) => ~Owes(s, i)
    <2> SUFFICES ASSUME Head(s) = Pickup(i), Owes(s, i) PROVE FALSE
        OBVIOUS
    <2>1. PICK m \in 1..n : s[m] = Putdown(i) /\ \A k \in 1..(m - 1) : s[k] # Pickup(i)
        BY <1>2 DEF Owes
    <2>2. m # 1
        BY <1>2, <2>1 DEF Pickup, Putdown
    <2>3. 1 \in 1..(m - 1)
        BY <2>2
    <2> QED BY <1>2, <2>1, <2>3
<1>9. Head(s) = Putdown(i) => Owes(s, i)
    <2>1. \A k \in 1..(1 - 1) : FALSE
        OBVIOUS
    <2> QED BY <1>2, <2>1 DEF Owes
<1> QED BY <1>4, <1>5, <1>6, <1>7, <1>8, <1>9

LEMMA OneDownOf ==
    ASSUME NEW s \in Seq(Call), s # <<>>, NEW i \in Philosopher, OneDown(s, i)
    PROVE  OneDown(Tail(s), i) /\ (Head(s) = Putdown(i) => ~Owes(Tail(s), i))
<1>1. PICK n \in Nat : n = Len(s) /\ n > 0
    BY EmptySeq
<1>2. /\ DOMAIN s = 1..n /\ Head(s) = s[1] /\ 1 \in 1..n
      /\ DOMAIN Tail(s) = 1..(n - 1) /\ \A k \in 1..(n - 1) : Tail(s)[k] = s[k + 1]
    BY <1>1, HeadTailProperties
<1>3. ASSUME NEW k \in 1..(n - 1), NEW m \in 1..(n - 1), k < m,
             Tail(s)[k] = Putdown(i), Tail(s)[m] = Putdown(i)
      PROVE  \E j \in k..m : Tail(s)[j] = Pickup(i)
    <2>1. k + 1 \in 1..n /\ m + 1 \in 1..n /\ k + 1 < m + 1
          /\ s[k + 1] = Putdown(i) /\ s[m + 1] = Putdown(i)
        BY <1>1, <1>2, <1>3
    <2>2. PICK j \in (k + 1)..(m + 1) : s[j] = Pickup(i)
        BY <1>2, <2>1 DEF OneDown
    <2>3. j - 1 \in k..m /\ j - 1 \in 1..(n - 1) /\ (j - 1) + 1 = j
        BY <1>1
    <2>4. Tail(s)[j - 1] = Pickup(i)
        BY <1>2, <2>2, <2>3
    <2> QED BY <2>3, <2>4
<1>4. ASSUME Head(s) = Putdown(i), Owes(Tail(s), i)
      PROVE  FALSE
    <2>1. PICK m \in 1..(n - 1) :
            Tail(s)[m] = Putdown(i) /\ \A k \in 1..(m - 1) : Tail(s)[k] # Pickup(i)
        BY <1>2, <1>4 DEF Owes
    <2>2. m + 1 \in 1..n /\ 1 < m + 1 /\ s[1] = Putdown(i) /\ s[m + 1] = Putdown(i)
        BY <1>1, <1>2, <1>4, <2>1
    <2>3. PICK j \in 1..(m + 1) : s[j] = Pickup(i)
        BY <1>2, <2>2 DEF OneDown
    <2>4. j # 1 /\ j # m + 1
        BY <2>2, <2>3 DEF Pickup, Putdown
    <2>5. j - 1 \in 1..(m - 1) /\ j - 1 \in 1..(n - 1) /\ (j - 1) + 1 = j
        BY <2>4
    <2>6. Tail(s)[j - 1] = Pickup(i)
        BY <1>2, <2>3, <2>5
    <2> QED BY <2>1, <2>5, <2>6
<1> QED BY <1>2, <1>3, <1>4 DEF OneDown

LEMMA StepSeats ==
    ASSUME Inv, Seats, [Next]_vars
    PROVE  Seats'
<1>1. ASSUME NEW t \in Thread, Step(t) PROVE Seats'
    <2>1. Frame(t) /\ ControlOK
        BY <1>1, StepFrame, TypeParts DEF Inv
    <2>2. \A u \in Thread : todo'[u] = todo[u] \/ (todo[u] # <<>> /\ todo'[u] = Tail(todo[u]))
        BY <2>1 DEF Frame
    <2>3. ASSUME NEW u \in Thread, NEW i \in Philosopher
          PROVE  (Uses(todo'[u], i) => Uses(todo[u], i)) /\ OneDown(todo'[u], i)
        <3>1. OneDown(todo[u], i)
            BY DEF Seats
        <3>2. PICK s \in Seq(Call) : s = todo[u]
            BY <2>1 DEF ControlOK
        <3>3. CASE todo'[u] = todo[u]
            BY <3>1, <3>3
        <3>4. CASE s # <<>> /\ todo'[u] = Tail(s)
            BY <3>1, <3>2, <3>4, Behind, OneDownOf
        <3> QED BY <2>2, <3>2, <3>3, <3>4
    <2> QED BY <2>3 DEF Seats
<1>2. CASE Scheduling \/ DiskInterrupt \/ UNCHANGED vars
    BY <1>2, OtherFrame DEF Seats
<1> QED BY <1>1, <1>2 DEF Next

\* The philosopher of a call.
LEMMA WhoDines ==
    ASSUME ControlOK, NEW t \in Thread, InCall(t, {"pickup", "putdown"})
    PROVE  /\ Arg(t) \in Philosopher
           /\ Head(todo[t]).kind = "pickup" => Head(todo[t]) = Pickup(Arg(t))
           /\ Head(todo[t]).kind = "putdown" => Head(todo[t]) = Putdown(Arg(t))
<1>1. Head(todo[t]) \in Call
    BY DEF ControlOK, InCall
<1>2. \A c \in Call : /\ c.kind = "pickup" => c = Pickup(c.arg)
                      /\ c.kind = "putdown" => c = Putdown(c.arg)
    BY DEF Call, Fork_, Pickup, Putdown, Meet, Put, Get, ReadSector, Down, Up, YieldCall
<1> QED BY <1>1, <1>2, Arguments DEF Arg, InCall

LEMMA CallNames ==
    /\ \A i, j : Pickup(i) # Putdown(j)
    /\ \A i, j : Pickup(i) = Pickup(j) => i = j
    /\ \A i, j : Putdown(i) = Putdown(j) => i = j
BY DEF Pickup, Putdown

\* Nobody else is the philosopher.
LEMMA OthersDoNot ==
    ASSUME ControlOK, Seats, NEW t \in Thread, InCall(t, {"pickup", "putdown"}),
           NEW i \in Philosopher, i = Arg(t),
           NEW u \in Thread, u # t, todo'[u] = todo[u]
    PROVE  EatsAs(u, i)'
<1>1. Head(todo[t]) \in {Pickup(i), Putdown(i)}
    BY WhoDines DEF InCall
<1>2. todo[t] \in Seq(Call) /\ todo[u] \in Seq(Call) /\ todo[t] # <<>>
    BY DEF ControlOK, InCall
<1>3. Uses(todo[t], i)
    BY <1>1, <1>2, Behind
<1>4. ~Uses(todo[u], i)
    BY <1>3 DEF Seats
<1>5. ~Owes(todo[u], i) /\ ~(todo[u] # <<>> /\ Head(todo[u]) = Pickup(i))
    <2>1. CASE todo[u] = <<>>
        BY <2>1 DEF Owes
    <2>2. CASE todo[u] # <<>>
        BY <1>2, <1>4, <2>2, Behind
    <2> QED BY <2>1, <2>2
<1> QED BY <1>5 DEF EatsAs

\* What happens to other philosophers.
LEMMA EatsStays ==
    ASSUME NEW u \in Thread, NEW i \in Philosopher, EatsAs(u, i),
           todo'[u] = todo[u], pc'[u] = pc[u],
           state'[i] = state[i] \/ state'[i] = "Eating",
           state'[i] = "Eating" \/ queue'[Self(i)] = queue[Self(i)]
    PROVE  EatsAs(u, i)'
BY DEF EatsAs, Waiting

\* Who owes a putdown of another philosopher than that of its call has it eating.
LEMMA OwesEats ==
    ASSUME Eats, NEW t \in Thread, NEW i \in Philosopher, Owes(todo[t], i),
           Head(todo[t]) # Putdown(i) \/ pc[t] \notin {"left", "right", "leave"}
    PROVE  state[i] = "Eating"
BY DEF Eats, EatsAs

\* What a test does (DiningPh::test).
LEMMA TestDoes ==
    ASSUME KernelOK, ObjectsOK, NEW k \in Philosopher, test(k)
    PROVE  /\ \A j \in Philosopher :
                /\ state'[j] = state[j] \/ state'[j] = "Eating"
                /\ state'[j] = "Eating" \/ queue'[Self(j)] = queue[Self(j)]
           /\ NeighboursApart => NeighboursApart'
<1>1. CASE MayEat(k)
    <2>1. state' = [state EXCEPT ![k] = "Eating"] /\ Signal(Self(k))
        BY <1>1 DEF test
    <2>2. state'[k] = "Eating" /\ \A j \in Philosopher \ {k} : state'[j] = state[j]
        BY <2>1 DEF ObjectsOK
    <2>3. \E l : l \in Lock
        BY DEF Lock
    <2>4. \E t : t \in Thread
        BY ThreadAssumption
    <2>5. LinesStay(Self(k))
        BY <2>1, <2>3, <2>4, ConditionNames, ConditionFrame
    <2>6. \A j \in Philosopher \ {k} : queue'[Self(j)] = queue[Self(j)]
        BY <2>5, ConditionNames DEF LinesStay
    <2>7. ASSUME NeighboursApart, NEW j \in Philosopher, state'[j] = "Eating"
          PROVE  "Eating" \notin {state'[Left(j)], state'[Right(j)]}
        <3>1. /\ Left(j) \in Philosopher /\ Right(j) \in Philosopher
              /\ Left(j) # j /\ Right(j) # j /\ Left(Right(j)) = j /\ Right(Left(j)) = j
            BY Sides
        <3>2. CASE j = k
            BY <1>1, <2>2, <3>1, <3>2 DEF MayEat
        <3>3. CASE j # k
            <4>1. state[j] = "Eating"
                BY <2>2, <2>7, <3>3
            <4>2. Left(j) # k
                BY <1>1, <3>1, <4>1 DEF MayEat
            <4>3. Right(j) # k
                BY <1>1, <3>1, <4>1 DEF MayEat
            <4> QED BY <2>2, <2>7, <3>1, <4>1, <4>2, <4>3 DEF NeighboursApart
        <3> QED BY <3>2, <3>3
    <2> QED BY <2>2, <2>6, <2>7 DEF NeighboursApart
<1>2. CASE ~MayEat(k)
    BY <1>2 DEF test, kernel, synch, NeighboursApart
<1> QED BY <1>1, <1>2

\* Entering and leaving the table's monitor.
LEMMA TableMonitor ==
    ASSUME Inv, Sleepers, Seats, Eats, NEW t \in Thread, InCall(t, {"pickup", "putdown"}),
           Acquire(t) \/ Leave(t)
    PROVE  Eats' /\ state' = state
<1>1. /\ ControlOK /\ KernelOK /\ Frame(t) /\ state' = state
      /\ \A i \in Philosopher : queue'[Self(i)] = queue[Self(i)]
    BY MonitorFrame, ConditionNames, TypeParts DEF objects, Inv
<1>2. PICK i \in Philosopher : i = Arg(t)
    BY <1>1, WhoDines
<1>3. todo[t] # <<>> /\ Head(todo[t]) \in {Pickup(i), Putdown(i)} /\ todo[t] \in Seq(Call)
    BY <1>1, <1>2, WhoDines DEF InCall, ControlOK
<1>4. ASSUME NEW u \in Thread, NEW j \in Philosopher, u # t PROVE EatsAs(u, j)'
    BY <1>1, <1>4, EatsStays DEF Frame, Eats
<1>5. ASSUME NEW j \in Philosopher PROVE EatsAs(t, j)'
    <2>1. CASE Acquire(t)
        <3>1. todo' = todo /\ pc[t] \in Outside
              /\ (pc' = pc \/ pc'[t] = "body" \/ (pc[t] = "again" /\ pc'[t] = "leave"))
            BY <2>1, AcquireGoes DEF Entered, Outside
        <3>2. Owes(todo[t], j) => state[j] = "Eating"
            BY <3>1, OwesEats DEF Outside
        <3>3. ~Waiting(t, Self(j))
            <4>1. status[t] = "RUNNING" /\ Self(j) \in Line
                BY <2>1, Lines, ConditionNames DEF Acquire, Calls, Runs
            <4>2. ~InList(t, readyList, queue)
                BY <1>1, <4>1, RunnerFree
            <4> QED BY <4>1, <4>2 DEF InList, Waiting
        <3>4. Head(todo[t]) = Pickup(j) /\ pc[t] = "again" => state[j] = "Eating"
            BY <1>3, <3>3 DEF Eats, EatsAs
        <3>5. pc'[t] \in {"test", "check", "again", "leave"} => pc[t] = "again"
            BY <3>1 DEF Outside
        <3>6. pc'[t] \notin {"test", "check"}
            BY <3>1 DEF Outside
        <3> QED BY <1>1, <3>1, <3>2, <3>4, <3>5, <3>6 DEF EatsAs
    <2>2. CASE Leave(t)
        <3>1. pc'[t] = "call" /\ todo'[t] = Tail(todo[t]) /\ pc[t] = "leave"
            BY <1>1, <2>2, ReturnFrame DEF Leave, At
        <3>2. CASE Head(todo[t]) = Pickup(j)
            BY <1>1, <1>3, <3>1, <3>2 DEF Eats, EatsAs
        <3>3. CASE Head(todo[t]) = Putdown(j)
            <4>1. ~Owes(Tail(todo[t]), j)
                BY <1>3, <3>3, OneDownOf DEF Seats
            <4> QED BY <3>1, <4>1 DEF EatsAs
        <3>4. CASE Head(todo[t]) # Pickup(j) /\ Head(todo[t]) # Putdown(j)
            <4>1. Owes(Tail(todo[t]), j) => state[j] = "Eating"
                BY <1>3, <3>4, Behind, OwesEats
            <4> QED BY <1>1, <3>1, <4>1 DEF EatsAs
        <3> QED BY <3>2, <3>3, <3>4
    <2> QED BY <2>1, <2>2
<1> QED BY <1>1, <1>4, <1>5 DEF Eats

\* Looking at oneself and at one's neighbours.
LEMMA TableTests ==
    ASSUME Inv, Seats, Eats, NEW t \in Thread, TestSelf(t) \/ TestLeft(t) \/ TestRight(t)
    PROVE  Eats' /\ (NeighboursApart => NeighboursApart')
<1>1. ControlOK /\ KernelOK /\ ObjectsOK /\ Frame(t)
    BY BodyFrame, TypeParts DEF Inv
<1>2. InCall(t, {"pickup", "putdown"})
    BY DEF TestSelf, TestLeft, TestRight, At, Calls, InCall
<1>3. PICK i \in Philosopher : i = Arg(t)
    BY <1>1, <1>2, WhoDines
<1>4. todo[t] # <<>> /\ todo[t] \in Seq(Call) /\ todo'[t] = todo[t]
    BY <1>1 DEF TestSelf, TestLeft, TestRight, At, Calls, ControlOK, DiningUnchanged
<1>5. PICK k \in Philosopher : test(k)
    BY <1>3, Neighbours DEF TestSelf, TestLeft, TestRight
<1>6. /\ \A j \in Philosopher :
           /\ state'[j] = state[j] \/ state'[j] = "Eating"
           /\ state'[j] = "Eating" \/ queue'[Self(j)] = queue[Self(j)]
      /\ NeighboursApart => NeighboursApart'
    BY <1>1, <1>5, TestDoes
<1>7. ASSUME NEW u \in Thread, NEW j \in Philosopher, u # t PROVE EatsAs(u, j)'
    BY <1>1, <1>6, <1>7, EatsStays DEF Frame, Eats
<1>8. ASSUME NEW j \in Philosopher PROVE EatsAs(t, j)'
    <2>1. CASE TestSelf(t)
        <3>1. pc[t] = "test" /\ pc'[t] = "check" /\ Head(todo[t]) = Pickup(i)
            BY <1>1, <1>2, <1>3, <2>1, WhoDines DEF TestSelf, At, Calls, Goto, ControlOK
        <3>2. Head(todo[t]) # Putdown(j)
            BY <3>1, CallNames
        <3>3. Owes(todo[t], j) => state'[j] = "Eating"
            BY <1>6, <3>2, OwesEats
        <3>4. Head(todo[t]) = Pickup(j) => state'[j] # "Thinking"
            BY <1>4, <1>6, <3>1 DEF Eats, EatsAs
        <3> QED BY <1>4, <3>1, <3>3, <3>4 DEF EatsAs
    <2>2. CASE TestLeft(t) \/ TestRight(t)
        <3>1. pc[t] \in {"left", "right"} /\ pc'[t] \in {"right", "leave"} /\ Head(todo[t]) = Putdown(i)
            BY <1>1, <1>2, <1>3, <2>2, WhoDines DEF TestLeft, TestRight, At, Calls, Goto, ControlOK
        <3>2. Head(todo[t]) # Pickup(j)
            BY <3>1, CallNames
        <3>3. Owes(todo[t], j) => state'[j] = "Eating" \/ Head(todo[t]) = Putdown(j)
            BY <1>6, OwesEats
        <3> QED BY <1>4, <3>1, <3>2, <3>3 DEF EatsAs
    <2> QED BY <2>1, <2>2
<1> QED BY <1>6, <1>7, <1>8 DEF Eats

\* Saying that one is hungry, or thinks again.
LEMMA TableAnnounces ==
    ASSUME Inv, Seats, Eats, NEW t \in Thread, Announce(t)
    PROVE  Eats' /\ (NeighboursApart => NeighboursApart')
<1>1. ControlOK /\ KernelOK /\ ObjectsOK /\ Frame(t) /\ queue' = queue
    BY BodyFrame, TypeParts DEF Inv, Announce, kernel, synch
<1>2. InCall(t, {"pickup", "putdown"})
    BY DEF Announce, At, Calls, InCall
<1>3. PICK i \in Philosopher : i = Arg(t)
    BY <1>1, <1>2, WhoDines
<1>4. todo[t] # <<>> /\ todo[t] \in Seq(Call) /\ todo'[t] = todo[t] /\ pc[t] = "body"
    BY <1>1 DEF Announce, At, Calls, ControlOK, DiningUnchanged
<1>5. state'[i] # "Eating" /\ \A j \in Philosopher \ {i} : state'[j] = state[j]
    BY <1>1, <1>3 DEF Announce, ObjectsOK
<1>6. NeighboursApart => NeighboursApart'
    <2> SUFFICES ASSUME NeighboursApart, NEW j \in Philosopher, state'[j] = "Eating"
                 PROVE  "Eating" \notin {state'[Left(j)], state'[Right(j)]}
        BY DEF NeighboursApart
    <2>1. \A k \in Philosopher : state'[k] = "Eating" => state[k] = "Eating"
        BY <1>5
    <2> QED BY <2>1, Sides DEF NeighboursApart
<1>7. ASSUME NEW u \in Thread, NEW j \in Philosopher, u # t PROVE EatsAs(u, j)'
    <2>1. todo'[u] = todo[u] /\ pc'[u] = pc[u]
        BY <1>1, <1>7 DEF Frame
    <2>2. CASE j = i
        BY <1>1, <1>2, <1>3, <1>7, <2>1, <2>2, OthersDoNot
    <2>3. CASE j # i
        BY <1>1, <1>5, <2>1, <2>3, EatsStays DEF Eats
    <2> QED BY <2>2, <2>3
<1>8. ASSUME NEW j \in Philosopher PROVE EatsAs(t, j)'
    <2>1. Owes(todo[t], j) => state[j] = "Eating"
        BY <1>4, OwesEats
    <2>2. CASE Head(todo[t]).kind = "pickup"
        <3>1. pc'[t] = "test" /\ state'[i] = "Hungry" /\ Head(todo[t]) = Pickup(i)
            BY <1>1, <1>2, <1>3, <2>2, WhoDines DEF Announce, Goto, ControlOK, ObjectsOK
        <3>2. Owes(todo[t], j) => j # i
            BY <1>4, <3>1, Behind
        <3>3. Head(todo[t]) = Pickup(j) => j = i
            BY <3>1, CallNames
        <3> QED BY <1>4, <1>5, <2>1, <3>1, <3>2, <3>3 DEF EatsAs
    <2>3. CASE Head(todo[t]).kind = "putdown"
        <3>1. pc'[t] = "left" /\ Head(todo[t]) = Putdown(i)
            BY <1>1, <1>2, <1>3, <2>3, WhoDines DEF Announce, Goto, ControlOK, ObjectsOK
        <3>2. Head(todo[t]) # Pickup(j)
            BY <3>1, CallNames
        <3> QED BY <1>4, <1>5, <2>1, <3>1, <3>2 DEF EatsAs
    <2> QED BY <1>2, <2>2, <2>3 DEF InCall
<1> QED BY <1>6, <1>7, <1>8 DEF Eats

\* The hungry one waits.
LEMMA TableWaits ==
    ASSUME Inv, Seats, Eats, NEW t \in Thread, CheckHungry(t)
    PROVE  Eats' /\ state' = state
<1>1. ControlOK /\ KernelOK /\ ObjectsOK /\ Frame(t) /\ state' = state
    BY BodyFrame, TypeParts DEF Inv, CheckHungry
<1>2. InCall(t, {"pickup", "putdown"})
    BY DEF CheckHungry, At, Calls, InCall
<1>3. PICK i \in Philosopher : i = Arg(t)
    BY <1>1, <1>2, WhoDines
<1>4. todo[t] # <<>> /\ todo[t] \in Seq(Call) /\ todo'[t] = todo[t] /\ pc[t] = "check"
      /\ Head(todo[t]) = Pickup(i)
    BY <1>1, <1>2, <1>3, WhoDines DEF CheckHungry, At, Calls, ControlOK, DiningUnchanged
<1>5. \A j \in Philosopher \ {i} : queue'[Self(j)] = queue[Self(j)]
    <2>1. CASE UNCHANGED kernel
        BY <2>1 DEF kernel, synch
    <2>2. CASE Wait(t, Self(i), DpLock)
        <3>1. LinesStay(Self(i))
            BY <1>1, <2>2, ConditionNames, ConditionFrame DEF Lock
        <3> QED BY <3>1, ConditionNames DEF LinesStay
    <2> QED BY <1>3, <2>1, <2>2 DEF CheckHungry
<1>6. ASSUME NEW u \in Thread, NEW j \in Philosopher, u # t PROVE EatsAs(u, j)'
    <2>1. todo'[u] = todo[u] /\ pc'[u] = pc[u]
        BY <1>1, <1>6 DEF Frame
    <2>2. CASE j = i
        BY <1>1, <1>2, <1>3, <1>6, <2>1, <2>2, OthersDoNot
    <2>3. CASE j # i
        BY <1>1, <1>5, <2>1, <2>3, EatsStays DEF Eats
    <2> QED BY <2>2, <2>3
<1>7. ASSUME NEW j \in Philosopher PROVE EatsAs(t, j)'
    <2>1. Owes(todo[t], j) => state[j] = "Eating"
        BY <1>4, OwesEats
    <2>2. Head(todo[t]) = Pickup(j) => j = i
        BY <1>4, CallNames
    <2>3. CASE state[i] = "Hungry"
        <3>1. Wait(t, Self(i), DpLock) /\ Goto(t, "again")
            BY <1>3, <2>3 DEF CheckHungry
        <3>2. Waiting(t, Self(i))'
            <4>1. queue'[Self(i)] = Append(queue[Self(i)], t)
                <5>1. Self(i) \in Line /\ DpLock \in Line /\ DpLock # Self(i)
                    BY Lines, ConditionNames, ConditionsAreNoLocks DEF Lock
                <5> QED BY <1>1, <3>1, <5>1, QueuesTyped DEF Wait
            <4>2. PICK q \in Seq(Thread) : q = queue[Self(i)]
                BY <1>1, QueuesTyped, Lines, ConditionNames
            <4>3. ToSet(queue'[Self(i)]) = ToSet(q) \cup {t}
                BY <4>1, <4>2, AppendedSet
            <4> QED BY <4>3 DEF Waiting
        <3>3. pc'[t] = "again"
            BY <1>1, <3>1 DEF Goto, ControlOK
        <3> QED BY <1>1, <1>4, <2>1, <2>2, <3>2, <3>3 DEF EatsAs
    <2>4. CASE state[i] # "Hungry"
        <3>1. pc'[t] = "leave"
            BY <1>1, <1>3, <2>4 DEF CheckHungry, Goto, ControlOK
        <3>2. state[i] # "Thinking"
            BY <1>4 DEF Eats, EatsAs
        <3>3. state[i] = "Eating"
            BY <1>1, <2>4, <3>2 DEF ObjectsOK
        <3> QED BY <1>1, <1>4, <2>1, <2>2, <3>1, <3>3 DEF EatsAs
    <2> QED BY <2>3, <2>4
<1> QED BY <1>1, <1>6, <1>7 DEF Eats

LEMMA StepTable ==
    ASSUME Inv, Sleepers, Seats, NeighboursApart, Eats, [Next]_vars
    PROVE  NeighboursApart' /\ Eats'
<1>1. ASSUME NEW t \in Thread, Step(t) PROVE NeighboursApart' /\ Eats'
    <2>1. Frame(t) /\ ControlOK
        BY <1>1, StepFrame, TypeParts DEF Inv
    <2>2. CASE ~InCall(t, {"pickup", "putdown"})
        <3>1. state' = state /\ \A i \in Philosopher : queue'[Self(i)] = queue[Self(i)]
            BY <2>1, <2>2 DEF Frame
        <3>2. ASSUME NEW u \in Thread, NEW j \in Philosopher, u # t PROVE EatsAs(u, j)'
            BY <2>1, <3>1, <3>2, EatsStays DEF Frame, Eats
        <3>3. ASSUME NEW j \in Philosopher PROVE EatsAs(t, j)'
            <4>1. todo[t] \in Seq(Call)
                BY <2>1 DEF ControlOK
            <4>2. todo[t] # <<>> => Head(todo[t]) # Pickup(j) /\ Head(todo[t]) # Putdown(j)
                BY <2>2 DEF InCall, Pickup, Putdown
            <4>3. CASE todo'[t] = todo[t]
                <5>1. Owes(todo[t], j) => todo[t] # <<>>
                    BY DEF Owes
                <5>2. Owes(todo[t], j) => state[j] = "Eating"
                    BY <4>2, <5>1, OwesEats
                <5> QED BY <3>1, <4>2, <4>3, <5>2 DEF EatsAs
            <4>4. CASE todo[t] # <<>> /\ todo'[t] = Tail(todo[t]) /\ pc'[t] = "call"
                <5>1. Owes(Tail(todo[t]), j) => state[j] = "Eating"
                    BY <4>1, <4>2, <4>4, Behind, OwesEats
                <5> QED BY <3>1, <4>4, <5>1 DEF EatsAs
            <4> QED BY <2>1, <4>3, <4>4 DEF Frame
        <3>4. NeighboursApart'
            BY <3>1 DEF NeighboursApart
        <3> QED BY <3>2, <3>3, <3>4 DEF Eats
    <2>3. CASE InCall(t, {"pickup", "putdown"})
        <3>1. state' = state => NeighboursApart'
            BY DEF NeighboursApart
        <3> QED BY <1>1, <2>3, <3>1, Kinds, TableMonitor, TableTests, TableAnnounces, TableWaits
    <2> QED BY <2>2, <2>3
<1>2. CASE Scheduling \/ DiskInterrupt \/ UNCHANGED vars
    <2>1. UNCHANGED <<todo, pc, state>> /\ \A i \in Philosopher : queue'[Self(i)] = queue[Self(i)]
        BY <1>2, OtherFrame, ConditionNames
    <2> QED BY <2>1, EatsStays DEF Eats, NeighboursApart
<1> QED BY <1>1, <1>2 DEF Next

\* Who has picked up eats (DiningPh::pickup), and its neighbours do not.
LEMMA TableKept ==
    ASSUME Inv, Places, NeighboursApart, Eats
    PROVE  PickedUpEats
<1> SUFFICES ASSUME NEW t \in Thread, todo[t] # <<>>, Head(todo[t]).kind = "putdown",
                    pc[t] \in Outside \/ pc[t] = "body"
             PROVE  /\ state[Arg(t)] = "Eating"
                    /\ "Eating" \notin {state[Left(Arg(t))], state[Right(Arg(t))]}
    BY DEF PickedUpEats, Places, Inside
<1>1. ControlOK /\ InCall(t, {"pickup", "putdown"})
    BY TypeParts DEF Inv, InCall
<1>2. PICK i \in Philosopher : i = Arg(t) /\ Head(todo[t]) = Putdown(i)
    BY <1>1, WhoDines
<1>3. Owes(todo[t], i)
    BY <1>1, <1>2, Behind DEF ControlOK
<1>4. state[i] = "Eating"
    BY <1>3, OwesEats DEF Outside
<1> QED BY <1>2, <1>4 DEF NeighboursApart

\* At the start everybody thinks, and no program owes a putdown.
LEMMA InitTable ==
    ASSUME Init, Inv
    PROVE  Seats /\ NeighboursApart /\ Eats
<1>1. ControlOK /\ todo \in Programs /\ pc = [t \in Thread |-> "call"]
      /\ state = [i \in Philosopher |-> "Thinking"]
    BY TypeParts DEF Init, Inv
<1>2. ASSUME NEW i \in Philosopher
      PROVE  /\ \A t \in Thread : Alternates(todo[t], i)
             /\ \A t, u \in Thread : Uses(todo[t], i) /\ Uses(todo[u], i) => t = u
    BY <1>1, TableAssumption
<1>3. ASSUME NEW t \in Thread, NEW i \in Philosopher
      PROVE  OneDown(todo[t], i) /\ ~Owes(todo[t], i)
    <2>1. PICK s \in Seq(Call) : s = todo[t]
        BY <1>1 DEF ControlOK
    <2>2. PICK n \in Nat : n = Len(s) /\ DOMAIN s = 1..n
        OBVIOUS
    <2>3. ASSUME NEW m \in 1..n, s[m] = Putdown(i)
          PROVE  \E j \in 1..(m - 1) : s[j] = Pickup(i) /\ \A k \in j..(m - 1) : s[k] # Putdown(i)
        BY <1>2, <2>1, <2>2, <2>3 DEF Alternates
    <2>4. ASSUME NEW k \in 1..n, NEW m \in 1..n, k < m, s[k] = Putdown(i), s[m] = Putdown(i)
          PROVE  \E j \in k..m : s[j] = Pickup(i)
        <3>1. PICK j \in 1..(m - 1) : s[j] = Pickup(i) /\ \A l \in j..(m - 1) : s[l] # Putdown(i)
            BY <2>3, <2>4
        <3>2. k \notin j..(m - 1)
            BY <2>4, <3>1
        <3>3. j \in k..m
            BY <2>4, <3>2
        <3> QED BY <3>1, <3>3
    <2>5. ASSUME Owes(s, i) PROVE FALSE
        <3>1. PICK m \in 1..n : s[m] = Putdown(i) /\ \A k \in 1..(m - 1) : s[k] # Pickup(i)
            BY <2>2, <2>5 DEF Owes
        <3> QED BY <2>3, <3>1
    <2> QED BY <2>1, <2>2, <2>4, <2>5 DEF OneDown
<1>4. Seats
    BY <1>2, <1>3 DEF Seats
<1>5. NeighboursApart
    BY <1>1 DEF NeighboursApart
<1>6. Eats
    BY <1>1, <1>3 DEF Eats, EatsAs
<1> QED BY <1>4, <1>5, <1>6

LEMMA InitSleepers == Init => Sleepers
<1> SUFFICES ASSUME Init PROVE Sleepers
    OBVIOUS
<1>1. readyList = <<>> /\ (\A q \in Line : queue[q] = <<>>) /\ Dead = {}
      /\ threadToBeDestroyed = NoThread
    BY DEF Init, SchedulerInit, Line, Dead
<1> QED BY <1>1, NoneOf DEF Sleepers, Listed

LEMMA InitPromises == Init => PromiseInv
<1> SUFFICES ASSUME Init PROVE PromiseInv
    OBVIOUS
<1>1. Inv
    BY Initially
<1>2. pc = [t \in Thread |-> "call"] /\ active = FALSE /\ value[DiskSemaphore] = 0
    BY Names DEF Init
<1>3. Places /\ TakeFindsItem
    BY <1>2 DEF Places, TakeFindsItem, Inside
<1>4. DiskState
    BY <1>2 DEF DiskState
<1> QED BY <1>1, <1>3, <1>4, InitSleepers, InitTable, InitRound DEF PromiseInv

LEMMA PromisesPreserved == PromiseInv /\ [Next]_vars => PromiseInv'
<1> SUFFICES ASSUME PromiseInv, [Next]_vars PROVE PromiseInv'
    OBVIOUS
<1>1. Inv /\ Places /\ Sleepers /\ TakeFindsItem /\ DiskState /\ Seats /\ NeighboursApart /\ Eats
    BY DEF PromiseInv
<1>2. PICK users \in SUBSET Thread, n \in Nat : Round(users, n)
    BY DEF PromiseInv
<1>3. PICK m \in Nat : Round(users, m)'
    BY <1>1, <1>2, StepRound
<1>4. Inv'
    BY <1>1, Preserved
<1>5. Places' /\ Sleepers' /\ TakeFindsItem' /\ DiskState'
    BY <1>1, StepPlaces, StepSleeps, StepTake, StepDisk
<1>6. Seats' /\ NeighboursApart' /\ Eats'
    BY <1>1, StepSeats, StepTable
<1>7. \E us \in SUBSET Thread, k \in Nat : Round(us, k)'
    BY <1>2, <1>3
<1> QED BY <1>4, <1>5, <1>6, <1>7 DEF PromiseInv

\* A philosopher that has picked up eats while its neighbours do not, nobody leaves a
\* barrier before all have come, Remove finds an item and the disk is free for a
\* request, for any number of threads and of rounds (diningph.cc, synch.cc,
\* synchlist.h, synchdisk.cc).
THEOREM PromisesKept == Spec => []MonitorPromises
<1>1. PromiseInv => MonitorPromises
    <2> SUFFICES ASSUME PromiseInv PROVE MonitorPromises
        OBVIOUS
    <2>1. PICK users \in SUBSET Thread, n \in Nat : Round(users, n)
        BY DEF PromiseInv
    <2>2. BarrierTogether
        BY <2>1, RoundTogether
    <2>3. PickedUpEats
        BY TableKept DEF PromiseInv
    <2>4. TakeFindsItem /\ DiskIsFree
        BY RequestsFree DEF PromiseInv
    <2> QED BY <2>2, <2>3, <2>4 DEF MonitorPromises
<1> QED BY <1>1, InitPromises, PromisesPreserved, PTL DEF Spec

=============================================================================
