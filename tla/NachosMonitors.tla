--------------------------- MODULE NachosMonitors ---------------------------
(***************************************************************************)
(* What NachOS builds on its thread system: the monitor of the dining      *)
(* philosophers (diningph.cc), Barrier (synch.cc), SynchList (synchlist.h) *)
(* and SynchDisk (synchdisk.cc), used by threads that each run a program,  *)
(* a list of calls.  The thread Main forks the others, as ThreadTest does. *)
(*                                                                         *)
(* Each of the four is a lock around a body, whose steps a yield or an     *)
(* interrupt may separate.                                                 *)
(***************************************************************************)
EXTENDS NachosThreads

CONSTANTS
    N,              \* the number of philosophers, 5 in the code
    BarrierCount,   \* the threads a barrier waits for
    UserSemaphore,  \* semaphores that programs use, with their
    Initial(_),     \* initial values
    Programs        \* the programs the threads may run: Thread -> Seq(Call)

Philosopher == 0..(N - 1)

\* The calls a program is made of.
Fork_(t) == [kind |-> "fork", arg |-> t]
Pickup(i) == [kind |-> "pickup", arg |-> i]
Putdown(i) == [kind |-> "putdown", arg |-> i]
Meet == [kind |-> "meet", arg |-> 0]            \* Barrier::Wait
Put == [kind |-> "put", arg |-> 0]              \* SynchList::Append
Get == [kind |-> "get", arg |-> 0]              \* SynchList::Remove
ReadSector == [kind |-> "read", arg |-> 0]
Down(s) == [kind |-> "P", arg |-> s]            \* P, Mutex::Lock
Up(s) == [kind |-> "V", arg |-> s]              \* V, Mutex::Unlock
YieldCall == [kind |-> "yield", arg |-> 0]

Monitor == {"pickup", "putdown", "meet", "put", "get", "read"}
Call ==
    {Fork_(t) : t \in Thread} \cup {Meet, Put, Get, ReadSector, YieldCall}
        \cup {Pickup(i) : i \in Philosopher} \cup {Putdown(i) : i \in Philosopher}
        \cup {Down(s) : s \in UserSemaphore} \cup {Up(s) : s \in UserSemaphore}

DpLock == <<"lock", "dp">>
BarrierLock == <<"lock", "barrier">>
ListLock == <<"lock", "list">>
DiskLock == <<"lock", "disk">>
Lock == {DpLock, BarrierLock, ListLock, DiskLock}
DiskSemaphore == <<"semaphore", "disk">>
Self(i) == <<"self", i>>
BarrierCondition == <<"condition", "barrier">>
ListEmpty == <<"condition", "list">>
Condition == {Self(i) : i \in Philosopher} \cup {BarrierCondition, ListEmpty}
Semaphore == Lock \cup {DiskSemaphore} \cup UserSemaphore

\* The lock of a call, and the condition its body may wait for.
LockOf(call) ==
    CASE call.kind \in {"pickup", "putdown"} -> DpLock
      [] call.kind = "meet" -> BarrierLock
      [] call.kind \in {"put", "get"} -> ListLock
      [] OTHER -> DiskLock

ASSUME MonitorAssumption ==
    /\ N \in Nat \ {0, 1} /\ BarrierCount \in Nat \ {0}
    /\ UserSemaphore \cap (Lock \cup {DiskSemaphore} \cup Condition) = {}
    /\ \A s \in UserSemaphore : Initial(s) \in Nat
    /\ Programs \subseteq [Thread -> Seq(Call)]

\* A philosopher is one thread, which puts down once what it has picked up
\* (the loop of Philo in threadtest.cc).
Uses(calls, i) == \E k \in DOMAIN calls : calls[k] \in {Pickup(i), Putdown(i)}
Alternates(calls, i) ==
    \A m \in DOMAIN calls : calls[m] = Putdown(i) =>
        \E j \in 1..(m - 1) :
            calls[j] = Pickup(i) /\ \A k \in j..(m - 1) : calls[k] # Putdown(i)

ASSUME TableAssumption ==
    \A p \in Programs, i \in Philosopher :
        /\ \A t \in Thread : Alternates(p[t], i)
        /\ \A t, u \in Thread : Uses(p[t], i) /\ Uses(p[u], i) => t = u

\* As many threads use a barrier as it waits for, all of them equally often.
Meetings(calls) == Cardinality({k \in DOMAIN calls : calls[k] = Meet})

ASSUME BarrierAssumption ==
    \A p \in Programs :
        LET users == {t \in Thread : Meetings(p[t]) > 0}
        IN  users # {} =>
              /\ IsFiniteSet(users) /\ Cardinality(users) = BarrierCount
              /\ \A t, u \in users : Meetings(p[t]) = Meetings(p[u])

VARIABLES
    todo,           \* the calls a thread has still to make or is in
    pc,             \* where it is in the first of them
    state,          \* DiningPh::state
    currentCount,   \* Barrier::currentCount
    list,           \* SynchList::list: who appended the items
    active          \* Disk::active: a request is with the disk

objects == <<state, currentCount, list, active>>
vars == <<kernel, todo, pc, objects>>

Inside == {"body", "test", "left", "right", "check", "compare", "reset", "signal",
           "take", "transfer", "leave"}
Outside == {"call", "again"}

TypeOK ==
    /\ currentThread \in Thread
    /\ readyList \in Seq(Thread)
    /\ status \in [Thread -> Status]
    /\ level \in [Thread -> {"on", "off", "root"}]
    /\ yieldOnReturn \in BOOLEAN /\ halted \in BOOLEAN
    /\ threadToBeDestroyed \in Thread \cup {NoThread}
    /\ value \in [Semaphore -> Nat]
    /\ queue \in [Semaphore \cup Condition -> Seq(Thread)]
    /\ owner \in [Lock -> Thread \cup {NoThread}]
    /\ todo \in [Thread -> Seq(Call)]
    /\ pc \in [Thread -> Inside \cup Outside \cup {"done"}]
    /\ state \in [Philosopher -> {"Thinking", "Hungry", "Eating"}]
    /\ currentCount \in Nat
    /\ list \in Seq(Thread)
    /\ active \in BOOLEAN

BarrierInit == currentCount = 0

Init ==
    /\ todo \in Programs
    /\ ThreadInit /\ SchedulerInit
    /\ yieldOnReturn = FALSE /\ halted = FALSE
    /\ value = [s \in Semaphore |->
          IF s \in Lock THEN 1 ELSE IF s = DiskSemaphore THEN 0 ELSE Initial(s)]
    /\ queue = [q \in Semaphore \cup Condition |-> <<>>]
    /\ owner = [l \in Lock |-> NoThread]
    /\ pc = [t \in Thread |-> "call"]
    /\ state = [i \in Philosopher |-> "Thinking"]
    /\ BarrierInit /\ list = <<>> /\ active = FALSE

-----------------------------------------------------------------------------
(* Entering and leaving a monitor                                          *)

Calls(t, kinds) == Runs(t) /\ todo[t] # <<>> /\ Head(todo[t]).kind \in kinds
At(t, where, kinds) == Calls(t, kinds) /\ pc[t] = where
Goto(t, where) == pc' = [pc EXCEPT ![t] = where]
Returns(t) == todo' = [todo EXCEPT ![t] = Tail(@)] /\ Goto(t, "call")
Arg(t) == Head(todo[t]).arg

\* Mutant: Remove takes it that the list is not empty any more.
EnteredOnce(t) ==
    IF pc[t] = "call" THEN "body"
    ELSE IF Head(todo[t]).kind = "get" THEN "take" ELSE "leave"

\* Behind Acquire: the body, or what follows the Wait.  Remove looks at the list again.
Entered(t) == IF pc[t] = "call" \/ Head(todo[t]).kind = "get" THEN "body" ELSE "leave"

Acquire(t) ==
    /\ Calls(t, Monitor) /\ pc[t] \in Outside
    /\ LET l == LockOf(Head(todo[t]))
       IN  \/ AcquireWaits(t, l) /\ UNCHANGED pc
           \/ AcquireTakes(t, l) /\ Goto(t, Entered(t))
    /\ UNCHANGED <<todo, objects>>

Leave(t) ==
    /\ At(t, "leave", Monitor)
    /\ Release(LockOf(Head(todo[t])))
    /\ Returns(t)
    /\ UNCHANGED objects

-----------------------------------------------------------------------------
(* DiningPh                                                                *)

Left(i) == (i + N - 1) % N
Right(i) == (i + 1) % N

MayEat(i) == state[Left(i)] # "Eating" /\ state[i] = "Hungry" /\ state[Right(i)] # "Eating"

\* Mutant: one neighbour is not looked at.
test_OneSided(i) ==
    IF state[Left(i)] # "Eating" /\ state[i] = "Hungry"
    THEN state' = [state EXCEPT ![i] = "Eating"] /\ Signal(Self(i))
    ELSE UNCHANGED <<state, kernel>>
test(i) ==
    IF MayEat(i)
    THEN state' = [state EXCEPT ![i] = "Eating"] /\ Signal(Self(i))
    ELSE UNCHANGED <<state, kernel>>

DiningUnchanged == UNCHANGED <<todo, currentCount, list, active>>

\* state[who] = Hungry; state[who] = Thinking
Announce(t) ==
    /\ At(t, "body", {"pickup", "putdown"})
    /\ IF Head(todo[t]).kind = "pickup"
       THEN state' = [state EXCEPT ![Arg(t)] = "Hungry"] /\ Goto(t, "test")
       ELSE state' = [state EXCEPT ![Arg(t)] = "Thinking"] /\ Goto(t, "left")
    /\ DiningUnchanged /\ UNCHANGED kernel

TestSelf(t) ==
    /\ At(t, "test", {"pickup"})
    /\ test(Arg(t)) /\ Goto(t, "check") /\ DiningUnchanged

CheckHungry(t) ==
    /\ At(t, "check", {"pickup"})
    /\ IF state[Arg(t)] = "Hungry"
       THEN Wait(t, Self(Arg(t)), DpLock) /\ Goto(t, "again")
       ELSE Goto(t, "leave") /\ UNCHANGED kernel
    /\ DiningUnchanged /\ UNCHANGED state

TestLeft(t) ==
    /\ At(t, "left", {"putdown"})
    /\ test(Left(Arg(t))) /\ Goto(t, "right") /\ DiningUnchanged

TestRight(t) ==
    /\ At(t, "right", {"putdown"})
    /\ test(Right(Arg(t))) /\ Goto(t, "leave") /\ DiningUnchanged

-----------------------------------------------------------------------------
(* Barrier::Wait                                                           *)

BarrierUnchanged == UNCHANGED <<todo, state, list, active>>

Arrive(t) ==
    /\ At(t, "body", {"meet"})
    /\ currentCount' = currentCount + 1
    /\ Goto(t, "compare") /\ BarrierUnchanged /\ UNCHANGED kernel

Compare(t) ==
    /\ At(t, "compare", {"meet"})
    /\ IF currentCount = BarrierCount
       THEN Broadcast(BarrierCondition) /\ Goto(t, "reset")
       ELSE Wait(t, BarrierCondition, BarrierLock) /\ Goto(t, "again")
    /\ BarrierUnchanged /\ UNCHANGED currentCount

Reset(t) ==
    /\ At(t, "reset", {"meet"})
    /\ currentCount' = 0
    /\ Goto(t, "leave") /\ BarrierUnchanged /\ UNCHANGED kernel

-----------------------------------------------------------------------------
(* SynchList                                                               *)

ListUnchanged == UNCHANGED <<todo, state, currentCount, active>>

AppendItem(t) ==
    /\ At(t, "body", {"put"})
    /\ list' = Append(list, t)
    /\ Goto(t, "signal") /\ ListUnchanged /\ UNCHANGED kernel

SignalItem(t) ==
    /\ At(t, "signal", {"put"})
    /\ Signal(ListEmpty)
    /\ Goto(t, "leave") /\ ListUnchanged /\ UNCHANGED list

CheckItem(t) ==
    /\ At(t, "body", {"get"})
    /\ IF list = <<>>
       THEN Wait(t, ListEmpty, ListLock) /\ Goto(t, "again")
       ELSE Goto(t, "take") /\ UNCHANGED kernel
    /\ ListUnchanged /\ UNCHANGED list

\* List::Remove returns nothing from an empty list.
TakeItem(t) ==
    /\ At(t, "take", {"get"})
    /\ list' = Rest(list)
    /\ Goto(t, "leave") /\ ListUnchanged /\ UNCHANGED kernel

-----------------------------------------------------------------------------
(* SynchDisk and the interrupt of the disk                                 *)

DiskUnchanged == UNCHANGED <<todo, state, currentCount, list>>

Request(t) ==
    /\ At(t, "body", {"read"})
    /\ active' = TRUE
    /\ Goto(t, "transfer") /\ DiskUnchanged /\ UNCHANGED kernel

\* Mutant: the lock is left before the data has arrived.
Transfer_NoWait(t) ==
    /\ At(t, "transfer", {"read"})
    /\ Goto(t, "leave") /\ DiskUnchanged /\ UNCHANGED <<active, kernel>>

Transfer(t) ==
    /\ At(t, "transfer", {"read"})
    /\ \/ PWaits(t, DiskSemaphore) /\ UNCHANGED pc
       \/ PTakes(t, DiskSemaphore) /\ Goto(t, "leave") /\ UNCHANGED owner
    /\ DiskUnchanged /\ UNCHANGED active

\* HandleInterrupt, RequestDone: an idle processor forgets a pending yield.
DiskInterrupt ==
    /\ active /\ Interruptible
    /\ active' = FALSE
    /\ V(DiskSemaphore)
    /\ yieldOnReturn' = (yieldOnReturn /\ status[currentThread] = "RUNNING")
    /\ DiskUnchanged
    /\ UNCHANGED <<currentThread, level, threadToBeDestroyed, halted, owner, pc>>

-----------------------------------------------------------------------------
(* Calls that are not monitors                                             *)

UserP(t) ==
    /\ At(t, "call", {"P"})
    /\ \/ PWaits(t, Arg(t)) /\ UNCHANGED <<todo, pc>>
       \/ PTakes(t, Arg(t)) /\ Returns(t) /\ UNCHANGED owner
    /\ UNCHANGED objects

UserV(t) ==
    /\ At(t, "call", {"V"})
    /\ V(Arg(t))
    /\ Returns(t)
    /\ UNCHANGED <<currentThread, level, machine, owner, objects>>

CallFork(t) ==
    /\ At(t, "call", {"fork"})
    /\ Fork(Arg(t))
    /\ Returns(t) /\ UNCHANGED objects

CallYield(t) ==
    /\ At(t, "call", {"yield"})
    /\ Yield(t)
    /\ Returns(t) /\ UNCHANGED <<yieldOnReturn, halted, synch, objects>>

CallFinish(t) ==
    /\ Runs(t) /\ todo[t] = <<>> /\ pc[t] = "call"
    /\ Finish(t)
    /\ Goto(t, "done") /\ UNCHANGED <<todo, objects>>

Step(t) ==
    \/ Acquire(t) \/ Leave(t)
    \/ Announce(t) \/ TestSelf(t) \/ CheckHungry(t) \/ TestLeft(t) \/ TestRight(t)
    \/ Arrive(t) \/ Compare(t) \/ Reset(t)
    \/ AppendItem(t) \/ SignalItem(t) \/ CheckItem(t) \/ TakeItem(t)
    \/ Request(t) \/ Transfer(t)
    \/ UserP(t) \/ UserV(t) \/ CallFork(t) \/ CallYield(t) \/ CallFinish(t)

Scheduling ==
    /\ Dispatch \/ TimerInterruptHandler \/ ContextSwitch \/ YieldOnReturn \/ Idle(active)
    /\ UNCHANGED <<todo, pc, objects>>

Next == (\E t \in Thread : Step(t)) \/ Scheduling \/ DiskInterrupt

Spec == Init /\ [][Next]_vars

\* A thread that gets the processor again and again executes its steps: the time
\* slice is longer than one of them.  Everything but the timer goes on by itself.
FairSpec ==
    /\ Spec
    /\ \A t \in Thread : SF_vars(Step(t))
    /\ WF_vars((Dispatch \/ YieldOnReturn \/ Idle(active)) /\ UNCHANGED <<todo, pc, objects>>)
    /\ WF_vars(DiskInterrupt)

-----------------------------------------------------------------------------
(* Safety                                                                  *)

\* A thread in the body of a monitor is the owner of its lock, so there is one at most
\* (Lock::Acquire, Lock::Release and the assertions on isHeldByCurrentThread).
InsideOwns ==
    \A t \in Thread : pc[t] \in Inside =>
        /\ todo[t] # <<>> /\ Head(todo[t]).kind \in Monitor
        /\ owner[LockOf(Head(todo[t]))] = t

\* A lock is free exactly when its semaphore can be taken (Lock).
LockIsBinary == \A l \in Lock : value[l] = IF owner[l] = NoThread THEN 1 ELSE 0

\* One thread at a time in a monitor.
MutualExclusion == InsideOwns /\ LockIsBinary

\* A philosopher whose pickup has returned eats, and its neighbours do not
\* (DiningPh::pickup waits only once).
PickedUpEats ==
    \A t \in Thread :
        (/\ todo[t] # <<>> /\ Head(todo[t]).kind = "putdown"
         /\ pc[t] \in Outside \/ pc[t] = "body") =>
            /\ state[Arg(t)] = "Eating"
            /\ "Eating" \notin {state[Left(Arg(t))], state[Right(Arg(t))]}

\* Who has left a barrier is at most one round ahead of anybody who uses it: nobody
\* leaves before all have come (Barrier::Wait).
Rounds(t) == Meetings(todo[t])
BarrierTogether ==
    \A t, u \in Thread : Rounds(t) > 0 /\ Rounds(u) > 0 => Rounds(t) <= Rounds(u) + 1

\* Remove never takes from an empty list (SynchList::Remove, whose assertion is
\* commented out).
TakeFindsItem == \A t \in Thread : pc[t] = "take" => list # <<>>

\* No request reaches a disk that is busy (the assertion of Disk::ReadRequest).
DiskIsFree ==
    \A t \in Thread : pc[t] = "body" /\ Head(todo[t]).kind = "read" => ~active

\* What the callers of the four monitors rely on, whatever the interleaving.
MonitorPromises == PickedUpEats /\ BarrierTogether /\ TakeFindsItem /\ DiskIsFree

-----------------------------------------------------------------------------
(* Liveness                                                                *)

\* Every thread finishes: no wake-up is lost, whatever the yields.
AllFinish == <>(\A t \in Thread : pc[t] = "done")
=============================================================================
