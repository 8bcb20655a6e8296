------------------------ MODULE NachosKernelProofs ------------------------
(***************************************************************************)
(* Two parts of the NachOS kernel: what the user threads share, for any    *)
(* number of threads, handles and semaphores and any programs, and the     *)
(* file system, for a disk of any size and any files, threads and          *)
(* programs; one thread creates and removes files.                         *)
(*                                                                         *)
(* The user threads.  The open-file table stays in step with the host      *)
(* because both hand out the least free number: TableInv says that the     *)
(* handles in use are the descriptors in use, as far as the table goes.    *)
(* Console is held once because whoever gives it back has it, and whoever  *)
(* a Read refused never gives it back: HeldInv.  No wake-up is lost        *)
(* because a thread is in one queue only, once, and waits there for that   *)
(* semaphore: QueueInv.  Stacks are apart because Find hands out pages     *)
(* that are not in use, and all that the spaces have are in use until a    *)
(* thread exits: PageInv.                                                  *)
(*                                                                         *)
(* The file system.  Between operations headers, directory and map fit     *)
(* together: Settled.  Create and Remove pass through the stages of        *)
(* Change, from LookingUp to Creating or Removing; each sector that is     *)
(* fetched or stored leads from one to the next; the other threads store   *)
(* data only: OthersHarmless.  Where the machine stops with a map that     *)
(* still covers the directory, the disk is settled again: a directory of   *)
(* which one sector is new either is the old or the new one, or names a    *)
(* header that the map does not have.                                      *)
(***************************************************************************)
EXTENDS NachosProcess, NachosFiles, FiniteSetTheorems, SequenceTheorems,
        WellFoundedInduction, TLAPS

-----------------------------------------------------------------------------
(* The user threads                                                        *)

\* A set of numbers has a least one.
LEMMA LeastIs ==
    ASSUME NEW S, S \subseteq Nat, S # {}
    PROVE  Least(S) \in S /\ \A y \in S : Least(S) <= y
<1>1. PICK x \in S : \A y \in S : ~ (<<y, x>> \in OpToRel(<, Nat))
    BY NatLessThanWellFounded, WFMin
<1>2. \A y \in S : ~ (y < x)
    BY <1>1 DEF OpToRel
<1>3. \A y \in S : x <= y
    BY <1>2
<1> QED BY <1>3 DEF Least

\* The descriptor of the host is the least number that is not in use.
LEMMA DescriptorIs ==
    ASSUME NEW D, D = DOMAIN unix, D \subseteq Nat, IsFiniteSet(D)
    PROVE  NewDescriptor \in Nat \ D /\ \A d \in Nat \ D : NewDescriptor <= d
<1> DEFINE n == Cardinality(D)
           Free == (0..n) \ D
<1>1. n \in Nat
    BY FS_CardinalityType
<1>2. Free # {}
    <2> SUFFICES ASSUME 0..n \subseteq D PROVE FALSE
        OBVIOUS
    <2>1. Cardinality(0..n) = n + 1
        BY <1>1, FS_Interval
    <2>2. Cardinality(0..n) <= n
        BY FS_Subset
    <2> QED BY <1>1, <2>1, <2>2
<1>3. NewDescriptor = Least(Free)
    BY DEF NewDescriptor
<1>4. Free \subseteq Nat
    BY <1>1
<1> HIDE DEF Free
<1>5. NewDescriptor \in Free /\ \A y \in Free : NewDescriptor <= y
    BY <1>2, <1>3, <1>4, LeastIs
<1> USE DEF Free
<1>6. NewDescriptor \in 0..n /\ NewDescriptor \notin D
    BY <1>5
<1> QED BY <1>1, <1>5, <1>6

-----------------------------------------------------------------------------
(* The open-file table and the descriptors of the host                     *)

TableInv ==
    /\ openMap \subseteq Handle
    /\ openFiles \in [Handle -> Nat \cup {-1}]
    /\ DOMAIN unix \subseteq Nat /\ IsFiniteSet(DOMAIN unix)
    /\ openMap = DOMAIN unix \cap Handle
    /\ \A h \in openMap : openFiles[h] = h

LEMMA HandlesAreNumbers == Handle \subseteq Nat /\ -1 \notin Handle
BY ProcessAssumption DEF Handle

\* Open and Socket: both numberings take the least free number (NachosOpenFilesTable::Open).
LEMMA HostOpenKeeps ==
    ASSUME TableInv, NEW kind, HostOpen(kind)
    PROVE  TableInv'
<1> DEFINE d == NewDescriptor
           D == DOMAIN unix
<1>1. d \in Nat \ D /\ \A e \in Nat \ D : d <= e
    BY DescriptorIs DEF TableInv
<1>2. DOMAIN unix' = D \cup {d} /\ TableOpen(d)
    BY DEF HostOpen
<1> HIDE DEF d
<1>3. DOMAIN unix' \subseteq Nat /\ IsFiniteSet(DOMAIN unix')
    BY <1>1, <1>2, FS_AddElement DEF TableInv
<1>4. CASE Handle \ openMap = {}
    <2>1. UNCHANGED <<openMap, openFiles>>
        BY <1>2, <1>4 DEF TableOpen
    <2>2. d \notin Handle
        BY <1>1, <1>4 DEF TableInv
    <2> QED BY <1>2, <1>3, <2>1, <2>2 DEF TableInv
<1>5. CASE Handle \ openMap # {}
    <2> DEFINE h == Least(Handle \ openMap)
    <2>1. h \in Handle \ openMap /\ \A y \in Handle \ openMap : h <= y
        BY <1>5, LeastIs, HandlesAreNumbers
    <2>2. openMap' = openMap \cup {h} /\ openFiles' = [openFiles EXCEPT ![h] = d]
        BY <1>2, <1>5 DEF TableOpen
    <2> HIDE DEF h
    <2>3. h \in Nat \ D
        BY <2>1, HandlesAreNumbers DEF TableInv
    <2>4. d <= h
        BY <1>1, <2>3
    <2>5. d \in Handle
        BY <1>1, <2>1, <2>4, ProcessAssumption DEF Handle
    <2>6. d \in Handle \ openMap
        BY <1>1, <2>5 DEF TableInv
    <2>7. d = h
        BY <1>1, <2>1, <2>3, <2>4, <2>6
    <2> QED BY <1>1, <1>2, <1>3, <2>1, <2>2, <2>5, <2>7 DEF TableInv
<1> QED BY <1>4, <1>5

\* Close clears the entry that has the number of the descriptor, which is the handle's
\* (NachosOpenFilesTable::Close).
LEMMA HostCloseKeeps ==
    ASSUME TableInv, NEW h \in Handle, IsOpened(h), HostClose(h)
    PROVE  TableInv'
<1>1. h \in openMap /\ openFiles[h] = h
    BY DEF IsOpened, TableInv
<1>2. /\ DOMAIN unix' = DOMAIN unix \ {h} /\ openMap' = openMap \ {h}
      /\ openFiles' = [openFiles EXCEPT ![h] = -1]
    BY <1>1 DEF HostClose, TableClose
<1>3. IsFiniteSet(DOMAIN unix')
    BY <1>2, FS_RemoveElement DEF TableInv
<1> QED BY <1>1, <1>2, <1>3 DEF TableInv

LEMMA TableStays == TableInv /\ UNCHANGED files => TableInv'
BY DEF TableInv, files

LEMMA TablePreserved == TableInv /\ [Next]_vars => TableInv'
<1> SUFFICES ASSUME TableInv, [Next]_vars PROVE TableInv'
    OBVIOUS
<1>1. ASSUME NEW t \in Thread, ThreadStep(t) PROVE TableInv'
    <2>1. CASE Open(t)
        BY <2>1, HostOpenKeeps DEF Open
    <2>2. CASE Socket(t)
        BY <2>2, HostOpenKeeps DEF Socket
    <2>3. CASE Close(t)
        <3>1. PICK c \in NextCalls(t) :
                  /\ InTable(c.arg)
                  /\ IF IsOpened(c.arg) THEN HostClose(c.arg) ELSE UNCHANGED files
            BY <2>3 DEF Close
        <3> QED BY <3>1, HostCloseKeeps, TableStays DEF InTable
    <2>4. CASE Connect(t)
        <3>1. UNCHANGED <<openMap, openFiles>> /\ DOMAIN unix' = DOMAIN unix
            BY <2>4 DEF Connect
        <3> QED BY <3>1 DEF TableInv
    <2>5. CASE \/ Start(t) \/ Exit(t) \/ Enter(t) \/ Halt(t) \/ CallForever(t)
               \/ SemCreate(t) \/ SemDestroy(t) \/ SemSignal(t) \/ SemRefused(t)
               \/ \E s \in Semaphore : PWaits(t, s) \/ PTakes(t, s)
        BY <2>5, TableStays DEF Start, Exit, Enter, Halt, CallForever, SemCreate, SemDestroy,
            SemSignal, SemRefused, PWaits, PTakes
    <2>6. CASE \/ Read(t) \/ ReadRefused(t) \/ CallAgain(t) \/ Write(t)
               \/ Fork(t) \/ ForkReturns(t)
               \/ ReadsFreed(t) \/ FailedAssert(t)
        BY <2>6, TableStays DEF Read, ReadRefused, CallAgain, Write, Fork, ForkReturns,
            ReadsFreed, FailedAssert, Abort
    <2> QED BY <1>1, <2>1, <2>2, <2>3, <2>4, <2>5, <2>6 DEF ThreadStep
<1>2. CASE UNCHANGED vars
    BY <1>2, TableStays DEF vars
<1> QED BY <1>1, <1>2 DEF Next

LEMMA TableInitially == Init => TableInv
<1> SUFFICES ASSUME Init PROVE TableInv
    OBVIOUS
<1>1. Standard \subseteq Handle
    BY ProcessAssumption DEF Standard, Handle
<1>2. Standard \subseteq Nat /\ IsFiniteSet(Standard)
    <2> DEFINE n == 2
    <2>1. n \in Nat /\ Standard = 0..n
        BY DEF Standard
    <2> HIDE DEF n
    <2>2. IsFiniteSet(Standard)
        BY <2>1, FS_Interval
    <2>3. Standard \subseteq Nat
        BY <2>1
    <2> QED BY <2>2, <2>3
<1>3. openMap = Standard /\ DOMAIN unix = Standard
    BY DEF Init
<1>4. openFiles \in [Handle -> Nat \cup {-1}] /\ \A h \in Standard : openFiles[h] = h
    BY <1>1, <1>2 DEF Init
<1> QED BY <1>1, <1>2, <1>3, <1>4 DEF TableInv

\* A handle is the number of the descriptor behind it, for any programs and any order
\* of Open, Socket, Connect and Close (userprog/nachostabla.cc).
THEOREM HandlesAlways == Spec => []HandlesInStep
<1>1. TableInv => HandlesInStep
    BY HandlesAreNumbers DEF TableInv, HandlesInStep, IsOpened
<1> QED BY <1>1, TableInitially, TablePreserved, PTL DEF Spec

-----------------------------------------------------------------------------
(* Console and the semaphores of the programs                              *)

Place == {"unborn", "born", "user", "P", "asleep", "inside", "forked", "again",
          "lost", "loop", "orphan", "freed", "done"}
Waiting == {"P", "asleep"}
Holding == {"inside", "forked", "again", "lost"}

TypesInv ==
    /\ todo \in [Thread -> Seq(SUBSET Call)]
    /\ pc \in [Thread -> Place]
    /\ call \in [Thread -> Call \cup {NoCall}]
    /\ value \in [Semaphore -> Nat]
    /\ queue \in [Semaphore -> Seq(Thread)]
    /\ semTable \subseteq SemId

Holders == {t \in Thread : pc[t] \in Holding}

HeldInv ==
    /\ \A t \in Thread : pc[t] \in Holding => call[t].op \in ConsoleCall
    /\ \/ value[Console] = 1 /\ Holders = {}
       \/ value[Console] = 0 /\ \E h \in Thread : Holders = {h}

QueueInv ==
    /\ \A s \in Semaphore : \A i \in DOMAIN queue[s] :
          pc[queue[s][i]] = "asleep" /\ At(queue[s][i], s)
    /\ \A s \in Semaphore : \A i, j \in DOMAIN queue[s] :
          queue[s][i] = queue[s][j] => i = j
    /\ \A s \in SemId \ semTable : queue[s] = <<>>
    /\ \A t \in Thread :
          pc[t] \in Waiting /\ call[t].op = "semwait" => call[t].arg \in semTable

\* The threads that were woken or have not looked yet.
Looking(s) == {t \in Thread : pc[t] = "P" /\ At(t, s)}

WakeInv ==
    \A s \in Semaphore : queue[s] # <<>> => value[s] <= Cardinality(Looking(s))

SynchInv == TypesInv /\ HeldInv /\ QueueInv /\ WakeInv

LEMMA Names ==
    /\ Console \in Semaphore /\ SemId \subseteq Semaphore
    /\ Console \notin SemId /\ SemId \subseteq Nat
    /\ \A s \in Semaphore : s # Console => s \in SemId
BY ProcessAssumption DEF Console, Semaphore, SemId

\* A thread is at one semaphore at most.
LEMMA AtOne ==
    ASSUME TypesInv, NEW t \in Thread, NEW s, NEW r, At(t, s), At(t, r)
    PROVE  s = r
BY DEF At, ConsoleCall

LEMMA AtOnePrimed ==
    ASSUME NEW t \in Thread, NEW s, NEW r, At(t, s)', At(t, r)'
    PROVE  s = r
BY DEF At, ConsoleCall

LEMMA LookingFinite ==
    ASSUME NEW s
    PROVE  /\ IsFiniteSet(Looking(s)) /\ Cardinality(Looking(s)) \in Nat
           /\ IsFiniteSet(Looking(s)') /\ Cardinality(Looking(s)') \in Nat
<1>1. IsFiniteSet(Thread)
    BY ProcessAssumption
<1>2. Looking(s) \subseteq Thread /\ Looking(s)' \subseteq Thread
    BY DEF Looking
<1> QED BY <1>1, <1>2, FS_Subset, FS_CardinalityType

\* The call a thread makes is one of its program.
LEMMA MakesTyped ==
    ASSUME TypesInv, NEW t \in Thread, NEW c, c \in NextCalls(t), Makes(t, c)
    PROVE  /\ c \in Call /\ pc[t] = "user"
           /\ todo' \in [Thread -> Seq(SUBSET Call)]
           /\ call' \in [Thread -> Call \cup {NoCall}] /\ call'[t] = c
           /\ \A u \in Thread \ {t} : call'[u] = call[u]
<1>1. todo[t] \in Seq(SUBSET Call) /\ todo[t] # <<>> /\ c \in Head(todo[t])
    BY DEF NextCalls, TypesInv
<1>2. Head(todo[t]) \in SUBSET Call /\ Tail(todo[t]) \in Seq(SUBSET Call)
    BY <1>1
<1>3. c \in Call
    BY <1>1, <1>2
<1> HIDE DEF Call
<1> QED BY <1>1, <1>2, <1>3 DEF Makes, TypesInv

\* A step that leaves the semaphores alone, and whose threads neither come to one nor
\* leave one.
LEMMA QuietStep ==
    ASSUME SynchInv, TypesInv',
           UNCHANGED <<value, queue, semTable>>,
           \A u \in Thread :
               \/ pc'[u] = pc[u] /\ call'[u] = call[u]
               \/ /\ pc[u] \notin Waiting /\ pc'[u] \notin Waiting
                  /\ pc'[u] \in Holding <=> pc[u] \in Holding
                  /\ pc'[u] \in Holding => call'[u] = call[u]
    PROVE  SynchInv'
<1>1. HeldInv'
    <2>1. Holders' = Holders
        BY DEF Holders
    <2> QED BY <2>1 DEF SynchInv, HeldInv, TypesInv, Waiting
<1>2. \A s : Looking(s)' = Looking(s)
    <2> TAKE s
    <2>1. ASSUME NEW u \in Thread
          PROVE  (pc[u] = "P" /\ At(u, s))' <=> (pc[u] = "P" /\ At(u, s))
        BY DEF At, Waiting
    <2> QED BY <2>1 DEF Looking
<1>3. QueueInv'
    <2>1. ASSUME NEW s \in Semaphore, NEW i \in DOMAIN queue[s]
          PROVE  (pc[queue[s][i]] = "asleep" /\ At(queue[s][i], s))'
        <3>1. queue[s][i] \in Thread
            BY DEF SynchInv, TypesInv
        <3>2. pc[queue[s][i]] = "asleep" /\ At(queue[s][i], s)
            BY DEF SynchInv, QueueInv
        <3> QED BY <3>1, <3>2 DEF At, Waiting
    <2> QED BY <2>1 DEF SynchInv, QueueInv
<1>4. WakeInv'
    BY <1>2 DEF SynchInv, WakeInv
<1> QED BY <1>1, <1>3, <1>4 DEF SynchInv

\* Enter: the thread comes to a semaphore that exists.
LEMMA EnterStep ==
    ASSUME SynchInv, NEW t \in Thread, Enter(t)
    PROVE  SynchInv'
<1>1. PICK c \in NextCalls(t) :
          /\ Makes(t, c)
          /\ c.op \in ConsoleCall \/ (c.op = "semwait" /\ c.arg \in semTable)
          /\ pc' = [pc EXCEPT ![t] = "P"]
          /\ UNCHANGED <<value, queue, semTable>>
    BY DEF Enter, synch
<1>2. /\ c \in Call /\ pc[t] = "user"
      /\ todo' \in [Thread -> Seq(SUBSET Call)]
      /\ call' \in [Thread -> Call \cup {NoCall}] /\ call'[t] = c
      /\ \A u \in Thread \ {t} : call'[u] = call[u]
    BY <1>1, MakesTyped DEF SynchInv
<1>3. /\ pc \in [Thread -> Place] /\ pc' \in [Thread -> Place] /\ pc'[t] = "P"
      /\ \A u \in Thread \ {t} : pc'[u] = pc[u]
    BY <1>1 DEF SynchInv, TypesInv, Place
<1>4. TypesInv'
    BY <1>1, <1>2, <1>3 DEF SynchInv, TypesInv
<1>5. HeldInv'
    <2>1. Holders' = Holders
        BY <1>1, <1>2, <1>3 DEF Holders, Holding
    <2> QED BY <1>1, <1>2, <1>3, <2>1 DEF SynchInv, HeldInv, TypesInv, Holding
<1>6. QueueInv'
    <2>1. ASSUME NEW s \in Semaphore, NEW i \in DOMAIN queue[s]
          PROVE  (pc[queue[s][i]] = "asleep" /\ At(queue[s][i], s))'
        <3>1. queue[s][i] \in Thread
            BY DEF SynchInv, TypesInv
        <3>2. pc[queue[s][i]] = "asleep" /\ At(queue[s][i], s)
            BY DEF SynchInv, QueueInv
        <3> QED BY <1>1, <1>2, <1>3, <3>1, <3>2 DEF At
    <2>2. ASSUME NEW u \in Thread, pc'[u] \in Waiting, call'[u].op = "semwait"
          PROVE  call'[u].arg \in semTable
        BY <1>1, <1>2, <1>3, <2>2 DEF SynchInv, QueueInv, ConsoleCall
    <2> QED BY <1>1, <2>1, <2>2 DEF SynchInv, QueueInv
<1>7. WakeInv'
    <2> SUFFICES ASSUME NEW s \in Semaphore, queue[s] # <<>>
                 PROVE  value[s] <= Cardinality(Looking(s)')
        BY <1>1 DEF WakeInv
    <2>1. Looking(s) \subseteq Looking(s)'
        BY <1>2, <1>3 DEF Looking, At
    <2>2. Cardinality(Looking(s)) <= Cardinality(Looking(s)')
        BY <2>1, LookingFinite, FS_Subset
    <2>3. value[s] <= Cardinality(Looking(s)) /\ value[s] \in Nat
        BY DEF SynchInv, WakeInv, TypesInv
    <2> QED BY <2>2, <2>3, LookingFinite
<1> QED BY <1>4, <1>5, <1>6, <1>7 DEF SynchInv

\* P by a thread that finds the value 0.
LEMMA WaitsStep ==
    ASSUME SynchInv, NEW t \in Thread, NEW s \in Semaphore, PWaits(t, s)
    PROVE  SynchInv'
<1>1. /\ pc[t] = "P" /\ At(t, s) /\ value[s] = 0
      /\ queue' = [queue EXCEPT ![s] = Append(@, t)] /\ pc' = [pc EXCEPT ![t] = "asleep"]
      /\ UNCHANGED <<todo, call, value, semTable>>
    BY DEF PWaits
<1>2. /\ pc \in [Thread -> Place] /\ pc' \in [Thread -> Place] /\ pc'[t] = "asleep"
      /\ \A u \in Thread \ {t} : pc'[u] = pc[u]
    BY <1>1 DEF SynchInv, TypesInv, Place
<1>3. /\ queue \in [Semaphore -> Seq(Thread)] /\ queue' \in [Semaphore -> Seq(Thread)]
      /\ queue'[s] = Append(queue[s], t)
      /\ \A r \in Semaphore \ {s} : queue'[r] = queue[r]
    BY <1>1 DEF SynchInv, TypesInv
<1>4. TypesInv'
    BY <1>1, <1>2, <1>3 DEF SynchInv, TypesInv
<1>5. HeldInv'
    <2>1. Holders' = Holders
        BY <1>1, <1>2 DEF Holders, Holding
    <2> QED BY <1>1, <1>2, <2>1 DEF SynchInv, HeldInv, TypesInv, Holding, Waiting
<1>6. \A r \in Semaphore, u \in Thread : At(u, r)' <=> At(u, r)
    BY <1>1 DEF At
<1>7. \A i \in DOMAIN queue[s] : queue[s][i] # t
    BY <1>1 DEF SynchInv, QueueInv
<1>8. QueueInv'
    <2>1. ASSUME NEW r \in Semaphore, NEW i \in DOMAIN queue'[r]
          PROVE  (pc[queue[r][i]] = "asleep" /\ At(queue[r][i], r))'
        <3>1. CASE r = s /\ i = Len(queue[s]) + 1
            <4>1. queue'[r][i] = t
                BY <1>3, <3>1
            <4> QED BY <1>1, <1>2, <3>1, <4>1 DEF At
        <3>2. CASE ~ (r = s /\ i = Len(queue[s]) + 1)
            <4>1. i \in DOMAIN queue[r] /\ queue'[r][i] = queue[r][i] /\ queue[r][i] \in Thread
                <5>1. queue[r] \in Seq(Thread) /\ queue'[r] \in Seq(Thread)
                    BY <1>3
                <5>2. i \in 1..Len(queue'[r])
                    BY <2>1, <5>1
                <5>3. CASE r = s
                    BY <1>3, <3>2, <5>1, <5>2, <5>3
                <5>4. CASE r # s
                    BY <1>3, <5>1, <5>2, <5>4
                <5> QED BY <5>3, <5>4
            <4>2. pc[queue[r][i]] = "asleep" /\ At(queue[r][i], r)
                BY <4>1 DEF SynchInv, QueueInv
            <4> QED BY <1>1, <1>2, <4>1, <4>2 DEF At
        <3> QED BY <3>1, <3>2
    <2>2. ASSUME NEW r \in Semaphore, NEW i \in DOMAIN queue'[r], NEW j \in DOMAIN queue'[r],
                 queue'[r][i] = queue'[r][j]
          PROVE  i = j
        <3>1. \A k, m \in DOMAIN queue[r] : queue[r][k] = queue[r][m] => k = m
            BY DEF SynchInv, QueueInv
        <3>2. CASE r # s
            BY <1>3, <2>2, <3>1, <3>2
        <3>3. CASE r = s
            BY <1>3, <1>7, <2>2, <3>1, <3>3
        <3> QED BY <3>2, <3>3
    <2>3. ASSUME NEW r \in SemId \ semTable PROVE queue'[r] = <<>>
        <3>1. r # s
            BY <1>1, <2>3, Names DEF SynchInv, QueueInv, At, ConsoleCall, Waiting
        <3> QED BY <1>3, <2>3, <3>1, Names DEF SynchInv, QueueInv
    <2>4. ASSUME NEW u \in Thread, pc'[u] \in Waiting, call[u].op = "semwait"
          PROVE  call[u].arg \in semTable
        BY <1>1, <1>2, <2>4 DEF SynchInv, QueueInv, Waiting
    <2> QED BY <1>1, <2>1, <2>2, <2>3, <2>4 DEF QueueInv
<1>9. WakeInv'
    <2> SUFFICES ASSUME NEW r \in Semaphore, queue'[r] # <<>>
                 PROVE  value[r] <= Cardinality(Looking(r)')
        BY <1>1 DEF WakeInv
    <2>1. CASE r = s
        BY <1>1, <2>1, LookingFinite
    <2>2. CASE r # s
        <3>1. ~ At(t, r)
            BY <1>1, <2>2, AtOne DEF SynchInv
        <3>2. Looking(r)' = Looking(r)
            BY <1>2, <1>6, <3>1 DEF Looking
        <3> QED BY <1>3, <2>2, <3>2 DEF SynchInv, WakeInv
    <2> QED BY <2>1, <2>2
<1> QED BY <1>4, <1>5, <1>8, <1>9 DEF SynchInv

\* P by a thread that finds more: Console is its own then, and was nobody's.
LEMMA TakesStep ==
    ASSUME SynchInv, NEW t \in Thread, NEW s \in Semaphore, PTakes(t, s)
    PROVE  SynchInv'
<1>1. /\ pc[t] = "P" /\ At(t, s) /\ value[s] > 0
      /\ value' = [value EXCEPT ![s] = @ - 1]
      /\ pc' = [pc EXCEPT ![t] = IF s = Console THEN "inside" ELSE "user"]
      /\ UNCHANGED <<todo, call, queue, semTable>>
    BY DEF PTakes
<1>2. /\ pc \in [Thread -> Place] /\ pc' \in [Thread -> Place]
      /\ pc'[t] = (IF s = Console THEN "inside" ELSE "user")
      /\ \A u \in Thread \ {t} : pc'[u] = pc[u]
    BY <1>1 DEF SynchInv, TypesInv, Place
<1>3. /\ value \in [Semaphore -> Nat] /\ value' \in [Semaphore -> Nat]
      /\ value'[s] = value[s] - 1
      /\ \A r \in Semaphore \ {s} : value'[r] = value[r]
    BY <1>1 DEF SynchInv, TypesInv
<1>4. TypesInv'
    BY <1>1, <1>2, <1>3 DEF SynchInv, TypesInv
<1>5. HeldInv'
    <2>1. CASE s = Console
        <3>1. value[Console] = 1 /\ Holders = {}
            BY <1>1, <2>1 DEF SynchInv, HeldInv, Holders
        <3>2. Holders' = {t}
            BY <1>1, <1>2, <2>1, <3>1 DEF Holders, Holding
        <3>3. call[t].op \in ConsoleCall
            BY <1>1, <2>1, Names DEF At, SynchInv, TypesInv, QueueInv, Waiting
        <3>4. value'[Console] = 0
            BY <1>3, <2>1, <3>1, Names
        <3>5. \A u \in Thread : pc'[u] \in Holding => call'[u].op \in ConsoleCall
            BY <1>1, <1>2, <3>3 DEF SynchInv, HeldInv
        <3> QED BY <1>1, <3>1, <3>2, <3>4, <3>5 DEF HeldInv
    <2>2. CASE s # Console
        <3>1. call[t].op \notin ConsoleCall
            BY <1>1, <2>2 DEF At, ConsoleCall
        <3>2. Holders' = Holders
            BY <1>1, <1>2, <2>2 DEF Holders, Holding
        <3>3. value'[Console] = value[Console]
            BY <1>3, <2>2, Names
        <3> QED BY <1>1, <1>2, <2>2, <3>1, <3>2, <3>3
                DEF SynchInv, HeldInv, TypesInv, Holding, Waiting
    <2> QED BY <2>1, <2>2
<1>6. \A r \in Semaphore, u \in Thread : At(u, r)' <=> At(u, r)
    BY <1>1 DEF At
<1>7. QueueInv'
    <2>1. ASSUME NEW r \in Semaphore, NEW i \in DOMAIN queue[r]
          PROVE  pc'[queue[r][i]] = "asleep" /\ At(queue[r][i], r)'
        <3>1. queue[r][i] \in Thread
            BY DEF SynchInv, TypesInv
        <3>2. pc[queue[r][i]] = "asleep" /\ At(queue[r][i], r)
            BY DEF SynchInv, QueueInv
        <3> QED BY <1>1, <1>2, <1>6, <3>1, <3>2
    <2>2. ASSUME NEW u \in Thread, pc'[u] \in Waiting, call[u].op = "semwait"
          PROVE  call[u].arg \in semTable
        BY <1>1, <1>2, <2>2 DEF SynchInv, QueueInv, Waiting
    <2> QED BY <1>1, <2>1, <2>2 DEF SynchInv, QueueInv
<1>8. WakeInv'
    <2> SUFFICES ASSUME NEW r \in Semaphore, queue[r] # <<>>
                 PROVE  value'[r] <= Cardinality(Looking(r)')
        BY <1>1 DEF WakeInv
    <2>1. value[r] <= Cardinality(Looking(r))
        BY DEF SynchInv, WakeInv
    <2>2. CASE r = s
        <3>1. Looking(s)' = Looking(s) \ {t} /\ t \in Looking(s)
            BY <1>1, <1>2, <1>6 DEF Looking
        <3>2. Cardinality(Looking(s)') = Cardinality(Looking(s)) - 1
            BY <3>1, LookingFinite, FS_RemoveElement
        <3> QED BY <1>3, <2>1, <2>2, <3>2, LookingFinite
    <2>3. CASE r # s
        <3>1. ~ At(t, r)
            BY <1>1, <2>3, AtOne DEF SynchInv
        <3>2. Looking(r)' = Looking(r)
            BY <1>2, <1>6, <3>1 DEF Looking
        <3> QED BY <1>3, <2>1, <2>3, <3>2
    <2> QED BY <2>2, <2>3
<1> QED BY <1>4, <1>5, <1>7, <1>8 DEF SynchInv

\* What V does to the queues: the first thread, if there is one, leaves its queue.
LEMMA VQueues ==
    ASSUME TypesInv, QueueInv, NEW t \in Thread, NEW s \in Semaphore, V(t, s)
    PROVE  /\ queue' \in [Semaphore -> Seq(Thread)]
           /\ \A r \in Semaphore : queue'[r] # <<>> => queue[r] # <<>>
           /\ \A r \in Semaphore \ {s} : queue'[r] = queue[r]
           /\ \A i \in DOMAIN queue'[s] :
                 /\ i \in Nat /\ i + 1 \in DOMAIN queue[s]
                 /\ queue'[s][i] = queue[s][i + 1] /\ queue[s][i + 1] # queue[s][1]
<1>1. /\ queue \in [Semaphore -> Seq(Thread)]
      /\ queue' = [queue EXCEPT ![s] = IF @ = <<>> THEN @ ELSE Tail(@)]
    BY DEF V, TypesInv
<1>2. /\ queue'[s] = IF queue[s] = <<>> THEN <<>> ELSE Tail(queue[s])
      /\ \A r \in Semaphore \ {s} : queue'[r] = queue[r]
    BY <1>1
<1>3. queue[s] \in Seq(Thread) /\ queue'[s] \in Seq(Thread)
    BY <1>1, <1>2
<1>4. queue' \in [Semaphore -> Seq(Thread)]
    BY <1>1, <1>3
<1>5. \A r \in Semaphore : queue'[r] # <<>> => queue[r] # <<>>
    BY <1>2
<1>6. ASSUME NEW i \in DOMAIN queue'[s]
      PROVE  /\ i \in Nat /\ i + 1 \in DOMAIN queue[s]
             /\ queue'[s][i] = queue[s][i + 1] /\ queue[s][i + 1] # queue[s][1]
    <2>1. queue[s] # <<>> /\ queue'[s] = Tail(queue[s])
        BY <1>2, <1>6
    <2>2. Len(queue[s]) \in Nat \ {0} /\ i \in 1..(Len(queue[s]) - 1)
        BY <1>3, <1>6, <2>1
    <2>3. i + 1 \in DOMAIN queue[s] /\ 1 \in DOMAIN queue[s] /\ i + 1 # 1
        BY <1>3, <2>2
    <2>4. queue'[s][i] = queue[s][i + 1]
        BY <1>3, <2>1, <2>2
    <2> QED BY <2>2, <2>3, <2>4 DEF QueueInv
<1> QED BY <1>2, <1>4, <1>5, <1>6

\* V: by the thread that has Console, or by one in user code on another semaphore.
LEMMA VStep ==
    ASSUME SynchInv, NEW t \in Thread, NEW s \in Semaphore, V(t, s),
           \/ s = Console /\ pc[t] \in Holding
           \/ s \in semTable /\ pc[t] = "user",
           \A u \in Thread \ {t} : call'[u] = call[u],
           todo' \in [Thread -> Seq(SUBSET Call)],
           call' \in [Thread -> Call \cup {NoCall}]
    PROVE  SynchInv'
<1> DEFINE h == queue[s][1]
<1>1. pc[t] \notin Waiting
    BY DEF Waiting, Holding
<1>2. ASSUME queue[s] # <<>>
      PROVE  h \in Thread /\ pc[h] = "asleep" /\ At(h, s) /\ h # t
    <2>1. queue[s] \in Seq(Thread) /\ 1 \in DOMAIN queue[s]
        BY <1>2 DEF SynchInv, TypesInv
    <2> QED BY <1>1, <2>1 DEF SynchInv, QueueInv, Waiting
<1>3. /\ pc'[t] = "user"
      /\ \A u \in Thread \ {t} :
            pc'[u] = IF queue[s] # <<>> /\ u = h THEN "P" ELSE pc[u]
    <2>1. pc' = [u \in Thread |->
                    CASE u = t -> "user"
                      [] queue[s] # <<>> /\ u = h -> "P"
                      [] OTHER -> pc[u]]
        BY DEF V
    <2> HIDE DEF h
    <2>2. pc'[t] = "user"
        BY <1>2, <2>1
    <2>3. ASSUME NEW u \in Thread \ {t}
          PROVE  pc'[u] = IF queue[s] # <<>> /\ u = h THEN "P" ELSE pc[u]
        <3>1. u \in Thread /\ u # t
            OBVIOUS
        <3>2. CASE queue[s] # <<>> /\ u = h
            BY <1>2, <2>1, <3>1, <3>2
        <3>3. CASE ~ (queue[s] # <<>> /\ u = h)
            BY <2>1, <3>1, <3>3
        <3> QED BY <3>2, <3>3
    <2> QED BY <2>2, <2>3
<1>4. pc' \in [Thread -> Place]
    BY <1>3 DEF V, SynchInv, TypesInv, Place
<1>5. /\ value \in [Semaphore -> Nat] /\ value' \in [Semaphore -> Nat]
      /\ value'[s] = value[s] + 1 /\ \A r \in Semaphore \ {s} : value'[r] = value[r]
      /\ semTable' = semTable
    BY DEF V, SynchInv, TypesInv
<1>6. TypesInv'
    BY <1>4, <1>5, VQueues DEF SynchInv, TypesInv
<1> HIDE DEF h
<1>7. HeldInv'
    <2>1. \A u \in Thread : pc'[u] \in Holding <=> u # t /\ pc[u] \in Holding
        BY <1>2, <1>3 DEF Holding
    <2>2. \A u \in Thread : pc'[u] \in Holding => call'[u].op \in ConsoleCall
        BY <2>1 DEF SynchInv, HeldInv
    <2>5. CASE s = Console /\ pc[t] \in Holding
        <3>1. value[Console] = 0 /\ Holders = {t}
            BY <2>5 DEF SynchInv, HeldInv, Holders
        <3>2. Holders' = {}
            BY <2>1, <3>1 DEF Holders
        <3>3. value'[Console] = 1
            BY <1>5, <2>5, <3>1
        <3> QED BY <2>2, <3>2, <3>3 DEF HeldInv
    <2>6. CASE s \in semTable /\ pc[t] = "user"
        <3>1. Holders' = Holders
            BY <2>1, <2>6 DEF Holders, Holding
        <3>2. value'[Console] = value[Console]
            BY <1>5, <2>6, Names DEF SynchInv, TypesInv
        <3> QED BY <2>2, <3>1, <3>2 DEF SynchInv, HeldInv
    <2> QED BY <2>5, <2>6
<1>8. QueueInv'
    <2>1. ASSUME NEW r \in Semaphore, NEW i \in DOMAIN queue'[r]
          PROVE  (pc[queue[r][i]] = "asleep" /\ At(queue[r][i], r))'
        <3>1. PICK j \in DOMAIN queue[r] :
                  /\ queue'[r][i] = queue[r][j]
                  /\ queue[s] # <<>> => r # s \/ queue[r][j] # h
            <4>1. CASE r = s
                <5>1. /\ i + 1 \in DOMAIN queue[s] /\ queue'[s][i] = queue[s][i + 1]
                      /\ queue[s][i + 1] # h
                    BY <2>1, <4>1, VQueues DEF SynchInv, h
                <5> QED BY <4>1, <5>1
            <4>2. CASE r # s
                BY <2>1, <4>2, VQueues DEF SynchInv
            <4> QED BY <4>1, <4>2
        <3>2. queue[r][j] \in Thread
            BY DEF SynchInv, TypesInv
        <3>3. pc[queue[r][j]] = "asleep" /\ At(queue[r][j], r)
            BY DEF SynchInv, QueueInv
        <3>4. queue[r][j] # t
            BY <1>1, <3>3 DEF Waiting
        <3>5. queue[s] # <<>> => queue[r][j] # h
            BY <1>2, <3>1, <3>2, <3>3, AtOne DEF SynchInv
        <3> QED BY <1>3, <3>1, <3>2, <3>3, <3>4, <3>5 DEF At
    <2>2. ASSUME NEW r \in Semaphore, NEW i \in DOMAIN queue'[r], NEW j \in DOMAIN queue'[r],
                 queue'[r][i] = queue'[r][j]
          PROVE  i = j
        <3>1. \A k, m \in DOMAIN queue[r] : queue[r][k] = queue[r][m] => k = m
            BY DEF SynchInv, QueueInv
        <3>2. CASE r # s
            <4>1. queue'[r] = queue[r]
                BY <3>2, VQueues DEF SynchInv
            <4> QED BY <2>2, <3>1, <4>1
        <3>3. CASE r = s
            <4>1. /\ i \in Nat /\ i + 1 \in DOMAIN queue[s] /\ queue'[s][i] = queue[s][i + 1]
                  /\ j \in Nat /\ j + 1 \in DOMAIN queue[s] /\ queue'[s][j] = queue[s][j + 1]
                BY <2>2, <3>3, VQueues DEF SynchInv
            <4>2. i + 1 = j + 1
                BY <2>2, <3>1, <3>3, <4>1
            <4> QED BY <4>1, <4>2
        <3> QED BY <3>2, <3>3
    <2>3. ASSUME NEW r \in SemId \ semTable PROVE queue'[r] = <<>>
        BY <2>3, VQueues, Names DEF SynchInv, QueueInv
    <2>4. ASSUME NEW u \in Thread, pc'[u] \in Waiting, call'[u].op = "semwait"
          PROVE  call'[u].arg \in semTable
        BY <1>2, <1>3, <2>4 DEF SynchInv, QueueInv, Waiting
    <2> QED BY <1>5, <2>1, <2>2, <2>3, <2>4 DEF QueueInv
<1>9. WakeInv'
    <2> SUFFICES ASSUME NEW r \in Semaphore, queue'[r] # <<>>
                 PROVE  value'[r] <= Cardinality(Looking(r)')
        BY DEF WakeInv
    <2>1. queue[r] # <<>> /\ value[r] <= Cardinality(Looking(r))
        BY VQueues DEF SynchInv, WakeInv
    <2>2. ASSUME NEW u \in Thread, u # t PROVE At(u, r)' <=> At(u, r)
        BY <2>2 DEF At
    <2>3. CASE r = s
        <3>1. Looking(s)' = Looking(s) \cup {h} /\ h \notin Looking(s)
            BY <1>1, <1>2, <1>3, <2>1, <2>2, <2>3 DEF Looking, Waiting
        <3>2. Cardinality(Looking(s)') = Cardinality(Looking(s)) + 1
            BY <3>1, LookingFinite, FS_AddElement
        <3> QED BY <1>5, <2>1, <2>3, <3>2, LookingFinite
    <2>4. CASE r # s
        <3>1. queue[s] # <<>> => ~ At(h, r)
            BY <1>2, <2>4, AtOne DEF SynchInv
        <3>2. Looking(r)' = Looking(r)
            BY <1>1, <1>2, <1>3, <2>2, <3>1 DEF Looking, Waiting
        <3> QED BY <1>5, <2>1, <2>4, <3>2
    <2> QED BY <2>3, <2>4
<1> QED BY <1>6, <1>7, <1>8, <1>9 DEF SynchInv

\* A new semaphore has no queue.
LEMMA CreateStep ==
    ASSUME SynchInv, NEW t \in Thread, SemCreate(t)
    PROVE  SynchInv'
<1>1. PICK c \in NextCalls(t) :
          /\ Makes(t, c) /\ c.op = "semcreate"
          /\ IF SemId \subseteq semTable THEN UNCHANGED synch
             ELSE LET s == Least(SemId \ semTable)
                  IN  /\ semTable' = semTable \cup {s}
                      /\ value' = [value EXCEPT ![s] = c.size]
                      /\ queue' = queue
          /\ pc' = pc
    BY DEF SemCreate, Returns
<1>2. /\ c \in Call /\ pc[t] = "user"
      /\ todo' \in [Thread -> Seq(SUBSET Call)]
      /\ call' \in [Thread -> Call \cup {NoCall}]
      /\ \A u \in Thread \ {t} : call'[u] = call[u]
    BY <1>1, MakesTyped DEF SynchInv
<1>3. CASE SemId \subseteq semTable
    <2>1. UNCHANGED <<value, queue, semTable>>
        BY <1>1, <1>3 DEF synch
    <2>2. TypesInv'
        BY <1>1, <1>2, <2>1 DEF SynchInv, TypesInv
    <2> QED BY <1>1, <1>2, <2>1, <2>2, QuietStep DEF Waiting, Holding
<1>4. CASE ~ (SemId \subseteq semTable)
    <2> DEFINE s == Least(SemId \ semTable)
    <2>1. s \in SemId \ semTable
        BY <1>4, LeastIs, Names
    <2>2. semTable' = semTable \cup {s} /\ value' = [value EXCEPT ![s] = c.size]
          /\ queue' = queue
        BY <1>1, <1>4
    <2> HIDE DEF s
    <2>3. c.size \in Nat
        BY <1>1, <1>2 DEF Call
    <2>4. /\ value' \in [Semaphore -> Nat]
          /\ \A r \in Semaphore \ {s} : value'[r] = value[r]
        BY <2>2, <2>3 DEF SynchInv, TypesInv
    <2>5. TypesInv'
        BY <1>1, <1>2, <2>1, <2>2, <2>4 DEF SynchInv, TypesInv
    <2>6. HeldInv'
        <3>1. Holders' = Holders
            BY <1>1 DEF Holders
        <3>2. value'[Console] = value[Console]
            BY <2>1, <2>4, Names
        <3> QED BY <1>1, <1>2, <3>1, <3>2 DEF SynchInv, HeldInv, TypesInv, Waiting, Holding
    <2>7. \A r : Looking(r)' = Looking(r)
        BY <1>1, <1>2 DEF Looking, At
    <2>8. QueueInv'
        <3>1. ASSUME NEW r \in Semaphore, NEW i \in DOMAIN queue[r]
              PROVE  (pc[queue[r][i]] = "asleep" /\ At(queue[r][i], r))'
            <4>1. queue[r][i] \in Thread
                BY DEF SynchInv, TypesInv
            <4>2. pc[queue[r][i]] = "asleep" /\ At(queue[r][i], r)
                BY DEF SynchInv, QueueInv
            <4> QED BY <1>1, <1>2, <2>2, <4>1, <4>2 DEF At
        <3>2. ASSUME NEW u \in Thread, pc'[u] \in Waiting, call'[u].op = "semwait"
              PROVE  call'[u].arg \in semTable'
            BY <1>1, <1>2, <2>2, <3>2 DEF SynchInv, QueueInv, Waiting
        <3> QED BY <2>2, <3>1, <3>2 DEF SynchInv, QueueInv
    <2>9. WakeInv'
        <3>1. \A r \in Semaphore : queue[r] # <<>> => r # s
            BY <2>1 DEF SynchInv, QueueInv
        <3> QED BY <2>2, <2>4, <2>7, <3>1 DEF SynchInv, WakeInv
    <2> QED BY <2>5, <2>6, <2>8, <2>9 DEF SynchInv
<1> QED BY <1>3, <1>4

\* Whoever was at the semaphore is not at one any more.
LEMMA DestroyStep ==
    ASSUME SynchInv, NEW t \in Thread, SemDestroy(t)
    PROVE  SynchInv'
<1>1. PICK c \in NextCalls(t) :
          /\ Makes(t, c) /\ c.op = "semdestroy" /\ c.arg \in semTable
          /\ semTable' = semTable \ {c.arg}
          /\ value' = [value EXCEPT ![c.arg] = 0]
          /\ queue' = [queue EXCEPT ![c.arg] = <<>>]
          /\ pc' = [u \in Thread |->
                CASE pc[u] = "asleep" /\ call[u].op = "semwait" /\ At(u, c.arg) -> "orphan"
                  [] pc[u] = "P" /\ call[u].op = "semwait" /\ At(u, c.arg) -> "freed"
                  [] OTHER -> pc[u]]
    BY DEF SemDestroy
<1>2. /\ c \in Call /\ pc[t] = "user"
      /\ todo' \in [Thread -> Seq(SUBSET Call)]
      /\ call' \in [Thread -> Call \cup {NoCall}]
      /\ \A u \in Thread \ {t} : call'[u] = call[u]
    BY <1>1, MakesTyped DEF SynchInv
<1> DEFINE s == c.arg
<1>3. s \in SemId /\ s \in Semaphore /\ s # Console
    BY <1>1, Names DEF SynchInv, TypesInv
<1>4. ASSUME NEW u \in Thread
      PROVE  \/ /\ pc[u] \in Waiting /\ call[u].op = "semwait" /\ At(u, s)
                /\ pc'[u] \in {"orphan", "freed"}
             \/ /\ ~ (pc[u] \in Waiting /\ call[u].op = "semwait" /\ At(u, s))
                /\ pc'[u] = pc[u]
    BY <1>1 DEF Waiting
<1> HIDE DEF s
<1>5. /\ value' \in [Semaphore -> Nat] /\ \A r \in Semaphore \ {s} : value'[r] = value[r]
      /\ queue' \in [Semaphore -> Seq(Thread)] /\ queue'[s] = <<>>
      /\ \A r \in Semaphore \ {s} : queue'[r] = queue[r]
      /\ semTable' = semTable \ {s}
    BY <1>1, <1>3 DEF SynchInv, TypesInv, s
<1>6. pc' \in [Thread -> Place]
    <2>1. \A u \in Thread : pc'[u] \in Place
        BY <1>4 DEF SynchInv, TypesInv, Place
    <2> QED BY <1>1, <2>1
<1>7. TypesInv'
    BY <1>1, <1>2, <1>5, <1>6 DEF SynchInv, TypesInv
<1>8. HeldInv'
    <2>1. Holders' = Holders
        BY <1>1, <1>4 DEF Holders, Holding, Waiting
    <2>2. value'[Console] = value[Console]
        BY <1>3, <1>5, Names
    <2>3. \A u \in Thread : pc'[u] \in Holding => call'[u].op \in ConsoleCall
        BY <1>2, <1>4 DEF SynchInv, HeldInv, Holding, Waiting
    <2> QED BY <1>1, <2>1, <2>2, <2>3 DEF SynchInv, HeldInv
<1>9. ASSUME NEW u \in Thread, NEW r \in Semaphore \ {s}, pc[u] \in Waiting, At(u, r)
      PROVE  pc'[u] = pc[u] /\ At(u, r)'
    <2>1. ~ At(u, s)
        BY <1>9, AtOne DEF SynchInv
    <2>2. u # t
        BY <1>2, <1>9 DEF Waiting
    <2> QED BY <1>2, <1>4, <1>9, <2>1, <2>2 DEF At
<1>10. QueueInv'
    <2>1. ASSUME NEW r \in Semaphore, NEW i \in DOMAIN queue'[r]
          PROVE  (pc[queue[r][i]] = "asleep" /\ At(queue[r][i], r))'
        <3>1. r # s
            BY <1>5, <2>1
        <3>2. queue'[r][i] = queue[r][i] /\ i \in DOMAIN queue[r] /\ queue[r][i] \in Thread
            BY <1>5, <2>1, <3>1 DEF SynchInv, TypesInv
        <3>3. pc[queue[r][i]] = "asleep" /\ At(queue[r][i], r)
            BY <3>2 DEF SynchInv, QueueInv
        <3>4. pc'[queue[r][i]] = "asleep" /\ At(queue[r][i], r)'
            BY <1>9, <3>1, <3>2, <3>3 DEF Waiting
        <3> QED BY <1>4, <3>2, <3>3, <3>4, <1>2 DEF At, Waiting
    <2>2. ASSUME NEW r \in Semaphore, NEW i \in DOMAIN queue'[r], NEW j \in DOMAIN queue'[r],
                 queue'[r][i] = queue'[r][j]
          PROVE  i = j
        <3>1. r # s
            BY <1>5, <2>2
        <3>2. queue'[r] = queue[r]
            BY <1>5, <3>1
        <3>3. \A k, m \in DOMAIN queue[r] : queue[r][k] = queue[r][m] => k = m
            BY DEF SynchInv, QueueInv
        <3> QED BY <2>2, <3>2, <3>3
    <2>3. \A r \in SemId \ semTable' : queue'[r] = <<>>
        BY <1>5, Names DEF SynchInv, QueueInv
    <2>4. ASSUME NEW u \in Thread, pc'[u] \in Waiting, call'[u].op = "semwait"
          PROVE  call'[u].arg \in semTable'
        BY <1>2, <1>4, <1>5, <2>4 DEF SynchInv, QueueInv, Waiting, At
    <2> QED BY <2>1, <2>2, <2>3, <2>4 DEF QueueInv
<1>11. WakeInv'
    <2> SUFFICES ASSUME NEW r \in Semaphore, queue'[r] # <<>>
                 PROVE  value'[r] <= Cardinality(Looking(r)')
        BY DEF WakeInv
    <2>1. r # s
        BY <1>5
    <2>2. ASSUME NEW u \in Thread
          PROVE  (pc[u] = "P" /\ At(u, r))' <=> pc[u] = "P" /\ At(u, r)
        <3>1. pc'[u] = "P" => pc[u] = "P" /\ u # t
            BY <1>2, <1>4
        <3> QED BY <1>2, <1>9, <2>1, <3>1 DEF At, Waiting
    <2>3. Looking(r)' = Looking(r)
        BY <2>2 DEF Looking
    <2> QED BY <1>5, <2>1, <2>3 DEF SynchInv, WakeInv
<1> QED BY <1>7, <1>8, <1>10, <1>11 DEF SynchInv

\* The other calls: a thread that is neither at a semaphore nor in Console makes one,
\* or the one in Console goes on.
LEMMA MovesQuietly ==
    ASSUME SynchInv, NEW t \in Thread, NEW w \in Place \ Waiting,
           pc[t] \notin Waiting, w \in Holding <=> pc[t] \in Holding,
           pc' = [pc EXCEPT ![t] = w],
           todo' \in [Thread -> Seq(SUBSET Call)],
           call' \in [Thread -> Call \cup {NoCall}],
           \A u \in Thread \ {t} : call'[u] = call[u],
           w \in Holding => call'[t] = call[t],
           UNCHANGED <<value, queue, semTable>>
    PROVE  SynchInv'
<1>1. TypesInv'
    BY DEF SynchInv, TypesInv
<1> QED BY <1>1, QuietStep DEF SynchInv, TypesInv

\* ... and, where the call returns at once or the machine aborts, no thread moves.
LEMMA StaysQuietly ==
    ASSUME SynchInv, NEW t \in Thread, pc[t] \notin Waiting \cup Holding,
           todo' \in [Thread -> Seq(SUBSET Call)],
           call' \in [Thread -> Call \cup {NoCall}],
           \A u \in Thread \ {t} : call'[u] = call[u],
           UNCHANGED <<pc, value, queue, semTable>>
    PROVE  SynchInv'
<1>1. TypesInv'
    BY DEF SynchInv, TypesInv
<1> QED BY <1>1, QuietStep

LEMMA SynchStays ==
    ASSUME SynchInv, UNCHANGED <<threads, synch>>
    PROVE  SynchInv'
<1>1. TypesInv'
    BY DEF SynchInv, TypesInv, threads, synch
<1> QED BY <1>1, QuietStep DEF threads, synch

\* The Read that returns early, and what is executed then, keep Console.
LEMMA RefusedStep ==
    ASSUME SynchInv, NEW t \in Thread, ReadRefused(t) \/ CallAgain(t)
    PROVE  SynchInv'
<1>1. UNCHANGED <<todo, call, value, queue, semTable>>
    BY DEF ReadRefused, CallAgain, synch
<1>2. CASE pc' = pc
    BY <1>1, <1>2, SynchStays DEF threads, synch
<1>3. ASSUME NEW w \in {"again", "lost"}, pc[t] \in {"inside", "again"},
             pc' = [pc EXCEPT ![t] = w]
      PROVE  SynchInv'
    <2>1. w \in Place \ Waiting /\ w \in Holding /\ pc[t] \in Holding \ Waiting
        BY <1>3 DEF Place, Waiting, Holding
    <2>2. todo \in [Thread -> Seq(SUBSET Call)] /\ call \in [Thread -> Call \cup {NoCall}]
        BY DEF SynchInv, TypesInv
    <2> HIDE DEF Call
    <2> QED BY <1>1, <1>3, <2>1, <2>2, MovesQuietly
<1> QED BY <1>2, <1>3 DEF ReadRefused, CallAgain, Inside

LEMMA OtherCall ==
    ASSUME SynchInv, NEW t \in Thread,
           \/ Open(t) \/ Close(t) \/ SemRefused(t) \/ Halt(t) \/ CallForever(t)
    PROVE  SynchInv'
<1>1. PICK c \in NextCalls(t) :
          /\ Makes(t, c)
          /\ pc' = pc \/ pc' = [pc EXCEPT ![t] = "done"] \/ pc' = [pc EXCEPT ![t] = "loop"]
          /\ UNCHANGED <<value, queue, semTable>>
    BY DEF Open, Close, SemRefused, Halt, CallForever, Returns, synch
<1>2. /\ pc[t] = "user"
      /\ todo' \in [Thread -> Seq(SUBSET Call)]
      /\ call' \in [Thread -> Call \cup {NoCall}]
      /\ \A u \in Thread \ {t} : call'[u] = call[u]
    BY <1>1, MakesTyped DEF SynchInv
<1>3. CASE pc' = pc
    BY <1>1, <1>2, <1>3, StaysQuietly DEF Waiting, Holding
<1>4. ASSUME NEW w \in {"done", "loop"}, pc' = [pc EXCEPT ![t] = w]
      PROVE  SynchInv'
    BY <1>1, <1>2, <1>4, MovesQuietly DEF Place, Waiting, Holding
<1> QED BY <1>1, <1>3, <1>4

LEMMA ThreadCall ==
    ASSUME SynchInv, NEW t \in Thread,
           \/ Start(t) \/ Exit(t) \/ ReadsFreed(t)
    PROVE  SynchInv'
<1>1. /\ pc[t] \in {"born", "user", "freed"}
      /\ todo' = todo \/ todo' = [todo EXCEPT ![t] = <<>>]
      /\ pc' = pc \/ \E w \in {"user", "done", "orphan"} : pc' = [pc EXCEPT ![t] = w]
      /\ UNCHANGED <<call, value, queue, semTable>>
    BY DEF Start, Exit, ReadsFreed, synch
<1>2. todo' \in [Thread -> Seq(SUBSET Call)] /\ call' \in [Thread -> Call \cup {NoCall}]
    <2>1. <<>> \in Seq(SUBSET Call)
        OBVIOUS
    <2>2. CASE todo' = todo
        BY <1>1, <2>2 DEF SynchInv, TypesInv
    <2>3. CASE todo' = [todo EXCEPT ![t] = <<>>]
        <3> HIDE DEF Call
        <3> QED BY <1>1, <2>1, <2>3 DEF SynchInv, TypesInv
    <2> QED BY <1>1, <2>2, <2>3
<1>3. CASE pc' = pc
    BY <1>1, <1>2, <1>3, StaysQuietly DEF Waiting, Holding
<1>4. ASSUME NEW w \in {"user", "done", "orphan"}, pc' = [pc EXCEPT ![t] = w]
      PROVE  SynchInv'
    BY <1>1, <1>2, <1>4, MovesQuietly DEF Place, Waiting, Holding
<1> QED BY <1>1, <1>3, <1>4

\* Fork keeps Console while the child is made.
LEMMA ForkStep ==
    ASSUME SynchInv, NEW t \in Thread, Fork(t)
    PROVE  SynchInv'
<1> DEFINE u == call[t].arg
<1>1. /\ pc[t] = "inside" /\ pc[u] = "unborn"
      /\ pc' = [pc EXCEPT ![u] = "born", ![t] = "forked"]
      /\ UNCHANGED <<todo, call, value, queue, semTable>>
    BY DEF Fork, Inside, synch
<1> HIDE DEF u
<1>2. \A v \in Thread :
          pc'[v] = IF v = t THEN "forked" ELSE IF v = u THEN "born" ELSE pc[v]
    BY <1>1 DEF SynchInv, TypesInv
<1>3. pc' \in [Thread -> Place]
    BY <1>1, <1>2 DEF SynchInv, TypesInv, Place
<1>4. TypesInv'
    BY <1>1, <1>3 DEF SynchInv, TypesInv
<1>5. ASSUME NEW v \in Thread
      PROVE  \/ pc'[v] = pc[v] /\ call'[v] = call[v]
             \/ /\ pc[v] \notin Waiting /\ pc'[v] \notin Waiting
                /\ pc'[v] \in Holding <=> pc[v] \in Holding
                /\ pc'[v] \in Holding => call'[v] = call[v]
    <2>1. CASE v = t
        <3>1. pc[v] = "inside" /\ pc'[v] = "forked" /\ call'[v] = call[v]
            BY <1>1, <1>2, <2>1
        <3> QED BY <3>1 DEF Waiting, Holding
    <2>2. CASE v # t /\ v = u
        <3>1. pc[v] = "unborn" /\ pc'[v] = "born"
            BY <1>1, <1>2, <2>2
        <3> QED BY <3>1 DEF Waiting, Holding
    <2>3. CASE v # t /\ v # u
        BY <1>1, <1>2, <2>3
    <2> QED BY <2>1, <2>2, <2>3
<1>6. UNCHANGED <<value, queue, semTable>>
    BY <1>1
<1> HIDE DEF SynchInv, TypesInv
<1> QED BY <1>4, <1>5, <1>6, QuietStep

\* The calls that end with the V of Console.
LEMMA LeaveStep ==
    ASSUME SynchInv, NEW t \in Thread, pc[t] \in Holding, Leave(t)
    PROVE  SynchInv'
<1>1. V(t, Console) /\ UNCHANGED <<todo, call>>
    BY DEF Leave
<1> QED BY <1>1, Names, VStep DEF SynchInv, TypesInv

LEMMA SignalStep ==
    ASSUME SynchInv, NEW t \in Thread, SemSignal(t)
    PROVE  SynchInv'
<1>1. PICK c \in NextCalls(t) :
          Makes(t, c) /\ c.arg \in semTable /\ V(t, c.arg)
    BY DEF SemSignal
<1>2. /\ pc[t] = "user"
      /\ todo' \in [Thread -> Seq(SUBSET Call)]
      /\ call' \in [Thread -> Call \cup {NoCall}]
      /\ \A u \in Thread \ {t} : call'[u] = call[u]
    BY <1>1, MakesTyped DEF SynchInv
<1>3. c.arg \in Semaphore
    BY <1>1, Names DEF SynchInv, TypesInv
<1> QED BY <1>1, <1>2, <1>3, VStep

LEMMA AssertStep ==
    ASSUME SynchInv, NEW t \in Thread, FailedAssert(t)
    PROVE  SynchInv'
<1>1. CASE UNCHANGED <<todo, call>> /\ Abort
    BY <1>1, SynchStays DEF Abort, threads, synch
<1>2. CASE \E c \in NextCalls(t) : Makes(t, c) /\ Abort
    <2>1. PICK c \in NextCalls(t) : Makes(t, c) /\ Abort
        BY <1>2
    <2>2. /\ pc[t] = "user"
          /\ todo' \in [Thread -> Seq(SUBSET Call)]
          /\ call' \in [Thread -> Call \cup {NoCall}]
          /\ \A u \in Thread \ {t} : call'[u] = call[u]
        BY <2>1, MakesTyped DEF SynchInv
    <2> QED BY <2>1, <2>2, StaysQuietly DEF Abort, synch, Waiting, Holding
<1> QED BY <1>1, <1>2 DEF FailedAssert

LEMMA SynchPreserved == SynchInv /\ [Next]_vars => SynchInv'
<1> SUFFICES ASSUME SynchInv, [Next]_vars PROVE SynchInv'
    OBVIOUS
<1>1. ASSUME NEW t \in Thread, ThreadStep(t) PROVE SynchInv'
    <2>1. CASE \/ Open(t) \/ Close(t) \/ SemRefused(t) \/ Halt(t) \/ CallForever(t)
        BY <2>1, OtherCall
    <2>2. CASE Start(t) \/ Exit(t) \/ ReadsFreed(t)
        BY <2>2, ThreadCall
    <2>3. CASE \/ Read(t) \/ Write(t) \/ Socket(t) \/ Connect(t) \/ ForkReturns(t)
        BY <2>3, LeaveStep DEF Read, Write, Socket, Connect, ForkReturns, Inside, Holding
    <2>4. CASE Enter(t) \/ ReadRefused(t) \/ CallAgain(t) \/ Fork(t)
        BY <2>4, EnterStep, RefusedStep, ForkStep
    <2>5. CASE SemCreate(t) \/ SemDestroy(t) \/ SemSignal(t) \/ FailedAssert(t)
        BY <2>5, CreateStep, DestroyStep, SignalStep, AssertStep
    <2>6. CASE \E s \in Semaphore : PWaits(t, s) \/ PTakes(t, s)
        BY <2>6, WaitsStep, TakesStep
    <2> QED BY <1>1, <2>1, <2>2, <2>3, <2>4, <2>5, <2>6 DEF ThreadStep
<1>2. CASE UNCHANGED vars
    BY <1>2, SynchStays DEF vars
<1> QED BY <1>1, <1>2 DEF Next

LEMMA SynchInitially == Init => SynchInv
<1> SUFFICES ASSUME Init PROVE SynchInv
    OBVIOUS
<1>1. /\ todo \in Programs
      /\ pc = [t \in Thread |-> IF t = Main THEN "user" ELSE "unborn"]
      /\ call = [t \in Thread |-> NoCall]
      /\ semTable = {}
      /\ value = [s \in Semaphore |-> IF s = Console THEN 1 ELSE 0]
      /\ queue = [s \in Semaphore |-> <<>>]
    BY DEF Init
<1>2. <<>> \in Seq(Thread)
    OBVIOUS
<1>3. todo \in [Thread -> Seq(SUBSET Call)] /\ call \in [Thread -> Call \cup {NoCall}]
    BY <1>1, ProcessAssumption
<1>4. pc \in [Thread -> Place] /\ value \in [Semaphore -> Nat]
    BY <1>1 DEF Place
<1>5. queue \in [Semaphore -> Seq(Thread)]
    BY <1>1, <1>2
<1>6. TypesInv
    BY <1>1, <1>3, <1>4, <1>5 DEF TypesInv
<1>7. HeldInv
    <2>1. \A t \in Thread : pc[t] \notin Holding
        BY <1>1 DEF Holding
    <2>2. Holders = {}
        BY <1>1, <2>1 DEF Holders
    <2>3. value[Console] = 1
        BY <1>1, Names
    <2> QED BY <1>1, <2>1, <2>2, <2>3 DEF HeldInv
<1>8. QueueInv
    BY <1>1, Names DEF QueueInv, Waiting
<1>9. WakeInv
    BY <1>1 DEF WakeInv
<1> QED BY <1>6, <1>7, <1>8, <1>9 DEF SynchInv

\* Console is free, or held once, or gone with a thread whose Read returned early, and
\* no wake-up is lost, for any number of threads and semaphores and any programs
\* (userprog/exception.cc, threads/synch.cc).
THEOREM ConsoleAlways == Spec => []ConsoleHeld
<1>1. SynchInv => ConsoleHeld
    <2> SUFFICES ASSUME SynchInv PROVE ConsoleHeld
        OBVIOUS
    <2>1. Holders = {t \in Thread : pc[t] \in {"inside", "forked", "again", "lost"}}
        BY DEF Holders, Holding
    <2>2. value[Console] + Cardinality(Holders) = 1
        <3>1. CASE value[Console] = 1 /\ Holders = {}
            <4>1. Cardinality(Holders) = 0
                BY <3>1, FS_EmptySet
            <4> QED BY <3>1, <4>1
        <3>2. CASE value[Console] = 0 /\ \E h \in Thread : Holders = {h}
            <4>1. Cardinality(Holders) = 1
                BY <3>2, FS_Singleton
            <4> QED BY <3>2, <4>1
        <3> QED BY <3>1, <3>2 DEF SynchInv, HeldInv
    <2>3. \A s \in Semaphore : queue[s] # <<>> =>
              value[s] <= Cardinality({t \in Thread : pc[t] = "P" /\ At(t, s)})
        BY DEF SynchInv, WakeInv, Looking
    <2> QED BY <2>1, <2>2, <2>3 DEF ConsoleHeld
<1> QED BY <1>1, SynchInitially, SynchPreserved, PTL DEF Spec

-----------------------------------------------------------------------------
(* The pages of the machine                                                *)

\* A set of numbers that are at most n has a greatest one.
LEMMA GreatestIs ==
    ASSUME NEW n \in Nat, NEW G, G \subseteq 0..n, G # {}
    PROVE  \E m \in G : \A g \in G : g <= m
<1> DEFINE Gaps == {n - g : g \in G}
           d == Least(Gaps)
<1>1. Gaps \subseteq Nat /\ Gaps # {}
    <2>1. \A g \in G : g \in 0..n
        OBVIOUS
    <2>2. \A g \in G : n - g \in Nat
        BY <2>1
    <2> QED BY <2>2
<1> HIDE DEF Gaps
<1>2. d \in Gaps /\ \A y \in Gaps : d <= y
    BY <1>1, LeastIs
<1> HIDE DEF d
<1> USE DEF Gaps
<1>3. PICK m \in G : d = n - m
    BY <1>2
<1>4. \A g \in G : d <= n - g
    BY <1>2
<1>5. \A g \in G : g \in 0..n
    OBVIOUS
<1> QED BY <1>3, <1>4, <1>5

Below(F, p) == {q \in F : q < p}

\* For every k below its size such a set has a member with exactly k others below it.
LEMMA RankExists ==
    ASSUME NEW n \in Nat, NEW F, F \subseteq 0..n, NEW k \in Nat, k < Cardinality(F)
    PROVE  \E p \in F : Cardinality(Below(F, p)) = k
<1> DEFINE Before(p) == Below(F, p)
           High == {p \in F : k <= Cardinality(Before(p))}
           p == Least(High)
<1> USE DEF Below
<1>0. \A q \in F : q \in Nat
    OBVIOUS
<1>1. IsFiniteSet(F)
    <2>1. IsFiniteSet(0..n)
        BY FS_Interval
    <2> QED BY <2>1, FS_Subset
<1>2. Cardinality(F) \in Nat
    BY <1>1, FS_CardinalityType
<1>3. \A r : IsFiniteSet(Before(r)) /\ Cardinality(Before(r)) \in Nat
    <2> TAKE r
    <2>1. Before(r) \in SUBSET F
        OBVIOUS
    <2> HIDE DEF Before, Below
    <2> QED BY <1>1, <2>1, FS_Subset, FS_CardinalityType
<1>4. High # {}
    <2>1. F # {}
        BY FS_EmptySet
    <2>2. PICK m \in F : \A g \in F : g <= m
        BY <2>1, GreatestIs
    <2>3. \A q \in F : q < m <=> q # m
        BY <1>0, <2>2
    <2>7. Before(m) = F \ {m}
        BY <2>3
    <2>4. Cardinality(F \ {m}) = Cardinality(F) - 1
        BY <1>1, FS_RemoveElement
    <2> HIDE DEF Before, Below
    <2>5. k <= Cardinality(Before(m))
        BY <1>2, <2>7, <2>4
    <2>6. m \in High
        BY <2>2, <2>5
    <2> QED BY <2>6
<1>5. High \subseteq Nat
    <2>1. High \subseteq F
        OBVIOUS
    <2> HIDE DEF High
    <2> QED BY <2>1
<1> HIDE DEF High
<1>6. p \in High /\ \A y \in High : p <= y
    BY <1>4, <1>5, LeastIs
<1> HIDE DEF p
<1>7. p \in F /\ k <= Cardinality(Before(p))
    BY <1>6 DEF High
<1>8. ASSUME k < Cardinality(Before(p)) PROVE FALSE
    <2>1. Before(p) # {}
        <3> HIDE DEF Before, Below
        <3> QED BY <1>3, <1>8, FS_EmptySet
    <2>2. PICK r \in Before(p) : \A g \in Before(p) : g <= r
        <3>0. Before(p) \subseteq F
            OBVIOUS
        <3>1. Before(p) \subseteq 0..n
            BY <3>0
        <3> HIDE DEF Before, Below
        <3> QED BY <2>1, <3>1, GreatestIs
    <2>3. r \in F /\ r < p
        OBVIOUS
    <2>4. Before(r) = Before(p) \ {r}
        <3>1. p \in Nat /\ r \in Nat /\ \A q \in F : q \in Nat
            BY <1>0, <1>7
        <3>2. \A q \in F : q < r <=> (q < p /\ q # r)
            BY <2>2, <2>3, <3>1
        <3> QED BY <3>2
    <2>5. Cardinality(Before(p) \ {r}) = Cardinality(Before(p)) - 1
        <3> HIDE DEF Before, Below
        <3> QED BY <1>3, <2>2, FS_RemoveElement
    <2>6. k <= Cardinality(Before(r))
        <3> HIDE DEF Before, Below
        <3> QED BY <1>3, <1>8, <2>4, <2>5
    <2>7. r \in High
        BY <2>3, <2>6 DEF High
    <2>8. p <= r /\ r \in Nat /\ p \in Nat
        BY <1>6, <1>7, <2>3, <2>7
    <2> QED BY <2>3, <2>8
<1>9. Cardinality(Before(p)) = k
    <2> HIDE DEF Before, Below
    <2> QED BY <1>3, <1>7, <1>8
<1> HIDE DEF Below
<1> QED BY <1>7, <1>9

\* BitMap::Find hands out pages that are not in use, or none.
LEMMA FindIs ==
    ASSUME NEW marks, NEW n \in Nat, NEW i \in 1..n
    PROVE  Find(marks, n)[i] \in (Page \ marks) \cup {NoPage}
<1> DEFINE free == Page \ marks
<1>1. Find(marks, n)[i] =
          IF i > Cardinality(free) THEN NoPage
          ELSE CHOOSE p \in free : Cardinality(Below(free, p)) = i - 1
    BY DEF Find, Below
<1>2. CASE ~(i > Cardinality(free))
    <2>1. CASE NumPhysPages = 0
        <3>1. free = {}
            BY <2>1 DEF Page
        <3> QED BY <1>2, <3>1, FS_EmptySet
    <2>2. CASE NumPhysPages # 0
        <3>1. NumPhysPages - 1 \in Nat /\ free \subseteq 0..(NumPhysPages - 1)
            BY <2>2, ProcessAssumption DEF Page
        <3>2. Cardinality(free) \in Nat
            <4> HIDE DEF free
            <4>1. IsFiniteSet(0..(NumPhysPages - 1))
                BY <3>1, FS_Interval
            <4> QED BY <3>1, <4>1, FS_Subset, FS_CardinalityType
        <3> HIDE DEF free
        <3>3. i - 1 \in Nat /\ i - 1 < Cardinality(free)
            BY <1>2, <3>2
        <3>4. \E p \in free : Cardinality(Below(free, p)) = i - 1
            <4> DEFINE b == NumPhysPages - 1
                       k == i - 1
            <4>1. b \in Nat /\ free \subseteq 0..b /\ k \in Nat /\ k < Cardinality(free)
                BY <3>1, <3>3
            <4> HIDE DEF b, k
            <4>2. \E p \in free : Cardinality(Below(free, p)) = k
                BY <4>1, RankExists
            <4> QED BY <4>2 DEF k
        <3> QED BY <1>1, <1>2, <3>4 DEF free
    <2> QED BY <2>1, <2>2
<1> QED BY <1>1, <1>2

\* A page that some space has.
Held(p) == \E t \in Thread : \E i \in DOMAIN space[t] : space[t][i] = p

\* What the spaces are as long as nobody has exited: the pages of code and data are the
\* ones the first space found, and a stack has pages of its own.
PageInv ==
    /\ space \in [Thread -> Seq(Page \cup {NoPage})]
    /\ \A t \in Thread :
          IF pc[t] = "unborn" THEN space[t] = <<>> ELSE Len(space[t]) = NumPages
    /\ \A p : p \in mapa <=> p # NoPage /\ Held(p)
    /\ \A t \in Thread : Live(t) =>
          /\ \A i \in 1..SharedPages : space[t][i] = i - 1
          /\ \A i \in Stack : space[t][i] \notin 0..(SharedPages - 1)
    /\ \A t, u \in Thread : Live(t) /\ Live(u) /\ t # u =>
          \A i, j \in Stack : space[t][i] # NoPage => space[t][i] # space[u][j]

MemoryInv == (\A t \in Thread : pc[t] # "done") => PageInv

LEMMA Sizes ==
    /\ SharedPages \in Nat /\ StackPages \in Nat /\ NumPages \in Nat /\ SharedPages > 0
    /\ NumPages = SharedPages + StackPages
    /\ \A i \in 1..SharedPages : i \in 1..NumPages
    /\ \A i \in Stack : i \in 1..NumPages
    /\ \A i \in 1..NumPages : i \in 1..SharedPages \/ i \in Stack
BY ProcessAssumption DEF NumPages, Stack

\* A thread that shares its code and data gets a stack that is in no use.
LEMMA CopyIs ==
    ASSUME NEW t \in Thread, space[t] \in Seq(Page \cup {NoPage}), Len(space[t]) = NumPages
    PROVE  /\ CopySpace(t) \in Seq(Page \cup {NoPage})
           /\ Len(CopySpace(t)) = NumPages
           /\ \A i \in 1..SharedPages : CopySpace(t)[i] = space[t][i]
           /\ \A i \in Stack : CopySpace(t)[i] \in (Page \ mapa) \cup {NoPage}
<1> DEFINE old == SubSeq(space[t], 1, SharedPages)
           new == Find(mapa, StackPages)
           P == Page \cup {NoPage}
<1>1. old \in Seq(P) /\ Len(old) = SharedPages /\ \A i \in 1..SharedPages : old[i] = space[t][i]
    BY Sizes
<1>2. \A i \in 1..StackPages : new[i] \in (Page \ mapa) \cup {NoPage}
    BY Sizes, FindIs
<1>3. DOMAIN new = 1..StackPages /\ new = [i \in 1..StackPages |-> new[i]]
    BY DEF Find
<1> HIDE DEF new
<1>4. new \in Seq(P) /\ Len(new) = StackPages
    <2>1. new \in [1..StackPages -> P]
        BY <1>2, <1>3
    <2> HIDE DEF P
    <2> QED BY <2>1, Sizes
<1> HIDE DEF old
<1>5. CopySpace(t) = old \o new
    BY DEF CopySpace, old, new
<1>6. old \o new \in Seq(P) /\ Len(old \o new) = NumPages
    <2> HIDE DEF P
    <2> QED BY <1>1, <1>4, Sizes
<1>7. ASSUME NEW i \in 1..SharedPages PROVE (old \o new)[i] = space[t][i]
    BY <1>1, <1>4, Sizes
<1>8. ASSUME NEW i \in Stack PROVE (old \o new)[i] \in (Page \ mapa) \cup {NoPage}
    <2>1. i \in Int /\ i > SharedPages /\ i <= SharedPages + StackPages
        BY Sizes DEF Stack, NumPages
    <2>2. (old \o new)[i] = new[i - SharedPages]
        <3> HIDE DEF P
        <3>1. i \in 1..(Len(old) + Len(new)) /\ ~(i <= Len(old))
            BY <1>1, <1>4, <2>1, Sizes
        <3> QED BY <1>1, <1>4, <3>1, ConcatProperties
    <2>3. i - SharedPages \in 1..StackPages
        BY <2>1, Sizes
    <2> QED BY <1>2, <2>2, <2>3
<1> QED BY <1>5, <1>6, <1>7, <1>8

LEMMA LiveIs ==
    ASSUME PageInv, NEW t \in Thread
    PROVE  Live(t) <=> pc[t] # "unborn"
<1>1. pc[t] # "unborn" => Len(space[t]) = NumPages
    BY DEF PageInv
<1>2. pc[t] # "unborn" => Len(space[t]) # 0
    BY <1>1, Sizes
<1>3. Len(<<>>) = 0
    OBVIOUS
<1> QED BY <1>2, <1>3 DEF PageInv, Live

\* A step that leaves the memory alone, and in which no thread is born.
LEMMA MemoryStays ==
    ASSUME MemoryInv, UNCHANGED memory,
           \A u \in Thread : /\ pc'[u] = "unborn" <=> pc[u] = "unborn"
                             /\ pc[u] = "done" => pc'[u] = "done"
    PROVE  MemoryInv'
<1>1. CASE \E u \in Thread : pc'[u] = "done"
    BY <1>1 DEF MemoryInv
<1>2. CASE \A u \in Thread : pc'[u] # "done"
    <2>1. PageInv
        BY <1>2 DEF MemoryInv
    <2>2. space' = space /\ mapa' = mapa
        BY DEF memory
    <2>3. \A u \in Thread :
              IF pc'[u] = "unborn" THEN space'[u] = <<>> ELSE Len(space'[u]) = NumPages
        BY <2>1, <2>2 DEF PageInv
    <2>4. \A p : (Held(p)' <=> Held(p)) /\ (p \in mapa' <=> p \in mapa)
        BY <2>2 DEF Held
    <2>5. \A u \in Thread : Live(u)' <=> Live(u)
        BY <2>2 DEF Live
    <2>6. PageInv'
        BY <2>1, <2>2, <2>3, <2>4, <2>5 DEF PageInv
    <2> QED BY <2>6 DEF MemoryInv
<1> QED BY <1>1, <1>2

\* Fork makes a space for a thread that had none (the copy constructor of AddrSpace).
LEMMA ForkShares ==
    ASSUME SynchInv, MemoryInv, NEW t \in Thread, Fork(t)
    PROVE  MemoryInv'
<1> DEFINE u == call[t].arg
           copy == CopySpace(t)
<1>1. /\ pc[t] = "inside" /\ pc[u] = "unborn" /\ call[t].op = "fork"
      /\ pc' = [pc EXCEPT ![u] = "born", ![t] = "forked"]
      /\ space' = [space EXCEPT ![u] = copy]
      /\ mapa' = mapa \cup ({copy[i] : i \in DOMAIN copy} \ {NoPage})
    BY DEF Fork, Inside
<1>2. u \in Thread
    BY <1>1 DEF SynchInv, TypesInv, Call, NoCall
<1> HIDE DEF u
<1>3. u # t /\ \A v \in Thread :
          pc'[v] = IF v = t THEN "forked" ELSE IF v = u THEN "born" ELSE pc[v]
    BY <1>1 DEF SynchInv, TypesInv
<1>4. CASE \E v \in Thread : pc'[v] = "done"
    BY <1>4 DEF MemoryInv
<1>5. CASE \A v \in Thread : pc'[v] # "done"
    <2>1. \A v \in Thread : pc[v] # "done"
        BY <1>1, <1>3, <1>5
    <2>2. PageInv
        BY <2>1 DEF MemoryInv
    <2>17. \A p : p \in mapa <=> p # NoPage /\ Held(p)
        BY <2>2 DEF PageInv
    <2>3. /\ space[t] \in Seq(Page \cup {NoPage}) /\ Len(space[t]) = NumPages
          /\ space[u] = <<>>
        BY <1>1, <1>2, <2>2 DEF PageInv
    <2>4. Live(t) /\ \A v \in Thread : Live(v) => v # u
        BY <1>1, <1>2, <2>2, LiveIs
    <2>5. /\ copy \in Seq(Page \cup {NoPage}) /\ Len(copy) = NumPages
          /\ \A i \in 1..SharedPages : copy[i] = space[t][i]
          /\ \A i \in Stack : copy[i] \in (Page \ mapa) \cup {NoPage}
        BY <2>3, CopyIs
    <2> HIDE DEF copy
    <2>6. \A v \in Thread : space'[v] = IF v = u THEN copy ELSE space[v]
        BY <1>1, <2>2 DEF PageInv
    <2>7. space' \in [Thread -> Seq(Page \cup {NoPage})]
        BY <1>1, <2>2, <2>5 DEF PageInv
    <2>8. ASSUME NEW v \in Thread
          PROVE  IF pc'[v] = "unborn" THEN space'[v] = <<>> ELSE Len(space'[v]) = NumPages
        <3>1. CASE v = u
            BY <3>1, <1>3, <2>5, <2>6
        <3>2. CASE v = t
            <4>1. pc'[v] = "forked" /\ space'[v] = space[v]
                BY <3>2, <1>3, <2>6
            <4> QED BY <4>1, <3>2, <2>3
        <3>3. CASE v # u /\ v # t
            <4>1. pc'[v] = pc[v] /\ space'[v] = space[v]
                BY <3>3, <1>3, <2>6
            <4> QED BY <4>1, <2>2 DEF PageInv
        <3> QED BY <3>1, <3>2, <3>3
    <2>9. ASSUME NEW v \in Thread, v # u
          PROVE  Live(v)' <=> Live(v)
        BY <2>6, <2>9 DEF Live
    <2>10. /\ \A i \in 1..SharedPages : copy[i] = i - 1
           /\ \A i \in Stack : copy[i] \notin mapa
        <3>1. \A i \in 1..SharedPages : copy[i] = i - 1
            BY <2>2, <2>4, <2>5 DEF PageInv
        <3>2. NoPage \notin mapa
            BY <2>17
        <3> QED BY <2>5, <3>1, <3>2
    <2>11. \A v \in Thread : \A i \in 1..NumPages :
              Live(v) /\ space[v][i] # NoPage => space[v][i] \in mapa
        <3> TAKE v \in Thread
        <3> TAKE i \in 1..NumPages
        <3> HAVE Live(v) /\ space[v][i] # NoPage
        <3>1. Len(space[v]) = NumPages /\ space[v] \in Seq(Page \cup {NoPage})
            BY <2>2, LiveIs DEF PageInv
        <3>2. i \in DOMAIN space[v]
            BY <3>1
        <3>3. Held(space[v][i])
            BY <3>2 DEF Held
        <3> QED BY <3>3, <2>17
    <2>12. \A p \in 0..(SharedPages - 1) : p \in mapa
        <3> TAKE p \in 0..(SharedPages - 1)
        <3>1. p + 1 \in 1..SharedPages /\ p + 1 \in 1..NumPages /\ p # NoPage /\ (p + 1) - 1 = p
            BY Sizes DEF NoPage
        <3>2. space[t][p + 1] = (p + 1) - 1
            BY <3>1, <2>2, <2>4 DEF PageInv
        <3> QED BY <3>1, <3>2, <2>4, <2>11
    <2>13. ASSUME NEW v \in Thread, Live(v)'
           PROVE  /\ \A i \in 1..SharedPages : space'[v][i] = i - 1
                  /\ \A i \in Stack : space'[v][i] \notin 0..(SharedPages - 1)
        <3>1. CASE v = u
            BY <3>1, <2>6, <2>10, <2>12
        <3>2. CASE v # u
            BY <3>2, <2>2, <2>6, <2>9, <2>13 DEF PageInv
        <3> QED BY <3>1, <3>2
    <2>14. ASSUME NEW v \in Thread, NEW w \in Thread, Live(v)', Live(w)', v # w,
                  NEW i \in Stack, NEW j \in Stack, space'[v][i] # NoPage
           PROVE  space'[v][i] # space'[w][j]
        <3>1. CASE v # u /\ w # u
            BY <3>1, <2>2, <2>6, <2>9, <2>14 DEF PageInv
        <3>2. CASE v = u
            <4>1. space'[v][i] = copy[i] /\ space'[w][j] = space[w][j] /\ Live(w)
                BY <3>2, <2>6, <2>9, <2>14
            <4> QED BY <4>1, <2>10, <2>11, <2>14, Sizes
        <3>3. CASE w = u
            <4>1. space'[w][j] = copy[j] /\ space'[v][i] = space[v][i] /\ Live(v)
                BY <3>3, <2>6, <2>9, <2>14
            <4> QED BY <4>1, <2>10, <2>11, <2>14, Sizes
        <3> QED BY <3>1, <3>2, <3>3
    <2>15. ASSUME NEW p
           PROVE  p \in mapa' <=> p # NoPage /\ Held(p)'
        <3>1. Held(p)' <=> Held(p) \/ p \in {copy[i] : i \in DOMAIN copy}
            <4>1. DOMAIN space[u] = {}
                BY <2>3
            <4>2. Held(p)' <=> \E v \in Thread : \E i \in DOMAIN space'[v] : space'[v][i] = p
                BY DEF Held
            <4> QED BY <1>2, <2>6, <4>1, <4>2 DEF Held
        <3>2. p \in mapa' <=> \/ p \in mapa
                              \/ p \in {copy[i] : i \in DOMAIN copy} /\ p # NoPage
            BY <1>1
        <3> QED BY <2>17, <3>1, <3>2
    <2>16. PageInv'
        BY <2>7, <2>8, <2>13, <2>14, <2>15 DEF PageInv
    <2> QED BY <2>16 DEF MemoryInv
<1> QED BY <1>4, <1>5

\* Where no thread is forked and none exits, the threads that are born stay so.
LEMMA OtherStep ==
    ASSUME SynchInv, NEW t \in Thread, ThreadStep(t), ~Fork(t), ~Exit(t)
    PROVE  /\ UNCHANGED memory
           /\ \A u \in Thread : /\ pc'[u] = "unborn" <=> pc[u] = "unborn"
                                /\ pc[u] = "done" => pc'[u] = "done"
<1>1. pc \in [Thread -> Place]
    BY DEF SynchInv, TypesInv
<1>2. ASSUME NEW s \in Semaphore, V(t, s), pc[t] \in {"inside", "forked", "user"}
      PROVE  \A u \in Thread : /\ pc'[u] = "unborn" <=> pc[u] = "unborn"
                               /\ pc[u] = "done" => pc'[u] = "done"
    <2>1. \A u \in Thread : pc'[u] = CASE u = t -> "user"
                                       [] queue[s] # <<>> /\ u = queue[s][1] -> "P"
                                       [] OTHER -> pc[u]
        BY <1>2 DEF V
    <2>2. queue[s] # <<>> => pc[queue[s][1]] = "asleep"
        <3>1. queue[s] \in Seq(Thread)
            BY DEF SynchInv, TypesInv
        <3>2. queue[s] # <<>> => 1 \in DOMAIN queue[s]
            BY <3>1
        <3> QED BY <3>2 DEF SynchInv, QueueInv
    <2>3. ASSUME NEW u \in Thread
          PROVE  /\ pc'[u] = "unborn" <=> pc[u] = "unborn"
                 /\ pc[u] = "done" => pc'[u] = "done"
        BY <1>2, <2>1, <2>2
    <2> QED BY <2>3
<1>3. CASE \/ Read(t) \/ Write(t) \/ Socket(t) \/ Connect(t) \/ ForkReturns(t)
    <2>1. UNCHANGED memory /\ V(t, Console) /\ pc[t] \in {"inside", "forked", "user"}
        BY <1>3 DEF Read, Write, Socket, Connect, ForkReturns, Leave, Inside
    <2> QED BY <2>1, <1>2, Names
<1>4. CASE SemSignal(t)
    <2>1. PICK c \in NextCalls(t) :
              Makes(t, c) /\ c.arg \in semTable /\ V(t, c.arg) /\ UNCHANGED memory
        BY <1>4 DEF SemSignal
    <2>2. c.arg \in Semaphore /\ pc[t] \in {"inside", "forked", "user"}
        BY <2>1, Names DEF SynchInv, TypesInv, Makes
    <2> QED BY <2>1, <2>2, <1>2
<1>5. CASE SemDestroy(t)
    <2>1. PICK c \in NextCalls(t) :
              pc' = [u \in Thread |->
                 CASE pc[u] = "asleep" /\ call[u].op = "semwait" /\ At(u, c.arg) -> "orphan"
                   [] pc[u] = "P" /\ call[u].op = "semwait" /\ At(u, c.arg) -> "freed"
                   [] OTHER -> pc[u]]
        BY <1>5 DEF SemDestroy
    <2>2. UNCHANGED memory
        BY <1>5 DEF SemDestroy
    <2>3. \A u \in Thread : \/ pc'[u] = pc[u]
                            \/ pc[u] = "asleep" /\ pc'[u] = "orphan"
                            \/ pc[u] = "P" /\ pc'[u] = "freed"
        BY <2>1
    <2> QED BY <2>2, <2>3
<1>6. CASE \/ Start(t) \/ Enter(t) \/ Open(t) \/ Close(t) \/ Halt(t) \/ CallForever(t)
           \/ SemCreate(t) \/ SemRefused(t) \/ ReadRefused(t) \/ CallAgain(t)
           \/ ReadsFreed(t) \/ FailedAssert(t) \/ \E s \in Semaphore : PWaits(t, s) \/ PTakes(t, s)
    <2>1. /\ UNCHANGED memory
          /\ \/ pc' = pc
             \/ /\ pc[t] \in {"born", "user", "P", "inside", "again", "freed"}
                /\ \E w \in Place \ {"unborn"} : pc' = [pc EXCEPT ![t] = w]
        BY <1>6 DEF Start, Enter, Open, Close, Halt, CallForever, SemCreate, SemRefused,
            ReadRefused, CallAgain, ReadsFreed, FailedAssert, Abort, PWaits, PTakes, Makes,
            Returns, Inside, Place
    <2> QED BY <1>1, <2>1
<1> QED BY <1>3, <1>4, <1>5, <1>6 DEF ThreadStep

LEMMA MemoryPreserved == SynchInv /\ MemoryInv /\ [Next]_vars => MemoryInv'
<1> SUFFICES ASSUME SynchInv, MemoryInv, [Next]_vars PROVE MemoryInv'
    OBVIOUS
<1>1. ASSUME NEW t \in Thread, ThreadStep(t) PROVE MemoryInv'
    <2>1. CASE Fork(t)
        BY <2>1, ForkShares
    <2>2. CASE Exit(t)
        <3>1. CASE UNCHANGED <<pc, memory>>
            BY <3>1, MemoryStays
        <3>2. CASE pc' = [pc EXCEPT ![t] = "done"]
            <4>1. pc'[t] = "done"
                BY <3>2 DEF SynchInv, TypesInv
            <4> QED BY <4>1 DEF MemoryInv
        <3> QED BY <2>2, <3>1, <3>2 DEF Exit
    <2>3. CASE ~Fork(t) /\ ~Exit(t)
        BY <1>1, <2>3, OtherStep, MemoryStays
    <2> QED BY <2>1, <2>2, <2>3
<1>2. CASE UNCHANGED vars
    BY <1>2, MemoryStays DEF vars, threads
<1> QED BY <1>1, <1>2 DEF Next

LEMMA MemoryInitially == Init => MemoryInv
<1> SUFFICES ASSUME Init PROVE PageInv
    BY DEF MemoryInv
<1>1. /\ pc = [t \in Thread |-> IF t = Main THEN "user" ELSE "unborn"]
      /\ mapa = 0..(NumPages - 1)
      /\ space = [t \in Thread |-> IF t = Main THEN LoadedSpace ELSE <<>>]
    BY DEF Init
<1> DEFINE P == Page \cup {NoPage}
<1>2. /\ LoadedSpace \in Seq(P) /\ Len(LoadedSpace) = NumPages
      /\ \A i \in 1..NumPages : LoadedSpace[i] = i - 1
      /\ DOMAIN LoadedSpace = 1..NumPages
    <2>1. \A i \in 1..NumPages : i - 1 \in Page
        BY Sizes, ProcessAssumption DEF Page
    <2>2. LoadedSpace \in [1..NumPages -> P]
        BY <2>1 DEF LoadedSpace
    <2> HIDE DEF P
    <2> QED BY <2>2, Sizes DEF LoadedSpace
<1> HIDE DEF P
<1>3. \A t \in Thread : space[t] = IF t = Main THEN LoadedSpace ELSE <<>>
    BY <1>1
<1>4. space \in [Thread -> Seq(P)]
    BY <1>1, <1>2
<1>5. \A t \in Thread : IF pc[t] = "unborn" THEN space[t] = <<>> ELSE Len(space[t]) = NumPages
    BY <1>1, <1>2, <1>3
<1>6. \A t \in Thread : Live(t) => t = Main
    BY <1>3 DEF Live
<1>7. ASSUME NEW p
      PROVE  p \in mapa <=> p # NoPage /\ Held(p)
    <2>1. Held(p) <=> \E i \in 1..NumPages : i - 1 = p
        <3>1. \A t \in Thread : DOMAIN space[t] = IF t = Main THEN 1..NumPages ELSE {}
            BY <1>2, <1>3
        <3>2. Main \in Thread /\ space[Main] = LoadedSpace
            BY <1>3, ProcessAssumption
        <3>3. Held(p) <=> \E i \in 1..NumPages : LoadedSpace[i] = p
            BY <3>1, <3>2 DEF Held
        <3> QED BY <1>2, <3>3
    <2>2. p \in 0..(NumPages - 1) <=> \E i \in 1..NumPages : i - 1 = p
        <3>1. p \in 0..(NumPages - 1) => p + 1 \in 1..NumPages /\ (p + 1) - 1 = p
            BY Sizes
        <3>2. \A i \in 1..NumPages : i - 1 \in 0..(NumPages - 1)
            BY Sizes
        <3> QED BY <3>1, <3>2
    <2>3. NoPage \notin 0..(NumPages - 1)
        BY DEF NoPage
    <2> QED BY <1>1, <2>1, <2>2, <2>3
<1>8. ASSUME NEW t \in Thread, Live(t)
      PROVE  /\ \A i \in 1..SharedPages : space[t][i] = i - 1
             /\ \A i \in Stack : space[t][i] \notin 0..(SharedPages - 1)
    <2>1. \A i \in 1..NumPages : space[t][i] = i - 1
        BY <1>2, <1>3, <1>6, <1>8
    <2>2. \A i \in Stack : i \in Int /\ i > SharedPages
        BY Sizes DEF Stack
    <2>3. \A i \in Stack : i - 1 \notin 0..(SharedPages - 1)
        BY <2>2, Sizes
    <2> QED BY <2>1, <2>3, Sizes
<1> QED BY <1>4, <1>5, <1>6, <1>7, <1>8 DEF PageInv, P

\* While nobody has exited the pages in use are those of the address spaces, the threads
\* share code and data, and no stack is anybody else's, for any number of threads and
\* pages, also when there are too few (userprog/addrspace.cc, userprog/bitmap.cc).
THEOREM MemoryAlways == Spec => []MemoryShared
<1>1. MemoryInv => MemoryShared
    <2> SUFFICES ASSUME PageInv PROVE
           /\ mapa = (UNION {{space[t][i] : i \in DOMAIN space[t]} : t \in Thread}) \ {NoPage}
           /\ \A t, u \in Thread : Live(t) /\ Live(u) /\ t # u =>
                /\ \A i \in 1..SharedPages : space[t][i] = space[u][i]
                /\ \A i \in Stack, j \in 1..NumPages :
                      space[t][i] # NoPage => space[t][i] # space[u][j]
        BY DEF MemoryInv, MemoryShared
    <2>1. mapa = (UNION {{space[t][i] : i \in DOMAIN space[t]} : t \in Thread}) \ {NoPage}
        <3>1. \A p : p \in mapa <=> p # NoPage /\ \E t \in Thread : \E i \in DOMAIN space[t] : space[t][i] = p
            BY DEF PageInv, Held
        <3> DEFINE Pages(t) == {space[t][i] : i \in DOMAIN space[t]}
                   All == UNION {Pages(t) : t \in Thread}
        <3>2. \A p : p \in All <=> \E t \in Thread : p \in Pages(t)
            OBVIOUS
        <3>3. \A p, t : p \in Pages(t) <=> \E i \in DOMAIN space[t] : space[t][i] = p
            OBVIOUS
        <3> HIDE DEF All, Pages
        <3>4. mapa = All \ {NoPage}
            BY <3>1, <3>2, <3>3
        <3> QED BY <3>4 DEF All, Pages
    <2>2. ASSUME NEW t \in Thread, NEW u \in Thread, Live(t), Live(u), t # u
          PROVE  /\ \A i \in 1..SharedPages : space[t][i] = space[u][i]
                 /\ \A i \in Stack, j \in 1..NumPages :
                       space[t][i] # NoPage => space[t][i] # space[u][j]
        <3>1. /\ \A i \in 1..SharedPages : space[t][i] = i - 1 /\ space[u][i] = i - 1
              /\ \A i \in Stack : space[t][i] \notin 0..(SharedPages - 1)
            BY <2>2 DEF PageInv
        <3>2. \A i, j \in Stack : space[t][i] # NoPage => space[t][i] # space[u][j]
            BY <2>2 DEF PageInv
        <3>3. \A i \in 1..SharedPages : i - 1 \in 0..(SharedPages - 1)
            BY Sizes
        <3>4. ASSUME NEW i \in Stack, NEW j \in 1..NumPages, space[t][i] # NoPage
              PROVE  space[t][i] # space[u][j]
            <4>1. CASE j \in Stack
                BY <3>2, <3>4, <4>1
            <4>2. CASE j \in 1..SharedPages
                BY <3>1, <3>3, <4>2
            <4> QED BY <4>1, <4>2, Sizes
        <3>5. \A i \in 1..SharedPages : space[t][i] = space[u][i]
            BY <3>1
        <3> QED BY <3>4, <3>5
    <2> QED BY <2>1, <2>2
<1> QED BY <1>1, SynchInitially, SynchPreserved, MemoryInitially, MemoryPreserved, PTL DEF Spec

-----------------------------------------------------------------------------
(* The types of the file system                                            *)

\* A header names as many sectors as its file needs.
GoodHeader == {h \in FileHeader : Len(h.dataSectors) = divRoundUp(h.numBytes, SectorSize)}
Directories == [Entry -> DirectoryEntry]
Contents == [Units -> Value]
FileInMemory ==
    [open : BOOLEAN, name : Name \cup {NoName}, hdr : GoodHeader, seek : Nat]

Fetches ==
    [io : {"fetch"}, what : {"directory"}, at : {1, 2}]
      \cup [io : {"fetch"}, what : {"map"}, at : {0}]
      \cup [io : {"fetch"}, what : {"header", "data"}, at : Sector]
DirectoryStores ==
    [io : {"store"}, what : {"directory"}, at : {1, 2}, data : Directories]
MapStores == [io : {"store"}, what : {"map"}, at : {0}, data : SUBSET Sector]
HeaderStores == [io : {"store"}, what : {"header"}, at : Sector, data : GoodHeader]
DataStores == [io : {"store"}, what : {"data"}, at : Sector, data : Contents]
SectorIO == Fetches \cup DirectoryStores \cup MapStores \cup HeaderStores \cup DataStores

DiskTyped ==
    /\ freeMap \in SUBSET Sector
    /\ directory \in Directories
    /\ header \in [Sector -> GoodHeader]
    /\ data \in [Sector -> Contents]
    /\ overwritten \in SUBSET Sector
BuffersTyped ==
    /\ dirBuf \in [Caller -> Directories]
    /\ mapBuf \in [Caller -> SUBSET Sector]
    /\ hdrBuf \in [Caller -> GoodHeader]
    /\ buf \in [Caller -> Seq(Contents)]
Phase == {"idle", "look", "allocate", "free", "header", "merge", "ends", "aborted"}
ControlTyped ==
    /\ script \in [Caller -> Seq(SUBSET FileOperation)]
    /\ op \in [Caller -> FileOperation \cup {NoOperation}]
    /\ phase \in [Caller -> Phase]
    /\ pending \in [Caller -> Seq(SectorIO)]
    /\ file \in [Caller -> FileInMemory]
MachineTyped == running \in BOOLEAN /\ lost \in BOOLEAN /\ crashes \in Nat
\* A write knows what it transfers before it fetches anything.
MergeInv ==
    \A t \in Caller : phase[t] = "merge" => op[t].op = "write" /\ Amount(t, op[t].size) > 0
FilesTypeOK == DiskTyped /\ BuffersTyped /\ ControlTyped /\ MachineTyped

-----------------------------------------------------------------------------
(* Numbers of sectors                                                      *)

LEMMA Division ==
    ASSUME NEW n \in Int, NEW s \in Nat \ {0}
    PROVE  /\ n \div s \in Int
           /\ n = s * (n \div s) + (n % s)
           /\ n % s \in 0..(s - 1)
OBVIOUS

\* The sectors of n units, and the one that unit p is in.
LEMMA RoundUp ==
    ASSUME NEW n \in Nat, NEW s \in Nat \ {0}
    PROVE  /\ divRoundUp(n, s) \in Nat
           /\ \A k \in Nat : n <= s * k => divRoundUp(n, s) <= k
           /\ \A p \in Nat : p < n => /\ p \div s \in Nat
                                      /\ p \div s < divRoundUp(n, s)
<1>1. n \div s \in Nat
    BY Division
<1>2. divRoundUp(n, s) \in Nat
    BY <1>1 DEF divRoundUp
<1>3. ASSUME NEW k \in Nat, n <= s * k PROVE divRoundUp(n, s) <= k
    BY <1>3 DEF divRoundUp
<1>4. ASSUME NEW p \in Nat, p < n
      PROVE  p \div s \in Nat /\ p \div s < divRoundUp(n, s)
    BY <1>4 DEF divRoundUp
<1> QED BY <1>2, <1>3, <1>4

LEMMA RoundUpOf ==
    ASSUME NEW s \in Nat \ {0}
    PROVE  /\ divRoundUp(0, s) = 0
           /\ divRoundUp(s, s) = 1
           /\ divRoundUp(2 * s, s) = 2
BY DEF divRoundUp

LEMMA Earlier ==
    ASSUME NEW p \in Int, NEW q \in Int, p <= q, NEW s \in Nat \ {0}
    PROVE  p \div s <= q \div s
OBVIOUS

LEMMA SizesOfFiles ==
    /\ NumSectors \in Nat /\ NumSectors > 5 /\ SectorSize \in Nat \ {0}
    /\ NumDirect \in Nat /\ NumDirect > 1 /\ MaxUnits \in Nat
    /\ NumDirEntries \in Nat \ {0} /\ InFirst \in 0..NumDirEntries
BY FilesAssumption DEF MaxUnits

\* What a header that is well formed has.
LEMMA HeaderIs ==
    ASSUME NEW h \in GoodHeader
    PROVE  /\ h.numBytes \in 0..MaxUnits
           /\ h.dataSectors \in Seq(Sector)
           /\ Len(h.dataSectors) = divRoundUp(h.numBytes, SectorSize)
           /\ SectorsOf(h) \subseteq Sector
<1>1. PICK n \in 0..NumDirect : h.dataSectors \in [1..n -> Sector]
    BY DEF GoodHeader, FileHeader
<1>2. h.dataSectors \in Seq(Sector)
    BY <1>1, SizesOfFiles
<1>3. SectorsOf(h) \subseteq Sector
    BY <1>2 DEF SectorsOf, ToSet
<1> QED BY <1>2, <1>3 DEF GoodHeader, FileHeader

LEMMA MakesHeader ==
    ASSUME NEW size \in 0..MaxUnits, NEW s, s \in [1..divRoundUp(size, SectorSize) -> Sector]
    PROVE  [numBytes |-> size, dataSectors |-> s] \in GoodHeader
<1> DEFINE n == divRoundUp(size, SectorSize)
<1>1. n \in Nat /\ n <= NumDirect
    <2>1. size <= SectorSize * NumDirect
        BY SizesOfFiles DEF MaxUnits
    <2> QED BY <2>1, SizesOfFiles, RoundUp
<1>2. s \in UNION {[1..k -> Sector] : k \in 0..NumDirect}
    BY <1>1, SizesOfFiles
<1> HIDE DEF n
<1>3. Len(s) = n
    BY <1>1 DEF n
<1> QED BY <1>2, <1>3 DEF GoodHeader, FileHeader, n

\* The sectors that Find takes are free, and no two the same.
LEMMA FoundFree ==
    ASSUME NEW map \in SUBSET Sector, NEW n \in Nat, n <= Cardinality(Sector \ map)
    PROVE  FindSectors(map, n) \in [1..n -> Sector \ map]
<1> DEFINE F == Sector \ map
<1>1. F \in SUBSET (0..NumSectors)
    BY SizesOfFiles DEF Sector
<1>2. IsFiniteSet(F) /\ Cardinality(F) \in Nat
    <2>1. IsFiniteSet(0..NumSectors)
        BY SizesOfFiles, FS_Interval
    <2> HIDE DEF F
    <2> QED BY <1>1, <2>1, FS_Subset, FS_CardinalityType
<1>3. ASSUME NEW i \in 1..n
      PROVE  \E s \in F : Cardinality(FreeBefore(map, s)) = i - 1
    <2>1. PICK k \in Nat : k = i - 1
        OBVIOUS
    <2>2. k < Cardinality(F)
        BY <1>2, <2>1
    <2> HIDE DEF F
    <2>3. PICK p \in F : Cardinality(Below(F, p)) = k
        BY <1>1, <2>2, SizesOfFiles, RankExists
    <2>4. Below(F, p) = FreeBefore(map, p)
        BY DEF Below, FreeBefore, F
    <2> QED BY <2>1, <2>3, <2>4
<1> HIDE DEF F
<1>4. \A i \in 1..n : FindSectors(map, n)[i] \in F
    BY <1>3 DEF FindSectors, F
<1>5. FindSectors(map, n) = [i \in 1..n |-> FindSectors(map, n)[i]]
    BY DEF FindSectors
<1> QED BY <1>4, <1>5 DEF F
-----------------------------------------------------------------------------
(* Directories                                                             *)

LEMMA SetMinIs ==
    ASSUME NEW S \in SUBSET Entry, S # {}
    PROVE  SetMin(S) \in S
<1>1. S \subseteq Nat
    BY SizesOfFiles DEF Entry
<1>2. Least(S) \in S
    BY <1>1, LeastIs
<1>3. SetMin(S) = Least(S)
    BY DEF SetMin, Least
<1> QED BY <1>2, <1>3

LEMMA CopiedIs ==
    ASSUME NEW from \in Directories, NEW to \in Directories, NEW k \in {1, 2}
    PROVE  /\ Copied(from, to, k) \in Directories
           /\ \A e \in Entry :
                /\ (e <= InFirst + 1) = (k = 1) =>
                      /\ Copied(from, to, k)[e].inUse = from[e].inUse
                      /\ Copied(from, to, k)[e].sector = from[e].sector
                /\ (e <= InFirst + 1) # (k = 1) =>
                      /\ Copied(from, to, k)[e].inUse = to[e].inUse
                      /\ Copied(from, to, k)[e].sector = to[e].sector
                /\ Copied(from, to, k)[e].name =
                      IF (e <= InFirst) = (k = 1) THEN from[e].name ELSE to[e].name
<1> DEFINE c == Copied(from, to, k)
<1>1. ASSUME NEW e \in Entry
      PROVE  /\ c[e] \in DirectoryEntry
             /\ (e <= InFirst + 1) = (k = 1) =>
                   c[e].inUse = from[e].inUse /\ c[e].sector = from[e].sector
             /\ (e <= InFirst + 1) # (k = 1) =>
                   c[e].inUse = to[e].inUse /\ c[e].sector = to[e].sector
             /\ c[e].name = IF (e <= InFirst) = (k = 1) THEN from[e].name ELSE to[e].name
    <2> DEFINE front == IF (e <= InFirst + 1) = (k = 1) THEN from[e] ELSE to[e]
               back == IF (e <= InFirst) = (k = 1) THEN from[e] ELSE to[e]
    <2>1. c[e] = [inUse |-> front.inUse, sector |-> front.sector, name |-> back.name]
        BY DEF Copied
    <2>2. front \in DirectoryEntry /\ back \in DirectoryEntry
        BY DEF Directories
    <2>3. /\ (e <= InFirst + 1) = (k = 1) => front = from[e]
          /\ (e <= InFirst + 1) # (k = 1) => front = to[e]
        OBVIOUS
    <2>4. back.name = IF (e <= InFirst) = (k = 1) THEN from[e].name ELSE to[e].name
        OBVIOUS
    <2> HIDE DEF front, back, c
    <2>5. c[e] \in DirectoryEntry
        BY <2>1, <2>2 DEF DirectoryEntry
    <2>6. c[e].inUse = front.inUse /\ c[e].sector = front.sector /\ c[e].name = back.name
        BY <2>1
    <2> QED BY <2>3, <2>4, <2>5, <2>6
<1>2. c = [e \in Entry |-> c[e]]
    BY DEF Copied
<1>3. c \in Directories
    BY <1>1, <1>2 DEF Directories
<1> HIDE DEF c
<1>4. \A e \in Entry :
        /\ (e <= InFirst + 1) = (k = 1) =>
              c[e].inUse = from[e].inUse /\ c[e].sector = from[e].sector
        /\ (e <= InFirst + 1) # (k = 1) =>
              c[e].inUse = to[e].inUse /\ c[e].sector = to[e].sector
        /\ c[e].name = IF (e <= InFirst) = (k = 1) THEN from[e].name ELSE to[e].name
    BY <1>1
<1> QED BY <1>3, <1>4 DEF c

\* Two directories are the same when their entries have the same three parts.
LEMMA SameDirectory ==
    ASSUME NEW d1 \in Directories, NEW d2 \in Directories,
           \A e \in Entry : /\ d1[e].inUse = d2[e].inUse
                            /\ d1[e].sector = d2[e].sector
                            /\ d1[e].name = d2[e].name
    PROVE  d1 = d2
<1>1. ASSUME NEW e \in Entry PROVE d1[e] = d2[e]
    <2>1. d1[e] \in DirectoryEntry /\ d2[e] \in DirectoryEntry
        BY DEF Directories
    <2> QED BY <2>1 DEF DirectoryEntry
<1> QED BY <1>1 DEF Directories

\* Both sectors of a directory make it whole, whatever was there before.
LEMMA BothCopied ==
    ASSUME NEW from \in Directories, NEW to \in Directories
    PROVE  Copied(from, Copied(from, to, 1), 2) = from
<1> DEFINE c == Copied(from, to, 1)
           d == Copied(from, c, 2)
<1>0. \A e \in Entry : e \in Int /\ InFirst \in Int
    BY SizesOfFiles DEF Entry
<1>1. c \in Directories
    BY CopiedIs
<1>2. ASSUME NEW e \in Entry
      PROVE  /\ e <= InFirst + 1 =>
                   c[e].inUse = from[e].inUse /\ c[e].sector = from[e].sector
             /\ e <= InFirst => c[e].name = from[e].name
    <2>1. (e <= InFirst + 1) = (1 = 1) =>
             c[e].inUse = from[e].inUse /\ c[e].sector = from[e].sector
        BY CopiedIs
    <2>2. c[e].name = IF (e <= InFirst) = (1 = 1) THEN from[e].name ELSE to[e].name
        BY CopiedIs
    <2> QED BY <2>1, <2>2
<1> HIDE DEF c
<1>3. d \in Directories
    BY <1>1, CopiedIs
<1>4. ASSUME NEW e \in Entry
      PROVE  /\ e <= InFirst + 1 =>
                   d[e].inUse = c[e].inUse /\ d[e].sector = c[e].sector
             /\ ~(e <= InFirst + 1) =>
                   d[e].inUse = from[e].inUse /\ d[e].sector = from[e].sector
             /\ d[e].name = IF e <= InFirst THEN c[e].name ELSE from[e].name
    <2>1. /\ (e <= InFirst + 1) = (2 = 1) =>
                d[e].inUse = from[e].inUse /\ d[e].sector = from[e].sector
          /\ (e <= InFirst + 1) # (2 = 1) =>
                d[e].inUse = c[e].inUse /\ d[e].sector = c[e].sector
        BY <1>1, CopiedIs
    <2>2. d[e].name = IF (e <= InFirst) = (2 = 1) THEN from[e].name ELSE c[e].name
        BY <1>1, CopiedIs
    <2> QED BY <2>1, <2>2
<1> HIDE DEF d
<1>5. \A e \in Entry : /\ d[e].inUse = from[e].inUse
                       /\ d[e].sector = from[e].sector
                       /\ d[e].name = from[e].name
    BY <1>2, <1>4
<1>6. d = from
    BY <1>3, <1>5, SameDirectory
<1> QED BY <1>6 DEF c, d

\* The sectors of the files when the headers are h.
SectorsIn(h, dir, e) == {dir[e].sector} \cup SectorsOf(h[dir[e].sector])
ApartIn(h, dir) ==
    /\ \A e \in InUse(dir) : SectorsIn(h, dir, e) \cap System = {}
    /\ \A e, f \in InUse(dir) : e # f =>
          /\ dir[e].name # dir[f].name
          /\ SectorsIn(h, dir, e) \cap SectorsIn(h, dir, f) = {}
MarkedIn(h, dir) == System \cup UNION {SectorsIn(h, dir, e) : e \in InUse(dir)}
\* A file has a name, also where the memory of an entry held none before.
Named(dir) == \A e \in InUse(dir) : dir[e].name \in Name
Settled(h, dir, map) == ApartIn(h, dir) /\ Named(dir) /\ map = MarkedIn(h, dir)

LEMMA WithHeaders ==
    /\ \A dir : Apart(dir) <=> ApartIn(header, dir)
    /\ \A dir : Marked(dir) = MarkedIn(header, dir)
BY DEF Apart, ApartIn, Marked, MarkedIn, FileSectors, SectorsIn

LEMMA MarkedHas ==
    ASSUME NEW h, NEW dir, NEW x
    PROVE  x \in MarkedIn(h, dir) <=>
              x \in System \/ \E e \in InUse(dir) : x \in SectorsIn(h, dir, e)
BY DEF MarkedIn

LEMMA InUseIs ==
    ASSUME NEW dir \in Directories
    PROVE  /\ \A e : e \in InUse(dir) <=> e \in Entry /\ dir[e].inUse
           /\ \A e \in Entry : /\ dir[e].inUse \in BOOLEAN
                               /\ dir[e].sector \in Sector
                               /\ dir[e].name \in Name \cup {NoName}
BY DEF InUse, Directories, DirectoryEntry

\* Headers that are not of the directory do not count.
LEMMA SameHeaders ==
    ASSUME NEW h, NEW g, NEW dir,
           \A e \in InUse(dir) : g[dir[e].sector] = h[dir[e].sector]
    PROVE  /\ ApartIn(g, dir) <=> ApartIn(h, dir)
           /\ MarkedIn(g, dir) = MarkedIn(h, dir)
<1>1. \A e \in InUse(dir) : SectorsIn(g, dir, e) = SectorsIn(h, dir, e)
    BY DEF SectorsIn
<1>2. ApartIn(g, dir) <=> ApartIn(h, dir)
    BY <1>1 DEF ApartIn
<1>3. MarkedIn(g, dir) = MarkedIn(h, dir)
    BY <1>1 DEF MarkedIn
<1> QED BY <1>2, <1>3

LEMMA AddIs ==
    ASSUME NEW old \in Directories, Unused(old) # {}, NEW n \in Name, NEW s \in Sector
    PROVE  \E e \in Entry :
              /\ ~old[e].inUse
              /\ Add(old, n, s) \in Directories
              /\ Add(old, n, s)[e] = [inUse |-> TRUE, sector |-> s, name |-> n]
              /\ \A f \in Entry : f # e => Add(old, n, s)[f] = old[f]
<1> DEFINE e == SetMin(Unused(old))
           new == [inUse |-> TRUE, sector |-> s, name |-> n]
<1>1. e \in Entry /\ ~old[e].inUse
    BY SetMinIs DEF Unused
<1>2. new \in DirectoryEntry
    BY DEF DirectoryEntry
<1>3. Add(old, n, s) = [old EXCEPT ![e] = new]
    BY DEF Add
<1> HIDE DEF e, new
<1>4. /\ Add(old, n, s) \in Directories /\ Add(old, n, s)[e] = new
      /\ \A f \in Entry : f # e => Add(old, n, s)[f] = old[f]
    BY <1>1, <1>2, <1>3 DEF Directories
<1> QED BY <1>1, <1>4 DEF new

\* The entry of a name.
EntryOf(dir, n) == SetMin(FindIndex(dir, n))

LEMMA FindIndexIs ==
    ASSUME NEW dir, NEW n, FindIndex(dir, n) # {}
    PROVE  /\ EntryOf(dir, n) \in InUse(dir)
           /\ dir[EntryOf(dir, n)].name = n
           /\ DirFind(dir, n) = dir[EntryOf(dir, n)].sector
<1>1. FindIndex(dir, n) \in SUBSET Entry
    BY DEF FindIndex
<1>2. SetMin(FindIndex(dir, n)) \in FindIndex(dir, n)
    BY <1>1, SetMinIs
<1> QED BY <1>2 DEF FindIndex, InUse, DirFind, EntryOf

LEMMA DirRemoveIs ==
    ASSUME NEW old \in Directories, NEW n, FindIndex(old, n) # {}
    PROVE  /\ DirRemove(old, n) \in Directories
           /\ DirRemove(old, n)[EntryOf(old, n)].inUse = FALSE
           /\ DirRemove(old, n)[EntryOf(old, n)].sector = old[EntryOf(old, n)].sector
           /\ DirRemove(old, n)[EntryOf(old, n)].name = old[EntryOf(old, n)].name
           /\ \A f \in Entry : f # EntryOf(old, n) => DirRemove(old, n)[f] = old[f]
<1> DEFINE e == EntryOf(old, n)
<1>1. e \in Entry
    BY FindIndexIs DEF InUse
<1>2. DirRemove(old, n) = [old EXCEPT ![e].inUse = FALSE]
    BY DEF DirRemove, EntryOf
<1> HIDE DEF e
<1>3. old[e] \in DirectoryEntry
    BY <1>1 DEF Directories
<1>4. [old[e] EXCEPT !.inUse = FALSE] \in DirectoryEntry
    BY <1>3 DEF DirectoryEntry
<1>5. /\ [old[e] EXCEPT !.inUse = FALSE].inUse = FALSE
      /\ [old[e] EXCEPT !.inUse = FALSE].sector = old[e].sector
      /\ [old[e] EXCEPT !.inUse = FALSE].name = old[e].name
    BY <1>3 DEF DirectoryEntry
<1>6. /\ DirRemove(old, n) \in Directories
      /\ DirRemove(old, n)[e] = [old[e] EXCEPT !.inUse = FALSE]
      /\ \A f \in Entry : f # e => DirRemove(old, n)[f] = old[f]
    BY <1>1, <1>2, <1>4 DEF Directories
<1> QED BY <1>5, <1>6 DEF e

\* A new file that has its header has sectors of its own.
LEMMA AddApart ==
    ASSUME NEW old \in Directories, Unused(old) # {}, NEW n \in Name, NEW s \in Sector,
           NEW h, NEW map, Settled(h, old, map), FindIndex(old, n) = {},
           s \notin map, SectorsOf(h[s]) \cap map = {}
    PROVE  Settled(h, Add(old, n, s), map \cup {s} \cup SectorsOf(h[s]))
<1> DEFINE new == Add(old, n, s)
<1>1. PICK e \in Entry :
          /\ ~old[e].inUse /\ new \in Directories
          /\ new[e] = [inUse |-> TRUE, sector |-> s, name |-> n]
          /\ \A f \in Entry : f # e => new[f] = old[f]
    BY AddIs
<1> HIDE DEF new
<1>2. \A f : f \in InUse(new) <=> f \in InUse(old) \/ f = e
    BY <1>1, InUseIs
<1>3. e \notin InUse(old)
    BY <1>1, InUseIs
<1>4. new[e].sector = s /\ new[e].name = n
    BY <1>1
<1>5. SectorsIn(h, new, e) = {s} \cup SectorsOf(h[s])
    BY <1>4 DEF SectorsIn
<1>6. \A f \in InUse(old) : new[f] = old[f] /\ SectorsIn(h, new, f) = SectorsIn(h, old, f)
    BY <1>1, <1>3, InUseIs DEF SectorsIn
<1>7. \A f \in InUse(old) : old[f].name # n
    BY DEF FindIndex, InUse
<1>8. \A f \in InUse(old) : \A x \in SectorsIn(h, old, f) : x \in map
    BY MarkedHas DEF Settled
<1>9. \A x \in System : x \in map
    BY MarkedHas DEF Settled
<1>10. SectorsIn(h, new, e) \cap map = {}
    BY <1>5
<1>11. ApartIn(h, new)
    <2>1. \A f \in InUse(new) : SectorsIn(h, new, f) \cap System = {}
        BY <1>2, <1>6, <1>9, <1>10 DEF Settled, ApartIn
    <2>2. ASSUME NEW f \in InUse(new), NEW g \in InUse(new), f # g
          PROVE  /\ new[f].name # new[g].name
                 /\ SectorsIn(h, new, f) \cap SectorsIn(h, new, g) = {}
        <3>1. CASE f = e
            <4>1. g \in InUse(old)
                BY <1>2, <2>2, <3>1
            <4> QED BY <1>4, <1>6, <1>7, <1>8, <1>10, <3>1, <4>1
        <3>2. CASE g = e
            <4>1. f \in InUse(old)
                BY <1>2, <2>2, <3>2
            <4> QED BY <1>4, <1>6, <1>7, <1>8, <1>10, <3>2, <4>1
        <3>3. CASE f # e /\ g # e
            <4>1. f \in InUse(old) /\ g \in InUse(old)
                BY <1>2, <3>3
            <4> QED BY <1>6, <2>2, <4>1 DEF Settled, ApartIn
        <3> QED BY <3>1, <3>2, <3>3
    <2> QED BY <2>1, <2>2 DEF ApartIn
<1>12. ASSUME NEW x
       PROVE  x \in MarkedIn(h, new) <=> x \in map \cup {s} \cup SectorsOf(h[s])
    <2>1. x \in MarkedIn(h, new) <=>
             x \in System \/ \E f \in InUse(new) : x \in SectorsIn(h, new, f)
        BY MarkedHas
    <2>2. x \in map <=> x \in System \/ \E f \in InUse(old) : x \in SectorsIn(h, old, f)
        BY MarkedHas DEF Settled
    <2> QED BY <1>2, <1>5, <1>6, <2>1, <2>2
<1>13. MarkedIn(h, new) = map \cup {s} \cup SectorsOf(h[s])
    BY <1>12
<1>14. Named(new)
    BY <1>2, <1>4, <1>6 DEF Settled, Named
<1> QED BY <1>11, <1>13, <1>14 DEF Settled, new

\* What remains when a file is removed, and the map without it.
LEMMA RemoveApart ==
    ASSUME NEW old \in Directories, NEW n, FindIndex(old, n) # {},
           NEW h, NEW map, Settled(h, old, map)
    PROVE  Settled(h, DirRemove(old, n), Deallocate(map, h[DirFind(old, n)], DirFind(old, n)))
<1> DEFINE new == DirRemove(old, n)
           s == DirFind(old, n)
           e == EntryOf(old, n)
<1>1. e \in InUse(old) /\ s = old[e].sector
    BY FindIndexIs
<1>2. /\ new \in Directories /\ new[e].inUse = FALSE
      /\ \A f \in Entry : f # e => new[f] = old[f]
    BY DirRemoveIs
<1> HIDE DEF new, s, e
<1>3. \A f : f \in InUse(new) <=> f \in InUse(old) /\ f # e
    BY <1>1, <1>2, InUseIs
<1>4. \A f \in InUse(new) : new[f] = old[f] /\ SectorsIn(h, new, f) = SectorsIn(h, old, f)
    BY <1>2, <1>3, InUseIs DEF SectorsIn
<1>5. SectorsIn(h, old, e) = {s} \cup SectorsOf(h[s])
    BY <1>1 DEF SectorsIn
<1>6. ApartIn(h, new)
    BY <1>3, <1>4 DEF Settled, ApartIn
<1>7. ASSUME NEW x PROVE x \in MarkedIn(h, new) <=> x \in Deallocate(map, h[s], s)
    <2>1. x \in MarkedIn(h, new) <=>
             x \in System \/ \E f \in InUse(new) : x \in SectorsIn(h, new, f)
        BY MarkedHas
    <2>2. x \in map <=> x \in System \/ \E f \in InUse(old) : x \in SectorsIn(h, old, f)
        BY MarkedHas DEF Settled
    <2>3. x \in Deallocate(map, h[s], s) <=> x \in map /\ x \notin SectorsIn(h, old, e)
        BY <1>5 DEF Deallocate, Clear
    <2>4. x \in System => x \notin SectorsIn(h, old, e)
        BY <1>1 DEF Settled, ApartIn
    <2>5. \A f \in InUse(new) : x \in SectorsIn(h, old, f) => x \notin SectorsIn(h, old, e)
        BY <1>1, <1>3 DEF Settled, ApartIn
    <2> QED BY <1>3, <1>4, <2>1, <2>2, <2>3, <2>4, <2>5
<1>8. MarkedIn(h, new) = Deallocate(map, h[s], s)
    BY <1>7 DEF Deallocate, Clear
<1>9. Named(new)
    BY <1>3, <1>4 DEF Settled, Named
<1> QED BY <1>6, <1>8, <1>9 DEF Settled, new, s

\* With the first sector of a directory that has one more file, it is as it was or
\* names the sector of the new header already.
LEMMA HalfAdded ==
    ASSUME NEW old \in Directories, Unused(old) # {}, NEW n \in Name, NEW s \in Sector
    PROVE  \/ Copied(Add(old, n, s), old, 1) = old
           \/ \E e \in InUse(Copied(Add(old, n, s), old, 1)) :
                 Copied(Add(old, n, s), old, 1)[e].sector = s
<1> DEFINE new == Add(old, n, s)
           c == Copied(new, old, 1)
<1>0. \A f \in Entry : f \in Int /\ InFirst \in Int
    BY SizesOfFiles DEF Entry
<1>1. PICK e \in Entry :
          /\ ~old[e].inUse /\ new \in Directories
          /\ new[e] = [inUse |-> TRUE, sector |-> s, name |-> n]
          /\ \A f \in Entry : f # e => new[f] = old[f]
    BY AddIs
<1>2. new[e].inUse = TRUE /\ new[e].sector = s
    BY <1>1
<1> HIDE DEF new
<1>3. /\ c \in Directories
      /\ \A f \in Entry :
            /\ f <= InFirst + 1 => c[f].inUse = new[f].inUse /\ c[f].sector = new[f].sector
            /\ ~(f <= InFirst + 1) =>
                  c[f].inUse = old[f].inUse /\ c[f].sector = old[f].sector
            /\ c[f].name = IF f <= InFirst THEN new[f].name ELSE old[f].name
    <2>1. c \in Directories
        BY <1>1, CopiedIs
    <2>2. ASSUME NEW f \in Entry
          PROVE  /\ f <= InFirst + 1 =>
                       c[f].inUse = new[f].inUse /\ c[f].sector = new[f].sector
                 /\ ~(f <= InFirst + 1) =>
                       c[f].inUse = old[f].inUse /\ c[f].sector = old[f].sector
                 /\ c[f].name = IF f <= InFirst THEN new[f].name ELSE old[f].name
        <3>1. /\ (f <= InFirst + 1) = (1 = 1) =>
                    c[f].inUse = new[f].inUse /\ c[f].sector = new[f].sector
              /\ (f <= InFirst + 1) # (1 = 1) =>
                    c[f].inUse = old[f].inUse /\ c[f].sector = old[f].sector
            BY <1>1, CopiedIs
        <3>2. c[f].name = IF (f <= InFirst) = (1 = 1) THEN new[f].name ELSE old[f].name
            BY <1>1, CopiedIs
        <3> QED BY <3>1, <3>2
    <2> QED BY <2>1, <2>2
<1> HIDE DEF c
<1>4. CASE e <= InFirst + 1
    <2>1. c[e].inUse = TRUE /\ c[e].sector = s
        BY <1>2, <1>3, <1>4
    <2>2. e \in InUse(c)
        BY <2>1 DEF InUse
    <2> QED BY <2>1, <2>2 DEF c, new
<1>5. CASE ~(e <= InFirst + 1)
    <2>1. ASSUME NEW f \in Entry
          PROVE  /\ c[f].inUse = old[f].inUse /\ c[f].sector = old[f].sector
                 /\ c[f].name = old[f].name
        <3>1. CASE f = e
            <4>1. ~(e <= InFirst)
                BY <1>0, <1>5
            <4> QED BY <1>3, <1>5, <3>1, <4>1
        <3>2. CASE f # e
            <4>1. new[f] = old[f]
                BY <1>1, <3>2
            <4> QED BY <1>3, <4>1
        <3> QED BY <3>1, <3>2
    <2>2. c = old
        BY <1>3, <2>1, SameDirectory
    <2> QED BY <2>2 DEF c, new
<1> QED BY <1>4, <1>5

\* With one that has a file less, it is the one or the other.
LEMMA HalfRemoved ==
    ASSUME NEW old \in Directories, NEW n, FindIndex(old, n) # {}
    PROVE  \/ Copied(DirRemove(old, n), old, 1) = old
           \/ Copied(DirRemove(old, n), old, 1) = DirRemove(old, n)
<1> DEFINE new == DirRemove(old, n)
           c == Copied(new, old, 1)
           e == EntryOf(old, n)
<1>0. e \in Entry
    BY FindIndexIs DEF InUse
<1>1. /\ new \in Directories
      /\ new[e].sector = old[e].sector /\ new[e].name = old[e].name
      /\ \A f \in Entry : f # e => new[f] = old[f]
    BY DirRemoveIs
<1> HIDE DEF new, e
<1>3. /\ c \in Directories
      /\ \A f \in Entry :
            /\ f <= InFirst + 1 => c[f].inUse = new[f].inUse /\ c[f].sector = new[f].sector
            /\ ~(f <= InFirst + 1) =>
                  c[f].inUse = old[f].inUse /\ c[f].sector = old[f].sector
            /\ c[f].name = IF f <= InFirst THEN new[f].name ELSE old[f].name
    <2>1. c \in Directories
        BY <1>1, CopiedIs
    <2>2. ASSUME NEW f \in Entry
          PROVE  /\ f <= InFirst + 1 =>
                       c[f].inUse = new[f].inUse /\ c[f].sector = new[f].sector
                 /\ ~(f <= InFirst + 1) =>
                       c[f].inUse = old[f].inUse /\ c[f].sector = old[f].sector
                 /\ c[f].name = IF f <= InFirst THEN new[f].name ELSE old[f].name
        <3>1. /\ (f <= InFirst + 1) = (1 = 1) =>
                    c[f].inUse = new[f].inUse /\ c[f].sector = new[f].sector
              /\ (f <= InFirst + 1) # (1 = 1) =>
                    c[f].inUse = old[f].inUse /\ c[f].sector = old[f].sector
            BY <1>1, CopiedIs
        <3>2. c[f].name = IF (f <= InFirst) = (1 = 1) THEN new[f].name ELSE old[f].name
            BY <1>1, CopiedIs
        <3> QED BY <3>1, <3>2
    <2> QED BY <2>1, <2>2
<1> HIDE DEF c
<1>4. \A f \in Entry : new[f].sector = old[f].sector /\ new[f].name = old[f].name
    BY <1>0, <1>1
<1>5. CASE e <= InFirst + 1
    <2>1. \A f \in Entry : c[f].inUse = new[f].inUse
        BY <1>0, <1>1, <1>3, <1>5
    <2>2. c = new
        BY <1>1, <1>3, <1>4, <2>1, SameDirectory
    <2> QED BY <2>2 DEF c, new
<1>6. CASE ~(e <= InFirst + 1)
    <2>1. \A f \in Entry : c[f].inUse = old[f].inUse
        BY <1>0, <1>1, <1>3, <1>6
    <2>2. c = old
        BY <1>3, <1>4, <2>1, SameDirectory
    <2> QED BY <2>2 DEF c, new
<1> QED BY <1>5, <1>6

-----------------------------------------------------------------------------
(* The operations that change the directory                                *)

\* A thread is about to create or remove a file, or will be.
Changing(t) == phase[t] # "idle" /\ op[t].op \in {"create", "remove"}
MayChange(t) == Changing(t) \/ ChangesFiles(script[t])
OneChanges == \A t, u \in Caller : MayChange(t) /\ MayChange(u) => t = u

\* The others store nothing but data.
OthersHarmless ==
    \A t \in Caller : ~Changing(t) =>
        \A i \in DOMAIN pending[t] : pending[t][i].io = "store" => pending[t][i].what = "data"

\* Where an operation is, with the headers, directory and map of the disk, what is
\* pending and what the thread fetched.
LookingUp(h, dir, map, p, db) ==
    /\ Settled(h, dir, map)
    /\ \/ p = FetchDirectory
       \/ p = <<Fetch_("directory", 2)>> /\ Copied(dir, db, 2) = dir
       \/ p = <<>> /\ db = dir

Allocating(h, dir, map, n, p, db, mb) ==
    /\ Settled(h, dir, map)
    /\ db = dir /\ FindIndex(dir, n) = {}
    /\ \/ p = <<Fetch_("map", 0)>>
       \/ p = <<>> /\ mb = map

Freeing(h, dir, map, n, p, db, mb, hb) ==
    /\ Settled(h, dir, map)
    /\ db = dir /\ FindIndex(dir, n) # {}
    /\ \/ p = <<Fetch_("header", DirFind(dir, n)), Fetch_("map", 0)>>
       \/ p = <<Fetch_("map", 0)>> /\ hb = h[DirFind(dir, n)]
       \/ p = <<>> /\ hb = h[DirFind(dir, n)] /\ mb = map

\* Create: header s with hdr, then the directory with both sectors, then the map.
NewFile(h, n, db, mb, s, hdr) ==
    /\ Settled(h, db, mb)
    /\ FindIndex(db, n) = {} /\ Unused(db) # {}
    /\ s \notin mb /\ s \notin SectorsOf(hdr) /\ SectorsOf(hdr) \cap mb = {}
StoreNew(n, db, s, k) == Store_("directory", k, Add(db, n, s))
NewMap(mb, s, hdr) == mb \cup {s} \cup SectorsOf(hdr)
StoreNewMap(mb, s, hdr) == Store_("map", 0, NewMap(mb, s, hdr))
CreateStage(h, dir, map, n, p, db, mb, s, hdr) ==
    \/ /\ p = <<Store_("header", s, hdr), StoreNew(n, db, s, 1), StoreNew(n, db, s, 2),
                StoreNewMap(mb, s, hdr)>>
       /\ dir = db /\ map = mb
    \/ /\ p = <<StoreNew(n, db, s, 1), StoreNew(n, db, s, 2), StoreNewMap(mb, s, hdr)>>
       /\ h[s] = hdr /\ dir = db /\ map = mb
    \/ /\ p = <<StoreNew(n, db, s, 2), StoreNewMap(mb, s, hdr)>>
       /\ h[s] = hdr /\ dir = Copied(Add(db, n, s), db, 1) /\ map = mb
    \/ /\ p = <<StoreNewMap(mb, s, hdr)>>
       /\ h[s] = hdr /\ dir = Add(db, n, s) /\ map = mb
    \/ /\ p = <<>>
       /\ h[s] = hdr /\ dir = Add(db, n, s) /\ map = NewMap(mb, s, hdr)
Creating(h, dir, map, n, p, db, mb) ==
    \E s \in Sector : \E hdr \in GoodHeader :
        NewFile(h, n, db, mb, s, hdr) /\ CreateStage(h, dir, map, n, p, db, mb, s, hdr)

\* Remove: the map, then both sectors of the directory.
OldFile(h, n, db, mb, hb) ==
    Settled(h, db, mb) /\ FindIndex(db, n) # {} /\ hb = h[DirFind(db, n)]
StoreOld(n, db, k) == Store_("directory", k, DirRemove(db, n))
OldMap(n, db, mb, hb) == Deallocate(mb, hb, DirFind(db, n))
StoreOldMap(n, db, mb, hb) == Store_("map", 0, OldMap(n, db, mb, hb))
Removing(h, dir, map, n, p, db, mb, hb) ==
    /\ OldFile(h, n, db, mb, hb)
    /\ \/ /\ p = <<StoreOldMap(n, db, mb, hb), StoreOld(n, db, 1), StoreOld(n, db, 2)>>
          /\ dir = db /\ map = mb
       \/ /\ p = <<StoreOld(n, db, 1), StoreOld(n, db, 2)>>
          /\ dir = db /\ map = OldMap(n, db, mb, hb)
       \/ /\ p = <<StoreOld(n, db, 2)>>
          /\ dir = Copied(DirRemove(db, n), db, 1) /\ map = OldMap(n, db, mb, hb)
       \/ /\ p = <<>>
          /\ dir = DirRemove(db, n) /\ map = OldMap(n, db, mb, hb)

Change(ph, o, h, dir, map, p, db, mb, hb) ==
    \/ ph = "look" /\ LookingUp(h, dir, map, p, db)
    \/ ph = "allocate" /\ o.op = "create" /\ Allocating(h, dir, map, o.name, p, db, mb)
    \/ ph = "free" /\ o.op = "remove" /\ Freeing(h, dir, map, o.name, p, db, mb, hb)
    \/ ph = "ends" /\ o.op = "create" /\ Creating(h, dir, map, o.name, p, db, mb)
    \/ ph = "ends" /\ o.op = "remove" /\ Removing(h, dir, map, o.name, p, db, mb, hb)

ChangeInv ==
    \A t \in Caller : Changing(t) =>
        Change(phase[t], op[t], header, directory, freeMap, pending[t],
               dirBuf[t], mapBuf[t], hdrBuf[t])
QuietInv == ~lost /\ (\A t \in Caller : ~Changing(t)) => Settled(header, directory, freeMap)
StopInv ==
    /\ ~running => \A t \in Caller : phase[t] = "idle"
    /\ \A t \in Caller : phase[t] = "idle" => pending[t] = <<>>

FilesInv ==
    /\ FilesTypeOK /\ MergeInv
    /\ OneChanges /\ OthersHarmless
    /\ ChangeInv /\ QuietInv /\ StopInv

-----------------------------------------------------------------------------
(* Types                                                                   *)

LEMMA IOTyped ==
    /\ \A k \in {1, 2} : Fetch_("directory", k) \in SectorIO
    /\ Fetch_("map", 0) \in SectorIO
    /\ \A s \in Sector : /\ Fetch_("header", s) \in SectorIO
                         /\ Fetch_("data", s) \in SectorIO
    /\ \A k \in {1, 2}, d \in Directories : Store_("directory", k, d) \in SectorIO
    /\ \A map \in SUBSET Sector : Store_("map", 0, map) \in SectorIO
    /\ \A s \in Sector, h \in GoodHeader : Store_("header", s, h) \in SectorIO
    /\ \A s \in Sector, c \in Contents : Store_("data", s, c) \in SectorIO
BY DEF Fetch_, Store_, SectorIO, Fetches, DirectoryStores, MapStores, HeaderStores,
       DataStores

LEMMA SectorsTyped ==
    /\ System \subseteq Sector
    /\ FreeMapSector \in Sector /\ DirectorySector \in Sector
    /\ <<MapSector>> \in [1..1 -> Sector] /\ DirSectors \in [1..2 -> Sector]
    /\ System = {0, 1, 2, 3, 4}
<1>1. \A x \in {0, 1, 2, 3, 4} : x \in Sector
    BY SizesOfFiles DEF Sector
<1>2. ToSet(DirSectors) = {3, 4}
    BY DEF ToSet, DirSectors
<1> QED BY <1>1, <1>2 DEF System, FreeMapSector, DirectorySector, MapSector, DirSectors

LEMMA HeadersTyped ==
    /\ NoHeader \in GoodHeader
    /\ [numBytes |-> SectorSize, dataSectors |-> <<MapSector>>] \in GoodHeader
    /\ [numBytes |-> 2 * SectorSize, dataSectors |-> DirSectors] \in GoodHeader
<1>1. /\ 0 \in 0..MaxUnits /\ SectorSize \in 0..MaxUnits /\ 2 * SectorSize \in 0..MaxUnits
    BY SizesOfFiles DEF MaxUnits
<1>2. /\ divRoundUp(0, SectorSize) = 0 /\ divRoundUp(SectorSize, SectorSize) = 1
      /\ divRoundUp(2 * SectorSize, SectorSize) = 2
    BY SizesOfFiles, RoundUpOf
<1>3. <<>> \in [1..0 -> Sector]
    OBVIOUS
<1>4. NoHeader \in GoodHeader
    BY <1>1, <1>2, <1>3, MakesHeader DEF NoHeader
<1>5. [numBytes |-> SectorSize, dataSectors |-> <<MapSector>>] \in GoodHeader
    BY <1>1, <1>2, SectorsTyped, MakesHeader
<1>6. [numBytes |-> 2 * SectorSize, dataSectors |-> DirSectors] \in GoodHeader
    BY <1>1, <1>2, SectorsTyped, MakesHeader
<1> QED BY <1>4, <1>5, <1>6

LEMMA EmptyTyped ==
    /\ Empty \in Directories
    /\ \A n \in Name \cup {NoName} :
          [e \in Entry |-> [NoEntry EXCEPT !.name = n]] \in Directories
    /\ Zeros \in Contents
    /\ NoFile \in FileInMemory
<1>1. 0 \in Sector
    BY SizesOfFiles DEF Sector
<1>2. NoEntry \in DirectoryEntry
    BY <1>1 DEF NoEntry, DirectoryEntry
<1>3. \A n \in Name \cup {NoName} : [NoEntry EXCEPT !.name = n] \in DirectoryEntry
    BY <1>1 DEF NoEntry, DirectoryEntry
<1>4. Zeros \in Contents
    BY FilesAssumption DEF Zeros, Contents
<1>5. NoFile \in FileInMemory
    BY HeadersTyped DEF NoFile, FileInMemory
<1> QED BY <1>2, <1>3, <1>4, <1>5 DEF Empty, Directories

LEMMA FilesInitTyped ==
    ASSUME FilesInit
    PROVE  FilesTypeOK
<1>1. DiskTyped
    BY EmptyTyped, HeadersTyped DEF FilesInit, DiskTyped
<1>2. BuffersTyped
    BY EmptyTyped, HeadersTyped DEF FilesInit, BuffersTyped
<1>3. ControlTyped
    BY EmptyTyped, ScriptsAssumption DEF FilesInit, ControlTyped, Phase
<1>4. MachineTyped
    BY DEF FilesInit, MachineTyped
<1> QED BY <1>1, <1>2, <1>3, <1>4 DEF FilesTypeOK

\* What the next sector is, of those that are pending.
LEMMA NextIO ==
    ASSUME NEW p \in Seq(SectorIO), p # <<>>
    PROVE  /\ Head(p) \in SectorIO /\ Tail(p) \in Seq(SectorIO)
           /\ Len(Tail(p)) = Len(p) - 1
           /\ \A i \in DOMAIN Tail(p) : i + 1 \in DOMAIN p /\ Tail(p)[i] = p[i + 1]
OBVIOUS

LEMMA FetchIs ==
    ASSUME NEW x \in SectorIO, x.io = "fetch"
    PROVE  /\ x.what \in {"directory", "map", "header", "data"}
           /\ x.what = "directory" => x.at \in {1, 2}
           /\ x.what \in {"header", "data"} => x.at \in Sector
BY DEF SectorIO, Fetches, DirectoryStores, MapStores, HeaderStores, DataStores

LEMMA StoreIs ==
    ASSUME NEW x \in SectorIO, x.io = "store"
    PROVE  /\ x.what \in {"directory", "map", "header", "data"}
           /\ x.what = "directory" => x.at \in {1, 2} /\ x.data \in Directories
           /\ x.what = "map" => x.data \in SUBSET Sector
           /\ x.what = "header" => x.at \in Sector /\ x.data \in GoodHeader
           /\ x.what = "data" => x.at \in Sector /\ x.data \in Contents
BY DEF SectorIO, Fetches, DirectoryStores, MapStores, HeaderStores, DataStores

LEMMA FetchTyped ==
    ASSUME FilesTypeOK, NEW t \in Caller, Fetch(t)
    PROVE  FilesTypeOK'
<1> USE DEF FilesTypeOK
<1>1. pending[t] \in Seq(SectorIO) /\ pending[t] # <<>>
    BY DEF Fetch, Ready, ControlTyped
<1>2. PICK x \in SectorIO : x = IO(t) /\ x.io = "fetch"
    BY <1>1, NextIO DEF Fetch, IO
<1>3. ControlTyped'
    BY <1>1, NextIO DEF Fetch, ControlTyped
<1>4. BuffersTyped'
    <2>1. CASE x.what = "directory"
        <3>1. dirBuf' = [dirBuf EXCEPT ![t] = Copied(directory, @, x.at)]
              /\ UNCHANGED <<mapBuf, hdrBuf, buf>>
            BY <1>2, <2>1 DEF Fetch
        <3>2. Copied(directory, dirBuf[t], x.at) \in Directories
            BY <1>2, <2>1, FetchIs, CopiedIs DEF DiskTyped, BuffersTyped
        <3> QED BY <3>1, <3>2 DEF BuffersTyped
    <2>2. CASE x.what = "map"
        <3>1. mapBuf' = [mapBuf EXCEPT ![t] = freeMap] /\ UNCHANGED <<dirBuf, hdrBuf, buf>>
            BY <1>2, <2>2 DEF Fetch, MapFetchFrom
        <3> QED BY <3>1 DEF BuffersTyped, DiskTyped
    <2>3. CASE x.what = "header"
        <3>1. hdrBuf' = [hdrBuf EXCEPT ![t] = header[x.at]]
              /\ UNCHANGED <<dirBuf, mapBuf, buf>>
            BY <1>2, <2>3 DEF Fetch
        <3>2. header[x.at] \in GoodHeader
            BY <1>2, <2>3, FetchIs DEF DiskTyped
        <3> QED BY <3>1, <3>2 DEF BuffersTyped
    <2>4. CASE x.what = "data"
        <3>1. buf' = [buf EXCEPT ![t] = Append(@, data[x.at])]
              /\ UNCHANGED <<dirBuf, mapBuf, hdrBuf>>
            BY <1>2, <2>4 DEF Fetch
        <3>2. data[x.at] \in Contents
            BY <1>2, <2>4, FetchIs DEF DiskTyped
        <3>3. Append(buf[t], data[x.at]) \in Seq(Contents)
            BY <3>2 DEF BuffersTyped
        <3> HIDE DEF Contents
        <3> QED BY <3>1, <3>3 DEF BuffersTyped
    <2> QED BY <1>2, <2>1, <2>2, <2>3, <2>4, FetchIs
<1>5. DiskTyped'
    BY DEF Fetch, disk, DiskTyped
<1>6. MachineTyped'
    <2>1. lost' \in BOOLEAN
        <3>1. lost' = (IO(t).what = "header" /\ IO(t).at \in overwritten)
            BY DEF Fetch
        <3> QED BY <3>1, Zenon
    <2> QED BY <2>1 DEF Fetch, MachineTyped
<1> QED BY <1>3, <1>4, <1>5, <1>6

LEMMA StoreTyped ==
    ASSUME FilesTypeOK, NEW t \in Caller, Store(t)
    PROVE  FilesTypeOK'
<1> USE DEF FilesTypeOK
<1>1. pending[t] \in Seq(SectorIO) /\ pending[t] # <<>>
    BY DEF Store, Ready, ControlTyped
<1>2. PICK x \in SectorIO : x = IO(t) /\ x.io = "store"
    BY <1>1, NextIO DEF Store, IO
<1>3. ControlTyped'
    BY <1>1, NextIO DEF Store, ControlTyped
<1>4. /\ freeMap' \in SUBSET Sector /\ directory' \in Directories
      /\ header' \in [Sector -> GoodHeader] /\ data' \in [Sector -> Contents]
    <2>1. CASE x.what = "directory"
        <3>1. directory' = Copied(x.data, directory, x.at) /\ UNCHANGED <<freeMap, header, data>>
            BY <1>2, <2>1 DEF Store
        <3>2. directory' \in Directories
            BY <1>2, <2>1, <3>1, StoreIs, CopiedIs DEF DiskTyped
        <3> QED BY <3>1, <3>2 DEF DiskTyped
    <2>2. CASE x.what = "map"
        <3>1. freeMap' = x.data /\ UNCHANGED <<directory, header, data>>
            BY <1>2, <2>2 DEF Store, MapWriteBack
        <3> QED BY <1>2, <2>2, <3>1, StoreIs DEF DiskTyped
    <2>3. CASE x.what = "header"
        <3>1. header' = [header EXCEPT ![x.at] = x.data]
              /\ UNCHANGED <<freeMap, directory, data>>
            BY <1>2, <2>3 DEF Store
        <3> QED BY <1>2, <2>3, <3>1, StoreIs DEF DiskTyped
    <2>4. CASE x.what = "data"
        <3>1. data' = [data EXCEPT ![x.at] = x.data]
              /\ UNCHANGED <<freeMap, directory, header>>
            BY <1>2, <2>4 DEF Store
        <3> QED BY <1>2, <2>4, <3>1, StoreIs DEF DiskTyped
    <2> QED BY <1>2, <2>1, <2>2, <2>3, <2>4, StoreIs
<1>5. DiskTyped'
    <2>1. overwritten' \in SUBSET Sector
        <3>1. x.what \in {"header", "data"} => x.at \in Sector
            BY <1>2, StoreIs
        <3>2. \/ overwritten' = overwritten
              \/ x.what \in {"header", "data"} /\ overwritten' = overwritten \ {x.at}
              \/ x.what \in {"header", "data"} /\ overwritten' = overwritten \cup {x.at}
            BY <1>2 DEF Store
        <3> QED BY <3>1, <3>2 DEF DiskTyped
    <2> QED BY <1>4, <2>1 DEF DiskTyped
<1>6. BuffersTyped'
    BY DEF Store, buffers, BuffersTyped
<1>7. MachineTyped'
    <2>1. lost' \in BOOLEAN
        <3>1. lost' = (IO(t).what = "data" /\ Spoils(IO(t).at))
            BY DEF Store
        <3> QED BY <3>1, Zenon
    <2> QED BY <2>1 DEF Store, MachineTyped
<1> QED BY <1>3, <1>5, <1>6, <1>7

\* The operation a thread begins is one of its program.
LEMMA BeginsIs ==
    ASSUME FilesTypeOK, NEW t \in Caller, NEW o, Begins(t, o)
    PROVE  /\ o \in FileOperation
           /\ script' \in [Caller -> Seq(SUBSET FileOperation)]
           /\ op' \in [Caller -> FileOperation \cup {NoOperation}]
           /\ op'[t] = o
<1>1. script[t] \in Seq(SUBSET FileOperation) /\ script[t] # <<>>
    BY DEF Begins, FilesTypeOK, ControlTyped
<1>2. Head(script[t]) \in SUBSET FileOperation /\ Tail(script[t]) \in Seq(SUBSET FileOperation)
    BY <1>1, HeadTailProperties
<1>3. o \in FileOperation
    BY <1>2 DEF Begins
<1>4. script' \in [Caller -> Seq(SUBSET FileOperation)]
    BY <1>2 DEF Begins, FilesTypeOK, ControlTyped
<1>5. op' \in [Caller -> FileOperation \cup {NoOperation}] /\ op'[t] = o
    BY <1>3 DEF Begins, FilesTypeOK, ControlTyped
<1> QED BY <1>3, <1>4, <1>5

LEMMA OperationIs ==
    /\ \A o \in FileOperation \cup {NoOperation} :
          /\ o.size \in Nat /\ o.value \in Value /\ o.skip \in Nat
          /\ o.least \in Nat /\ o.name \in Name \cup {NoName}
    /\ \A o \in FileOperation :
          /\ o.op \in {"create", "remove", "open"} => o.name \in Name
          /\ o.op = "create" => o.size \in 0..MaxUnits
    /\ NoOperation.op = "none"
<1>1. \A o \in FileOperation :
          /\ o.size \in Nat /\ o.value \in Value /\ o.skip \in Nat
          /\ o.least \in Nat /\ o.name \in Name \cup {NoName}
          /\ o.op \in {"create", "remove", "open"} => o.name \in Name
          /\ o.op = "create" => o.size <= MaxUnits
    BY DEF FileOperation
<1> QED BY <1>1, FilesAssumption, SizesOfFiles DEF NoOperation

\* What follows in a program is part of the program.
LEMMA RestTyped ==
    ASSUME FilesTypeOK, NEW t \in Caller, NEW i \in Nat,
           script' = [script EXCEPT ![t] = SubSeq(@, i + 1, Len(@))]
    PROVE  script' \in [Caller -> Seq(SUBSET FileOperation)]
<1>1. script[t] \in Seq(SUBSET FileOperation)
    BY DEF FilesTypeOK, ControlTyped
<1>2. SubSeq(script[t], i + 1, Len(script[t])) \in Seq(SUBSET FileOperation)
    <2>1. \A j \in (i + 1)..Len(script[t]) : script[t][j] \in SUBSET FileOperation
        BY <1>1
    <2> QED BY <1>1, <2>1, SubSeqProperties
<1> QED BY <1>2 DEF FilesTypeOK, ControlTyped

LEMMA GivesUpTyped ==
    ASSUME FilesTypeOK, NEW t \in Caller, GivesUp(t)
    PROVE  script' \in [Caller -> Seq(SUBSET FileOperation)]
<1>1. op[t].skip \in Nat
    BY OperationIs DEF FilesTypeOK, ControlTyped
<1> QED BY <1>1, RestTyped DEF GivesUp

\* Read and Write touch sectors that the file has.
LEMMA InsideFile ==
    ASSUME FilesTypeOK, NEW t \in Caller, NEW k \in Nat, NEW n, n = Amount(t, k), n > 0
    PROVE  /\ n \in Nat /\ FirstSector(t) \in Nat /\ LastSector(t, n) \in Nat
           /\ FirstSector(t) <= LastSector(t, n)
           /\ \A i \in FirstSector(t)..LastSector(t, n) :
                 file[t].hdr.dataSectors[i] \in Sector
<1>1. file[t] \in FileInMemory
    BY DEF FilesTypeOK, ControlTyped
<1>2. PICK hdr \in GoodHeader, seek \in Nat : hdr = file[t].hdr /\ seek = file[t].seek
    BY <1>1 DEF FileInMemory
<1>3. PICK total \in Nat : total = hdr.numBytes
    BY HeaderIs, SizesOfFiles
<1>4. /\ hdr.dataSectors \in Seq(Sector)
      /\ Len(hdr.dataSectors) = divRoundUp(total, SectorSize)
    BY <1>3, HeaderIs
<1>5. n \in Nat /\ seek + n <= total
    BY <1>2, <1>3 DEF Amount
<1>6. FirstSector(t) = 1 + (seek \div SectorSize)
    BY <1>2 DEF FirstSector
<1>7. LastSector(t, n) = 1 + ((seek + n - 1) \div SectorSize)
    BY <1>2 DEF LastSector
<1>8. PICK last \in Nat : last = seek + n - 1
    BY <1>5
<1>9. /\ seek \div SectorSize \in Nat /\ last \div SectorSize \in Nat
      /\ seek \div SectorSize <= last \div SectorSize
      /\ last \div SectorSize < divRoundUp(total, SectorSize)
    <2>1. seek < total /\ last < total /\ seek <= last
        BY <1>5, <1>8
    <2>2. seek \div SectorSize \in Nat
        BY <2>1, SizesOfFiles, RoundUp
    <2>3. last \div SectorSize \in Nat /\ last \div SectorSize < divRoundUp(total, SectorSize)
        BY <2>1, SizesOfFiles, RoundUp
    <2>4. seek \in Int /\ last \in Int
        OBVIOUS
    <2>5. seek \div SectorSize <= last \div SectorSize
        BY <2>1, <2>4, SizesOfFiles, Earlier
    <2> QED BY <2>2, <2>3, <2>5
<1>10. /\ FirstSector(t) \in Nat /\ LastSector(t, n) \in Nat
       /\ FirstSector(t) <= LastSector(t, n) /\ 1 <= FirstSector(t)
       /\ LastSector(t, n) <= Len(hdr.dataSectors)
    BY <1>4, <1>6, <1>7, <1>8, <1>9
<1>11. \A i \in FirstSector(t)..LastSector(t, n) : hdr.dataSectors[i] \in Sector
    BY <1>4, <1>10
<1> QED BY <1>2, <1>5, <1>10, <1>11

\* Lists of sectors.
LEMMA Lists ==
    ASSUME NEW S, NEW x1 \in S, NEW x2 \in S, NEW x3 \in S, NEW x4 \in S
    PROVE  /\ <<>> \in Seq(S) /\ <<x1>> \in Seq(S) /\ <<x1, x2>> \in Seq(S)
           /\ <<x1, x2, x3>> \in Seq(S) /\ <<x1, x2, x3, x4>> \in Seq(S)
OBVIOUS

LEMMA Joined ==
    ASSUME NEW S, NEW x1 \in S, NEW x2 \in S, NEW x3 \in S, NEW x4 \in S
    PROVE  /\ <<x1>> \o <<x2, x3>> = <<x1, x2, x3>>
           /\ <<x1>> \o <<x2, x3>> \o <<x4>> = <<x1, x2, x3, x4>>
<1>1. PICK a \in Seq(S) : a = <<x1>>
    BY Lists
<1>2. PICK b \in Seq(S) : b = <<x2, x3>>
    BY Lists
<1>3. PICK c \in Seq(S) : c = <<x1, x2, x3>>
    BY Lists
<1>4. PICK d \in Seq(S) : d = <<x4>>
    BY Lists
<1>5. PICK e \in Seq(S) : e = <<x1, x2, x3, x4>>
    BY Lists
<1>6. /\ Len(a) = 1 /\ a[1] = x1
      /\ Len(b) = 2 /\ b[1] = x2 /\ b[2] = x3
      /\ Len(c) = 3 /\ c[1] = x1 /\ c[2] = x2 /\ c[3] = x3
      /\ Len(d) = 1 /\ d[1] = x4
      /\ Len(e) = 4 /\ e[1] = x1 /\ e[2] = x2 /\ e[3] = x3 /\ e[4] = x4
    BY <1>1, <1>2, <1>3, <1>4, <1>5
<1>7. a \o b = c
    <2>0. /\ a \o b \in Seq(S) /\ Len(a \o b) = Len(a) + Len(b)
          /\ \A i \in 1..(Len(a) + Len(b)) :
                (a \o b)[i] = IF i <= Len(a) THEN a[i] ELSE b[i - Len(a)]
        BY ConcatProperties
    <2>1. PICK q \in Seq(S) :
             /\ q = a \o b /\ Len(q) = Len(a) + Len(b)
             /\ \A i \in 1..(Len(a) + Len(b)) :
                   q[i] = IF i <= Len(a) THEN a[i] ELSE b[i - Len(a)]
        BY <2>0, Zenon
    <2>2. /\ Len(q) = 3
          /\ \A i \in 1..3 : q[i] = IF i <= 1 THEN a[i] ELSE b[i - 1]
        BY <1>6, <2>1
    <2>3. q[1] = c[1] /\ q[2] = c[2] /\ q[3] = c[3]
        BY <1>6, <2>2
    <2>4. \A i \in 1..Len(q) : q[i] = c[i]
        BY <2>2, <2>3
    <2>5. Len(q) = Len(c)
        BY <1>6, <2>2
    <2>6. q = c
        BY <2>4, <2>5, SeqEqual
    <2> QED BY <2>1, <2>6
<1>8. c \o d = e
    <2>0. /\ c \o d \in Seq(S) /\ Len(c \o d) = Len(c) + Len(d)
          /\ \A i \in 1..(Len(c) + Len(d)) :
                (c \o d)[i] = IF i <= Len(c) THEN c[i] ELSE d[i - Len(c)]
        BY ConcatProperties
    <2>1. PICK q \in Seq(S) :
             /\ q = c \o d /\ Len(q) = Len(c) + Len(d)
             /\ \A i \in 1..(Len(c) + Len(d)) :
                   q[i] = IF i <= Len(c) THEN c[i] ELSE d[i - Len(c)]
        BY <2>0, Zenon
    <2>2. /\ Len(q) = 4
          /\ \A i \in 1..4 : q[i] = IF i <= 3 THEN c[i] ELSE d[i - 3]
        BY <1>6, <2>1
    <2>3. q[1] = e[1] /\ q[2] = e[2] /\ q[3] = e[3] /\ q[4] = e[4]
        BY <1>6, <2>2
    <2>4. \A i \in 1..Len(q) : q[i] = e[i]
        BY <2>2, <2>3
    <2>5. Len(q) = Len(e)
        BY <1>6, <2>2
    <2>6. q = e
        BY <2>4, <2>5, SeqEqual
    <2> QED BY <2>1, <2>6
<1> QED BY <1>1, <1>2, <1>3, <1>4, <1>5, <1>7, <1>8

\* A thread that only goes on in its operation.
LEMMA ThenTyped ==
    ASSUME FilesTypeOK, NEW t \in Caller, NEW where \in Phase, NEW io \in Seq(SectorIO),
           Then(t, where, io)
    PROVE  /\ phase' \in [Caller -> Phase]
           /\ pending' \in [Caller -> Seq(SectorIO)]
           /\ phase'[t] = where /\ pending'[t] = io
BY DEF Then, FilesTypeOK, ControlTyped

LEMMA IdleTyped ==
    ASSUME FilesTypeOK, NEW t \in Caller, NEW where \in Phase, Then(t, where, <<>>)
    PROVE  /\ phase' \in [Caller -> Phase]
           /\ pending' \in [Caller -> Seq(SectorIO)]
BY DEF Then, FilesTypeOK, ControlTyped

LEMMA LookTyped ==
    ASSUME FilesTypeOK, NEW t \in Caller, Look(t)
    PROVE  FilesTypeOK'
<1>1. PICK o : /\ Begins(t, o) /\ Then(t, "look", FetchDirectory)
               /\ UNCHANGED <<disk, buffers, file, machine>>
    BY DEF Look
<1>2. FetchDirectory \in Seq(SectorIO)
    BY IOTyped DEF FetchDirectory
<1>3. phase' \in [Caller -> Phase] /\ pending' \in [Caller -> Seq(SectorIO)]
    BY <1>1, <1>2, ThenTyped DEF Phase
<1>4. /\ script' \in [Caller -> Seq(SUBSET FileOperation)]
      /\ op' \in [Caller -> FileOperation \cup {NoOperation}]
    BY <1>1, BeginsIs
<1>5. ControlTyped'
    BY <1>1, <1>3, <1>4 DEF FilesTypeOK, ControlTyped
<1> QED BY <1>1, <1>5
        DEF FilesTypeOK, DiskTyped, BuffersTyped, MachineTyped, disk, buffers, machine

LEMMA NotFoundTyped ==
    ASSUME FilesTypeOK, NEW t \in Caller, NotFound(t)
    PROVE  FilesTypeOK'
<1>1. phase' \in [Caller -> Phase] /\ pending' \in [Caller -> Seq(SectorIO)]
    BY IdleTyped DEF NotFound, Phase
<1>2. script' \in [Caller -> Seq(SUBSET FileOperation)]
    BY GivesUpTyped DEF NotFound
<1>3. file' \in [Caller -> FileInMemory]
    BY EmptyTyped DEF NotFound, FilesTypeOK, ControlTyped
<1>4. ControlTyped'
    BY <1>1, <1>2, <1>3 DEF NotFound, FilesTypeOK, ControlTyped
<1> QED BY <1>4 DEF NotFound, FilesTypeOK, DiskTyped, BuffersTyped, MachineTyped, disk,
                    buffers, machine

LEMMA FindTyped ==
    ASSUME NEW dir \in Directories, NEW n, FindIndex(dir, n) # {}
    PROVE  DirFind(dir, n) \in Sector
BY FindIndexIs, InUseIs

LEMMA FoundTyped ==
    ASSUME FilesTypeOK, NEW t \in Caller, Found(t)
    PROVE  FilesTypeOK'
<1> USE DEF FilesTypeOK
<1>1. dirBuf[t] \in Directories
    BY DEF BuffersTyped
<1>2. phase' \in [Caller -> Phase] /\ pending' \in [Caller -> Seq(SectorIO)]
    <2>1. CASE Then(t, "allocate", <<Fetch_("map", 0)>>)
        <3>1. <<Fetch_("map", 0)>> \in Seq(SectorIO)
            BY IOTyped
        <3> QED BY <2>1, <3>1, ThenTyped DEF Phase
    <2>2. CASE /\ FindIndex(dirBuf[t], op[t].name) # {}
               /\ Then(t, "header", <<Fetch_("header", DirFind(dirBuf[t], op[t].name))>>)
        <3>1. <<Fetch_("header", DirFind(dirBuf[t], op[t].name))>> \in Seq(SectorIO)
            BY <1>1, <2>2, FindTyped, IOTyped
        <3> QED BY <2>2, <3>1, ThenTyped DEF Phase
    <2>3. CASE /\ FindIndex(dirBuf[t], op[t].name) # {}
               /\ Then(t, "free", <<Fetch_("header", DirFind(dirBuf[t], op[t].name)),
                                    Fetch_("map", 0)>>)
        <3>1. <<Fetch_("header", DirFind(dirBuf[t], op[t].name)), Fetch_("map", 0)>>
                 \in Seq(SectorIO)
            BY <1>1, <2>3, FindTyped, IOTyped
        <3> QED BY <2>3, <3>1, ThenTyped DEF Phase
    <2> QED BY <2>1, <2>2, <2>3 DEF Found
<1>3. ControlTyped'
    BY <1>2 DEF Found, ControlTyped
<1> QED BY <1>3 DEF Found, DiskTyped, BuffersTyped, MachineTyped, disk, buffers, machine

\* The sectors that Create takes of the map it fetched.
LEMMA Takes ==
    ASSUME NEW map \in SUBSET Sector, Sector \ map # {}, NEW size \in 0..MaxUnits,
           NEW s, s = FindSectors(map, 1)[1], HasRoom(Mark(map, {s}), size)
    PROVE  /\ s \in Sector \ map
           /\ Allocate(Mark(map, {s}), size) \in GoodHeader
           /\ s \notin SectorsOf(Allocate(Mark(map, {s}), size))
           /\ SectorsOf(Allocate(Mark(map, {s}), size)) \cap map = {}
<1> DEFINE marked == Mark(map, {s})
           n == divRoundUp(size, SectorSize)
           hdr == Allocate(marked, size)
<1>1. s \in Sector \ map
    <2>1. IsFiniteSet(Sector)
        BY SizesOfFiles, FS_Interval DEF Sector
    <2>2. IsFiniteSet(Sector \ map)
        BY <2>1, FS_Subset
    <2>3. Cardinality(Sector \ map) \in Nat /\ Cardinality(Sector \ map) # 0
        BY <2>2, FS_CardinalityType, FS_EmptySet
    <2>4. 1 <= Cardinality(Sector \ map)
        BY <2>3
    <2>5. FindSectors(map, 1) \in [1..1 -> Sector \ map]
        BY <2>4, FoundFree
    <2> QED BY <2>5
<1>2. marked \in SUBSET Sector /\ n \in Nat
    BY <1>1, SizesOfFiles, RoundUp DEF Mark
<1>3. n <= Cardinality(Sector \ marked)
    <2>1. Cardinality(Sector \ marked) >= n
        BY DEF HasRoom
    <2>2. IsFiniteSet(Sector)
        BY SizesOfFiles, FS_Interval DEF Sector
    <2>3. Cardinality(Sector \ marked) \in Nat
        BY <2>2, FS_Subset, FS_CardinalityType
    <2> HIDE DEF n, marked
    <2> QED BY <1>2, <2>1, <2>3
<1> HIDE DEF n, marked
<1>4. FindSectors(marked, n) \in [1..n -> Sector \ marked]
    BY <1>2, <1>3, FoundFree
<1>5. hdr = [numBytes |-> size, dataSectors |-> FindSectors(marked, n)]
    BY DEF Allocate, n
<1>6. hdr \in GoodHeader
    <2>1. FindSectors(marked, n) \in [1..divRoundUp(size, SectorSize) -> Sector]
        BY <1>4 DEF n
    <2> QED BY <1>5, <2>1, MakesHeader
<1>7. SectorsOf(hdr) \subseteq Sector \ marked
    <2>1. \A x \in SectorsOf(hdr) : \E i \in 1..n : x = FindSectors(marked, n)[i]
        BY <1>4, <1>5 DEF SectorsOf, ToSet
    <2> QED BY <1>4, <2>1
<1>8. s \in marked /\ map \subseteq marked
    BY DEF marked, Mark
<1> QED BY <1>1, <1>6, <1>7, <1>8 DEF marked

\* Create goes on with a header and sectors that are free.
LEMMA CreateStoresIs ==
    ASSUME FilesTypeOK, NEW t \in Caller, op[t] \in FileOperation, CreateStores(t)
    PROVE  \E s \in Sector : \E hdr \in GoodHeader :
              /\ s \notin mapBuf[t] /\ s \notin SectorsOf(hdr)
              /\ SectorsOf(hdr) \cap mapBuf[t] = {}
              /\ Unused(dirBuf[t]) # {}
              /\ Then(t, "ends",
                   <<Store_("header", s, hdr), StoreNew(op[t].name, dirBuf[t], s, 1),
                     StoreNew(op[t].name, dirBuf[t], s, 2), StoreNewMap(mapBuf[t], s, hdr)>>)
<1> DEFINE s == FindSectors(mapBuf[t], 1)[1]
           hdr == Allocate(Mark(mapBuf[t], {s}), op[t].size)
           dir == Add(dirBuf[t], op[t].name, s)
           m == Store_("map", 0, Mark(Mark(mapBuf[t], {s}), SectorsOf(hdr)))
<1>1. op[t].op = "create" /\ op[t].size \in 0..MaxUnits
    BY OperationIs DEF CreateStores, In
<1>2. mapBuf[t] \in SUBSET Sector
    BY DEF FilesTypeOK, BuffersTyped
<1>3. /\ Sector \ mapBuf[t] # {} /\ Unused(dirBuf[t]) # {}
      /\ HasRoom(Mark(mapBuf[t], {s}), op[t].size)
      /\ Then(t, "ends", <<Store_("header", s, hdr)>> \o StoreDirectory(dir) \o <<m>>)
    BY DEF CreateStores
<1>4. /\ s \in Sector /\ s \notin mapBuf[t] /\ hdr \in GoodHeader
      /\ s \notin SectorsOf(hdr) /\ SectorsOf(hdr) \cap mapBuf[t] = {}
    BY <1>1, <1>2, <1>3, Takes
<1>5. m = StoreNewMap(mapBuf[t], s, hdr)
    BY DEF StoreNewMap, NewMap, Mark
<1> HIDE DEF s, hdr, m
<1>6. StoreDirectory(dir) = <<StoreNew(op[t].name, dirBuf[t], s, 1),
                              StoreNew(op[t].name, dirBuf[t], s, 2)>>
    BY DEF StoreDirectory, StoreNew
<1> HIDE DEF dir
<1>7. <<Store_("header", s, hdr)>> \o StoreDirectory(dir) \o <<m>>
        = <<Store_("header", s, hdr), StoreNew(op[t].name, dirBuf[t], s, 1),
            StoreNew(op[t].name, dirBuf[t], s, 2), m>>
    <2> DEFINE S == {Store_("header", s, hdr), StoreNew(op[t].name, dirBuf[t], s, 1),
                     StoreNew(op[t].name, dirBuf[t], s, 2), m}
    <2>1. /\ Store_("header", s, hdr) \in S /\ StoreNew(op[t].name, dirBuf[t], s, 1) \in S
          /\ StoreNew(op[t].name, dirBuf[t], s, 2) \in S /\ m \in S
        OBVIOUS
    <2> HIDE DEF S
    <2> QED BY <1>6, <2>1, Joined
<1> QED BY <1>3, <1>4, <1>5, <1>7

LEMMA CreateStoresTyped ==
    ASSUME FilesTypeOK, NEW t \in Caller, op[t] \in FileOperation, CreateStores(t)
    PROVE  FilesTypeOK'
<1> USE DEF FilesTypeOK
<1>1. PICK s \in Sector : \E hdr \in GoodHeader :
              /\ Unused(dirBuf[t]) # {}
              /\ Then(t, "ends",
                   <<Store_("header", s, hdr), StoreNew(op[t].name, dirBuf[t], s, 1),
                     StoreNew(op[t].name, dirBuf[t], s, 2), StoreNewMap(mapBuf[t], s, hdr)>>)
    BY CreateStoresIs
<1>2. PICK hdr \in GoodHeader :
              /\ Unused(dirBuf[t]) # {}
              /\ Then(t, "ends",
                   <<Store_("header", s, hdr), StoreNew(op[t].name, dirBuf[t], s, 1),
                     StoreNew(op[t].name, dirBuf[t], s, 2), StoreNewMap(mapBuf[t], s, hdr)>>)
    BY <1>1
<1>3. op[t].name \in Name
    BY OperationIs DEF CreateStores, In
<1>4. Add(dirBuf[t], op[t].name, s) \in Directories
    BY <1>2, <1>3, AddIs DEF BuffersTyped
<1>5. /\ StoreNew(op[t].name, dirBuf[t], s, 1) \in SectorIO
      /\ StoreNew(op[t].name, dirBuf[t], s, 2) \in SectorIO
    BY <1>4, IOTyped DEF StoreNew
<1>6. StoreNewMap(mapBuf[t], s, hdr) \in SectorIO
    <2>1. NewMap(mapBuf[t], s, hdr) \in SUBSET Sector
        BY HeaderIs DEF NewMap, BuffersTyped
    <2> QED BY <2>1, IOTyped DEF StoreNewMap
<1>7. Store_("header", s, hdr) \in SectorIO
    BY IOTyped
<1> HIDE DEF FilesTypeOK
<1>8. phase' \in [Caller -> Phase] /\ pending' \in [Caller -> Seq(SectorIO)]
    <2>1. <<Store_("header", s, hdr), StoreNew(op[t].name, dirBuf[t], s, 1),
            StoreNew(op[t].name, dirBuf[t], s, 2), StoreNewMap(mapBuf[t], s, hdr)>>
             \in Seq(SectorIO)
        BY <1>5, <1>6, <1>7, Lists
    <2> QED BY <1>2, <2>1, ThenTyped DEF Phase
<1>9. ControlTyped'
    BY <1>8 DEF CreateStores, ControlTyped, FilesTypeOK
<1> QED BY <1>9 DEF CreateStores, DiskTyped, BuffersTyped, MachineTyped, disk, buffers,
                    machine, FilesTypeOK

LEMMA CreateFailsTyped ==
    ASSUME FilesTypeOK, NEW t \in Caller, CreateFails(t)
    PROVE  FilesTypeOK'
<1>1. phase' \in [Caller -> Phase] /\ pending' \in [Caller -> Seq(SectorIO)]
    BY IdleTyped DEF CreateFails, Phase
<1>2. script' \in [Caller -> Seq(SUBSET FileOperation)]
    BY GivesUpTyped DEF CreateFails
<1>3. ControlTyped'
    BY <1>1, <1>2 DEF CreateFails, FilesTypeOK, ControlTyped
<1> QED BY <1>3 DEF CreateFails, FilesTypeOK, DiskTyped, BuffersTyped, MachineTyped, disk,
                    buffers, machine

LEMMA RemovesIs ==
    ASSUME NEW t \in Caller, Removes(t), SectorsOf(hdrBuf[t]) \subseteq mapBuf[t]
    PROVE  Then(t, "ends",
             <<StoreOldMap(op[t].name, dirBuf[t], mapBuf[t], hdrBuf[t]),
               StoreOld(op[t].name, dirBuf[t], 1), StoreOld(op[t].name, dirBuf[t], 2)>>)
<1> DEFINE s == DirFind(dirBuf[t], op[t].name)
           m == Store_("map", 0, Deallocate(mapBuf[t], hdrBuf[t], s))
           d == DirRemove(dirBuf[t], op[t].name)
<1>1. Then(t, "ends", <<m>> \o StoreDirectory(d))
    BY DEF Removes
<1>2. m = StoreOldMap(op[t].name, dirBuf[t], mapBuf[t], hdrBuf[t])
    BY DEF StoreOldMap, OldMap
<1>3. StoreDirectory(d)
        = <<StoreOld(op[t].name, dirBuf[t], 1), StoreOld(op[t].name, dirBuf[t], 2)>>
    BY DEF StoreDirectory, StoreOld
<1> HIDE DEF m, d
<1>4. <<m>> \o StoreDirectory(d)
        = <<m, StoreOld(op[t].name, dirBuf[t], 1), StoreOld(op[t].name, dirBuf[t], 2)>>
    <2> DEFINE S == {m, StoreOld(op[t].name, dirBuf[t], 1), StoreOld(op[t].name, dirBuf[t], 2)}
    <2>1. /\ m \in S /\ StoreOld(op[t].name, dirBuf[t], 1) \in S
          /\ StoreOld(op[t].name, dirBuf[t], 2) \in S
        OBVIOUS
    <2> HIDE DEF S
    <2> QED BY <1>3, <2>1, Joined
<1> QED BY <1>1, <1>2, <1>4

LEMMA RemovesTyped ==
    ASSUME FilesTypeOK, NEW t \in Caller, Removes(t),
           FindIndex(dirBuf[t], op[t].name) # {}
    PROVE  FilesTypeOK'
<1>1. phase' \in [Caller -> Phase] /\ pending' \in [Caller -> Seq(SectorIO)]
    <2>1. CASE SectorsOf(hdrBuf[t]) \subseteq mapBuf[t]
        <3>1. DirRemove(dirBuf[t], op[t].name) \in Directories
            BY DirRemoveIs DEF FilesTypeOK, BuffersTyped
        <3>2. /\ StoreOld(op[t].name, dirBuf[t], 1) \in SectorIO
              /\ StoreOld(op[t].name, dirBuf[t], 2) \in SectorIO
            BY <3>1, IOTyped DEF StoreOld
        <3>3. OldMap(op[t].name, dirBuf[t], mapBuf[t], hdrBuf[t]) \in SUBSET Sector
            BY DEF OldMap, Deallocate, Clear, FilesTypeOK, BuffersTyped
        <3>4. StoreOldMap(op[t].name, dirBuf[t], mapBuf[t], hdrBuf[t]) \in SectorIO
            BY <3>3, IOTyped DEF StoreOldMap
        <3>5. <<StoreOldMap(op[t].name, dirBuf[t], mapBuf[t], hdrBuf[t]),
                StoreOld(op[t].name, dirBuf[t], 1), StoreOld(op[t].name, dirBuf[t], 2)>>
                 \in Seq(SectorIO)
            BY <3>2, <3>4, Lists
        <3> QED BY <2>1, <3>5, RemovesIs, ThenTyped DEF Phase
    <2>2. CASE ~(SectorsOf(hdrBuf[t]) \subseteq mapBuf[t])
        <3>1. Then(t, "aborted", <<>>)
            BY <2>2 DEF Removes
        <3> QED BY <3>1, IdleTyped DEF Phase
    <2> QED BY <2>1, <2>2
<1>2. ControlTyped'
    BY <1>1 DEF Removes, FilesTypeOK, ControlTyped
<1> QED BY <1>2 DEF Removes, FilesTypeOK, DiskTyped, BuffersTyped, MachineTyped, disk,
                    buffers, machine

LEMMA OpensTyped ==
    ASSUME FilesTypeOK, NEW t \in Caller, Opens(t)
    PROVE  FilesTypeOK'
<1>1. phase' \in [Caller -> Phase] /\ pending' \in [Caller -> Seq(SectorIO)]
    BY IdleTyped DEF Opens, Phase
<1>2. [open |-> TRUE, name |-> op[t].name, hdr |-> hdrBuf[t], seek |-> 0] \in FileInMemory
    BY OperationIs DEF FileInMemory, FilesTypeOK, ControlTyped, BuffersTyped
<1>3. file' \in [Caller -> FileInMemory]
    BY <1>2 DEF Opens, FilesTypeOK, ControlTyped
<1>4. ControlTyped'
    BY <1>1, <1>3 DEF Opens, FilesTypeOK, ControlTyped
<1> QED BY <1>4 DEF Opens, FilesTypeOK, DiskTyped, BuffersTyped, MachineTyped, disk,
                    buffers, machine

LEMMA FetchDataTyped ==
    ASSUME FilesTypeOK, NEW t \in Caller, NEW k \in Nat, NEW n, n = Amount(t, k), n > 0
    PROVE  \A i \in FirstSector(t)..LastSector(t, n) : FetchData(t, i) \in SectorIO
BY InsideFile, IOTyped DEF FetchData

LEMMA ReadTyped ==
    ASSUME FilesTypeOK, NEW t \in Caller, ReadAt(t)
    PROVE  FilesTypeOK'
<1>1. PICK o :
        /\ Begins(t, o) /\ Amount(t, o.size) > 0
        /\ Then(t, "ends",
              [k \in 1..(LastSector(t, Amount(t, o.size)) - FirstSector(t) + 1) |->
                  FetchData(t, FirstSector(t) + k - 1)])
        /\ buf' = [buf EXCEPT ![t] = <<>>]
        /\ UNCHANGED <<disk, dirBuf, mapBuf, hdrBuf, file, machine>>
    BY DEF ReadAt
<1>2. /\ script' \in [Caller -> Seq(SUBSET FileOperation)]
      /\ op' \in [Caller -> FileOperation \cup {NoOperation}]
      /\ o \in FileOperation
    BY <1>1, BeginsIs
<1>3. PICK n : n = Amount(t, o.size)
    OBVIOUS
<1>4. o.size \in Nat
    BY <1>2, OperationIs
<1>5. PICK first \in Nat, last \in Nat : first = FirstSector(t) /\ last = LastSector(t, n)
    BY <1>1, <1>3, <1>4, InsideFile
<1>6. first <= last
    BY <1>1, <1>3, <1>4, <1>5, InsideFile
<1>7. [k \in 1..(last - first + 1) |-> FetchData(t, first + k - 1)] \in Seq(SectorIO)
    <2>1. \A i \in first..last : FetchData(t, i) \in SectorIO
        BY <1>1, <1>3, <1>4, <1>5, FetchDataTyped
    <2>2. \A k \in 1..(last - first + 1) : FetchData(t, first + k - 1) \in SectorIO
        BY <2>1
    <2>3. PICK m \in Nat : m = last - first + 1
        BY <1>6
    <2>4. \A k \in 1..m : FetchData(t, first + k - 1) \in SectorIO
        BY <2>2, <2>3
    <2>5. [k \in 1..m |-> FetchData(t, first + k - 1)] \in Seq(SectorIO)
        BY <2>4
    <2> QED BY <2>3, <2>5
<1>8. phase' \in [Caller -> Phase] /\ pending' \in [Caller -> Seq(SectorIO)]
    BY <1>1, <1>3, <1>5, <1>7, ThenTyped DEF Phase
<1>9. ControlTyped'
    BY <1>1, <1>2, <1>8 DEF FilesTypeOK, ControlTyped
<1>10. BuffersTyped'
    <2>1. <<>> \in Seq(Contents)
        OBVIOUS
    <2> HIDE DEF Contents
    <2> QED BY <1>1, <2>1 DEF FilesTypeOK, BuffersTyped
<1> QED BY <1>1, <1>9, <1>10 DEF FilesTypeOK, DiskTyped, MachineTyped, disk, machine

LEMMA WriteTyped ==
    ASSUME FilesTypeOK, NEW t \in Caller, WriteAt(t)
    PROVE  FilesTypeOK'
<1>1. PICK o :
        LET n == Amount(t, o.size)
            first == FirstSector(t)
            last == LastSector(t, n)
            firstAligned == Aligned(file[t].seek)
            lastAligned == Aligned(file[t].seek + n)
        IN  /\ Begins(t, o) /\ o.op = "write" /\ n > 0
            /\ Then(t, "merge",
                  (IF firstAligned THEN <<>> ELSE <<FetchData(t, first)>>)
                  \o (IF ~lastAligned /\ (first # last \/ firstAligned)
                      THEN <<FetchData(t, last)>> ELSE <<>>))
            /\ buf' = [buf EXCEPT ![t] = <<>>]
            /\ UNCHANGED <<disk, dirBuf, mapBuf, hdrBuf, file, machine>>
    BY DEF WriteAt
<1>2. PICK n : n = Amount(t, o.size)
    OBVIOUS
<1>3. /\ Begins(t, o) /\ n > 0
      /\ buf' = [buf EXCEPT ![t] = <<>>]
      /\ UNCHANGED <<disk, dirBuf, mapBuf, hdrBuf, file, machine>>
    BY <1>1, <1>2
<1>4. \E one \in {<<>>, <<FetchData(t, FirstSector(t))>>} :
      \E two \in {<<>>, <<FetchData(t, LastSector(t, n))>>} :
         Then(t, "merge", one \o two)
    BY <1>1, <1>2
<1>5. /\ script' \in [Caller -> Seq(SUBSET FileOperation)]
      /\ op' \in [Caller -> FileOperation \cup {NoOperation}]
      /\ o \in FileOperation
    BY <1>3, BeginsIs
<1>6. o.size \in Nat
    BY <1>5, OperationIs
<1>7. PICK x \in SectorIO : x = FetchData(t, FirstSector(t))
    BY <1>2, <1>3, <1>6, InsideFile, FetchDataTyped
<1>8. PICK y \in SectorIO : y = FetchData(t, LastSector(t, n))
    BY <1>2, <1>3, <1>6, InsideFile, FetchDataTyped
<1>9. PICK one \in {<<>>, <<x>>} : \E two \in {<<>>, <<y>>} : Then(t, "merge", one \o two)
    BY <1>4, <1>7, <1>8
<1>10. PICK two \in {<<>>, <<y>>} : Then(t, "merge", one \o two)
    BY <1>9
<1>11. one \in Seq(SectorIO) /\ two \in Seq(SectorIO)
    BY Lists
<1>12. one \o two \in Seq(SectorIO)
    BY <1>11
<1>13. phase' \in [Caller -> Phase] /\ pending' \in [Caller -> Seq(SectorIO)]
    BY <1>10, <1>12, ThenTyped DEF Phase
<1>14. ControlTyped'
    BY <1>3, <1>5, <1>13 DEF FilesTypeOK, ControlTyped
<1>15. BuffersTyped'
    <2>1. <<>> \in Seq(Contents)
        OBVIOUS
    <2> HIDE DEF Contents
    <2> QED BY <1>3, <2>1 DEF FilesTypeOK, BuffersTyped
<1> QED BY <1>3, <1>14, <1>15 DEF FilesTypeOK, DiskTyped, MachineTyped, disk, machine

\* What Write stores are units, each of them old, new or from an unset buffer.
LEMMA MergedTyped ==
    ASSUME FilesTypeOK, NEW t \in Caller, NEW i, NEW junk \in {0, op[t].value}
    PROVE  Merged(t, i, junk) \in Contents
<1>1. op[t].value \in Value /\ junk \in Value
    BY OperationIs, FilesAssumption DEF FilesTypeOK, ControlTyped
<1>2. OldUnits(t, i) \in Contents
    <2>1. buf[t] \in Seq(Contents)
        BY DEF FilesTypeOK, BuffersTyped
    <2>2. buf[t] # <<>> => Head(buf[t]) \in Contents /\ Last(buf[t]) \in Contents
        <3> HIDE DEF Contents
        <3> QED BY <2>1 DEF Last
    <2> QED BY <2>2, EmptyTyped DEF OldUnits
<1>3. \A u \in Units : OldUnits(t, i)[u] \in Value
    BY <1>2 DEF Contents
<1> QED BY <1>1, <1>3 DEF Merged, Contents

LEMMA WriteMergesTyped ==
    ASSUME FilesTypeOK, MergeInv, NEW t \in Caller, WriteMerges(t)
    PROVE  FilesTypeOK'
<1>1. PICK junk \in {0, op[t].value} :
          Then(t, "ends",
             [k \in 1..(LastSector(t, Amount(t, op[t].size)) - FirstSector(t) + 1) |->
                 StoreData(t, FirstSector(t) + k - 1, junk)])
    BY DEF WriteMerges
<1>2. PICK n : n = Amount(t, op[t].size)
    OBVIOUS
<1>3. n > 0
    BY <1>2 DEF MergeInv, WriteMerges, In
<1>4. op[t].size \in Nat
    BY OperationIs DEF FilesTypeOK, ControlTyped
<1>5. PICK first \in Nat, last \in Nat : first = FirstSector(t) /\ last = LastSector(t, n)
    BY <1>2, <1>3, <1>4, InsideFile
<1>6. first <= last
    BY <1>2, <1>3, <1>4, <1>5, InsideFile
<1>7. [k \in 1..(last - first + 1) |-> StoreData(t, first + k - 1, junk)] \in Seq(SectorIO)
    <2>1. \A i \in first..last : file[t].hdr.dataSectors[i] \in Sector
        BY <1>2, <1>3, <1>4, <1>5, InsideFile
    <2>2. \A i \in first..last : StoreData(t, i, junk) \in SectorIO
        BY <2>1, MergedTyped, IOTyped DEF StoreData
    <2>3. \A k \in 1..(last - first + 1) : StoreData(t, first + k - 1, junk) \in SectorIO
        BY <2>2
    <2>4. PICK m \in Nat : m = last - first + 1
        BY <1>6
    <2>5. \A k \in 1..m : StoreData(t, first + k - 1, junk) \in SectorIO
        BY <2>3, <2>4
    <2>6. [k \in 1..m |-> StoreData(t, first + k - 1, junk)] \in Seq(SectorIO)
        BY <2>5
    <2> QED BY <2>4, <2>6
<1>8. phase' \in [Caller -> Phase] /\ pending' \in [Caller -> Seq(SectorIO)]
    BY <1>1, <1>2, <1>5, <1>7, ThenTyped DEF Phase
<1>9. ControlTyped'
    BY <1>8 DEF WriteMerges, FilesTypeOK, ControlTyped
<1> QED BY <1>9 DEF WriteMerges, FilesTypeOK, DiskTyped, BuffersTyped, MachineTyped, disk,
                    buffers, machine

LEMMA NothingTyped ==
    ASSUME FilesTypeOK, NEW t \in Caller, Nothing(t)
    PROVE  FilesTypeOK'
<1>1. PICK o :
        /\ script[t] # <<>> /\ o \in Head(script[t])
        /\ script' = [script EXCEPT ![t] =
              SubSeq(@, 2 + (IF o.least > 0 THEN o.skip ELSE 0), Len(@))]
        /\ op' = [op EXCEPT ![t] = o]
        /\ UNCHANGED <<disk, phase, pending, buffers, file, machine>>
    BY DEF Nothing
<1>2. o \in FileOperation
    <2>1. script[t] \in Seq(SUBSET FileOperation)
        BY DEF FilesTypeOK, ControlTyped
    <2>2. Head(script[t]) \in SUBSET FileOperation
        BY <1>1, <2>1, HeadTailProperties
    <2> QED BY <1>1, <2>2
<1>3. PICK i \in Nat : i = 1 + (IF o.least > 0 THEN o.skip ELSE 0)
    BY <1>2, OperationIs
<1>4. script' = [script EXCEPT ![t] = SubSeq(@, i + 1, Len(@))]
    <2>1. i + 1 = 2 + (IF o.least > 0 THEN o.skip ELSE 0)
        BY <1>2, <1>3, OperationIs
    <2> QED BY <1>1, <2>1
<1>5. script' \in [Caller -> Seq(SUBSET FileOperation)]
    BY <1>4, RestTyped
<1>6. ControlTyped'
    BY <1>1, <1>2, <1>5 DEF FilesTypeOK, ControlTyped
<1> QED BY <1>1, <1>6 DEF FilesTypeOK, DiskTyped, BuffersTyped, MachineTyped, disk,
                    buffers, machine

LEMMA SeekTyped ==
    ASSUME FilesTypeOK, NEW t \in Caller, Seek(t)
    PROVE  FilesTypeOK'
<1>1. PICK o :
        /\ Begins(t, o)
        /\ file' = [file EXCEPT ![t].seek = IF file[t].open THEN o.size ELSE @]
        /\ UNCHANGED <<disk, phase, pending, buffers, machine>>
    BY DEF Seek
<1>2. /\ script' \in [Caller -> Seq(SUBSET FileOperation)]
      /\ op' \in [Caller -> FileOperation \cup {NoOperation}]
      /\ o.size \in Nat
    BY <1>1, BeginsIs, OperationIs
<1>3. file' \in [Caller -> FileInMemory]
    <2>1. file[t] \in FileInMemory /\ file \in [Caller -> FileInMemory]
        BY DEF FilesTypeOK, ControlTyped
    <2>2. PICK k \in Nat : k = IF file[t].open THEN o.size ELSE file[t].seek
        BY <1>2, <2>1 DEF FileInMemory
    <2>3. [file[t] EXCEPT !.seek = k] \in FileInMemory
        BY <2>1 DEF FileInMemory
    <2>4. file' = [file EXCEPT ![t] = [file[t] EXCEPT !.seek = k]]
        BY <1>1, <2>1, <2>2
    <2> QED BY <2>1, <2>3, <2>4
<1>4. ControlTyped'
    BY <1>1, <1>2, <1>3 DEF FilesTypeOK, ControlTyped
<1> QED BY <1>1, <1>4 DEF FilesTypeOK, DiskTyped, BuffersTyped, MachineTyped, disk,
                    buffers, machine

LEMMA ClosesTyped ==
    ASSUME FilesTypeOK, NEW t \in Caller, Closes(t)
    PROVE  FilesTypeOK'
<1>1. PICK o :
        /\ Begins(t, o) /\ file' = [file EXCEPT ![t] = NoFile]
        /\ UNCHANGED <<disk, phase, pending, buffers, machine>>
    BY DEF Closes
<1>2. /\ script' \in [Caller -> Seq(SUBSET FileOperation)]
      /\ op' \in [Caller -> FileOperation \cup {NoOperation}]
    BY <1>1, BeginsIs
<1>3. ControlTyped'
    BY <1>1, <1>2, EmptyTyped DEF FilesTypeOK, ControlTyped
<1> QED BY <1>1, <1>3 DEF FilesTypeOK, DiskTyped, BuffersTyped, MachineTyped, disk,
                    buffers, machine

LEMMA AmountTyped ==
    ASSUME FilesTypeOK, NEW t \in Caller, NEW k \in Nat
    PROVE  Amount(t, k) \in Nat
<1>1. file[t] \in FileInMemory
    BY DEF FilesTypeOK, ControlTyped
<1>2. PICK hdr \in GoodHeader, seek \in Nat : hdr = file[t].hdr /\ seek = file[t].seek
    BY <1>1 DEF FileInMemory
<1>3. PICK total \in Nat : total = hdr.numBytes
    BY HeaderIs, SizesOfFiles
<1> QED BY <1>2, <1>3 DEF Amount

LEMMA EndsTyped ==
    ASSUME FilesTypeOK, NEW t \in Caller, Ends(t)
    PROVE  FilesTypeOK'
<1>1. phase' \in [Caller -> Phase] /\ pending' \in [Caller -> Seq(SectorIO)]
    BY IdleTyped DEF Ends, Phase
<1>2. script' \in [Caller -> Seq(SUBSET FileOperation)]
    BY GivesUpTyped DEF Ends, FilesTypeOK, ControlTyped
<1>3. file' \in [Caller -> FileInMemory]
    <2>1. file[t] \in FileInMemory /\ file \in [Caller -> FileInMemory]
        BY DEF FilesTypeOK, ControlTyped
    <2>2. op[t].size \in Nat
        BY OperationIs DEF FilesTypeOK, ControlTyped
    <2>3. PICK k \in Nat : k = IF op[t].op \in {"read", "write"}
                               THEN file[t].seek + Amount(t, op[t].size) ELSE file[t].seek
        BY <2>1, <2>2, AmountTyped DEF FileInMemory
    <2>4. [file[t] EXCEPT !.seek = k] \in FileInMemory
        BY <2>1 DEF FileInMemory
    <2>5. file' = [file EXCEPT ![t] = [file[t] EXCEPT !.seek = k]]
        BY <2>1, <2>3 DEF Ends
    <2> QED BY <2>1, <2>4, <2>5
<1>4. ControlTyped'
    BY <1>1, <1>2, <1>3 DEF Ends, FilesTypeOK, ControlTyped
<1> QED BY <1>4 DEF Ends, FilesTypeOK, DiskTyped, BuffersTyped, MachineTyped, disk,
                    buffers, machine

LEMMA CrashTyped ==
    ASSUME FilesTypeOK, Crash
    PROVE  FilesTypeOK'
<1>1. ControlTyped'
    <2>1. <<>> \in Seq(SectorIO)
        OBVIOUS
    <2>2. pending' \in [Caller -> Seq(SectorIO)]
        BY <2>1 DEF Crash
    <2> QED BY <2>2, EmptyTyped DEF Crash, Phase, FilesTypeOK, ControlTyped
<1>2. MachineTyped'
    <2>1. running' \in BOOLEAN /\ crashes' \in Nat
        <3>1. running' = FALSE /\ crashes' = crashes + 1
            BY DEF Crash
        <3>2. crashes \in Nat
            BY DEF FilesTypeOK, MachineTyped
        <3>3. crashes + 1 \in Nat
            BY <3>2
        <3> QED BY <3>1, <3>3, Zenon
    <2>2. lost' \in BOOLEAN
        <3>1. lost' = (lost \/ ~Sound)
            BY DEF Crash
        <3> QED BY <3>1, Zenon
    <2> QED BY <2>1, <2>2 DEF MachineTyped
<1> QED BY <1>1, <1>2 DEF Crash, FilesTypeOK, DiskTyped, BuffersTyped, disk, buffers

LEMMA BootTyped ==
    ASSUME FilesTypeOK, Boot
    PROVE  FilesTypeOK'
BY DEF Boot, FilesTypeOK, ControlTyped, DiskTyped, BuffersTyped, MachineTyped, disk, buffers,
       control

LEMMA FormatTyped ==
    ASSUME FilesTypeOK, Format
    PROVE  FilesTypeOK'
<1>1. DiskTyped'
    <2>1. directory' \in Directories
        BY EmptyTyped DEF Format
    <2>2. header' \in [Sector -> GoodHeader]
        <3> DEFINE h0 == [numBytes |-> SectorSize, dataSectors |-> <<MapSector>>]
                   h1 == [numBytes |-> 2 * SectorSize, dataSectors |-> DirSectors]
        <3>1. h0 \in GoodHeader /\ h1 \in GoodHeader
            BY HeadersTyped
        <3>2. header' = [header EXCEPT ![FreeMapSector] = h0, ![DirectorySector] = h1]
            BY DEF Format
        <3> HIDE DEF h0, h1
        <3> QED BY <3>1, <3>2, SectorsTyped DEF FilesTypeOK, DiskTyped
    <2> QED BY <2>1, <2>2, SectorsTyped DEF Format, FilesTypeOK, DiskTyped
<1> QED BY <1>1 DEF Format, FilesTypeOK, ControlTyped, BuffersTyped, MachineTyped, buffers,
                    control

-----------------------------------------------------------------------------
(* What a step leaves alone                                                *)

\* The rest of a program.
LEMMA RestOfProgram ==
    ASSUME NEW p \in Seq(SUBSET FileOperation), NEW i \in Nat
    PROVE  ChangesFiles(SubSeq(p, i + 1, Len(p))) => ChangesFiles(p)
<1>1. ASSUME ChangesFiles(SubSeq(p, i + 1, Len(p)))
      PROVE  ChangesFiles(p)
    <2> DEFINE rest == SubSeq(p, i + 1, Len(p))
    <2>1. PICK j \in DOMAIN rest : \E o \in rest[j] : o.op \in {"create", "remove"}
        BY <1>1 DEF ChangesFiles
    <2>2. j + i \in DOMAIN p /\ rest[j] = p[j + i]
        OBVIOUS
    <2> QED BY <2>1, <2>2 DEF ChangesFiles
<1> QED BY <1>1

LEMMA BeginsRest ==
    ASSUME FilesTypeOK, NEW t \in Caller, NEW o, Begins(t, o)
    PROVE  /\ ChangesFiles(script'[t]) => ChangesFiles(script[t])
           /\ o.op \in {"create", "remove"} => ChangesFiles(script[t])
<1>1. script[t] \in Seq(SUBSET FileOperation) /\ script[t] # <<>>
    BY DEF Begins, FilesTypeOK, ControlTyped
<1>2. script'[t] = Tail(script[t]) /\ o \in script[t][1] /\ 1 \in DOMAIN script[t]
    BY <1>1 DEF Begins, FilesTypeOK, ControlTyped
<1>3. ASSUME ChangesFiles(script'[t])
      PROVE  ChangesFiles(script[t])
    <2>1. PICK j \in DOMAIN Tail(script[t]) :
             \E p \in Tail(script[t])[j] : p.op \in {"create", "remove"}
        BY <1>2, <1>3 DEF ChangesFiles
    <2>2. j + 1 \in DOMAIN script[t] /\ Tail(script[t])[j] = script[t][j + 1]
        BY <1>1
    <2> QED BY <2>1, <2>2 DEF ChangesFiles
<1>4. o.op \in {"create", "remove"} => ChangesFiles(script[t])
    BY <1>2 DEF ChangesFiles
<1> QED BY <1>3, <1>4

LEMMA GivesUpRest ==
    ASSUME FilesTypeOK, NEW t \in Caller, GivesUp(t)
    PROVE  ChangesFiles(script'[t]) => ChangesFiles(script[t])
<1>1. script[t] \in Seq(SUBSET FileOperation) /\ op[t].skip \in Nat
    BY OperationIs DEF FilesTypeOK, ControlTyped
<1>2. script'[t] = SubSeq(script[t], op[t].skip + 1, Len(script[t]))
    BY DEF GivesUp, FilesTypeOK, ControlTyped
<1> QED BY <1>1, <1>2, RestOfProgram

LEMMA NothingRest ==
    ASSUME FilesTypeOK, NEW t \in Caller, Nothing(t)
    PROVE  ChangesFiles(script'[t]) => ChangesFiles(script[t])
<1>1. PICK o :
        /\ script[t] # <<>> /\ o \in Head(script[t])
        /\ script' = [script EXCEPT ![t] =
              SubSeq(@, 2 + (IF o.least > 0 THEN o.skip ELSE 0), Len(@))]
    BY DEF Nothing
<1>2. script[t] \in Seq(SUBSET FileOperation)
    BY DEF FilesTypeOK, ControlTyped
<1>3. o \in FileOperation
    <2>1. Head(script[t]) \in SUBSET FileOperation
        BY <1>1, <1>2, HeadTailProperties
    <2> QED BY <1>1, <2>1
<1>4. PICK i \in Nat : i = 1 + (IF o.least > 0 THEN o.skip ELSE 0)
    BY <1>3, OperationIs
<1>5. i + 1 = 2 + (IF o.least > 0 THEN o.skip ELSE 0)
    BY <1>3, <1>4, OperationIs
<1>6. script'[t] = SubSeq(script[t], i + 1, Len(script[t]))
    BY <1>1, <1>5 DEF FilesTypeOK, ControlTyped
<1> QED BY <1>2, <1>6, RestOfProgram

\* What belongs to the other threads stays.  A step may lose the disk, but none is made on
\* a disk that is lost.
OwnStep(t) ==
    /\ running /\ ~lost /\ running' = running /\ lost' \in BOOLEAN
    /\ \A u \in Caller : u # t =>
          /\ script'[u] = script[u] /\ op'[u] = op[u] /\ phase'[u] = phase[u]
          /\ pending'[u] = pending[u] /\ file'[u] = file[u]
          /\ dirBuf'[u] = dirBuf[u] /\ mapBuf'[u] = mapBuf[u] /\ hdrBuf'[u] = hdrBuf[u]

LEMMA StepOwn ==
    ASSUME FilesTypeOK, NEW t \in Caller, Step(t)
    PROVE  OwnStep(t)
<1> USE DEF OwnStep, FilesTypeOK, ControlTyped, BuffersTyped, MachineTyped, control, buffers,
            machine, Up, Begins, In, Then, GivesUp
<1>1. CASE Fetch(t)
    <2>1. lost' \in BOOLEAN
        BY <1>1, FetchTyped DEF FilesTypeOK, MachineTyped
    <2> QED BY <1>1, <2>1 DEF Fetch, Ready, MapFetchFrom
<1>2. CASE Store(t)
    <2>1. lost' \in BOOLEAN
        BY <1>2, StoreTyped DEF FilesTypeOK, MachineTyped
    <2> QED BY <1>2, <2>1 DEF Store, Ready
<1>3. CASE Look(t)
    BY <1>3 DEF Look
<1>4. CASE NotFound(t)
    BY <1>4 DEF NotFound
<1>5. CASE Found(t)
    BY <1>5 DEF Found
<1>6. CASE CreateStores(t)
    BY <1>6 DEF CreateStores
<1>7. CASE CreateFails(t)
    BY <1>7 DEF CreateFails
<1>8. CASE Removes(t)
    BY <1>8 DEF Removes
<1>9. CASE Opens(t)
    BY <1>9 DEF Opens
<1>10. CASE ReadAt(t)
    BY <1>10 DEF ReadAt
<1>11. CASE WriteAt(t)
    BY <1>11 DEF WriteAt
<1>12. CASE WriteMerges(t)
    BY <1>12 DEF WriteMerges
<1>13. CASE Nothing(t)
    BY <1>13 DEF Nothing
<1>14. CASE Seek(t)
    BY <1>14 DEF Seek
<1>15. CASE Closes(t)
    BY <1>15 DEF Closes
<1>16. CASE Ends(t)
    BY <1>16 DEF Ends
<1> QED BY <1>1, <1>2, <1>3, <1>4, <1>5, <1>6, <1>7, <1>8, <1>9, <1>10, <1>11, <1>12,
           <1>13, <1>14, <1>15, <1>16 DEF Step

\* Who may create and remove files is settled when the threads start.
LEMMA StepMay ==
    ASSUME FilesTypeOK, NEW t \in Caller, Step(t), NEW u \in Caller, MayChange(u)'
    PROVE  MayChange(u)
<1>1. CASE u # t
    BY <1>1, StepOwn DEF OwnStep, MayChange, Changing
<1>2. CASE u = t
    <2>1. ASSUME NEW o, Begins(t, o)
          PROVE  MayChange(t)
        BY <1>2, <2>1, BeginsRest, BeginsIs DEF MayChange, Changing
    <2>2. ASSUME phase[t] # "idle", op' = op, script' = script
          PROVE  MayChange(t)
        BY <1>2, <2>2 DEF MayChange, Changing
    <2>3. ASSUME op' = op, GivesUp(t), phase[t] # "idle"
          PROVE  MayChange(t)
        BY <1>2, <2>3, GivesUpRest DEF MayChange, Changing
    <2>4. CASE Fetch(t) \/ Store(t)
        BY <1>2, <2>4 DEF Fetch, Store, MayChange, Changing
    <2>5. CASE Look(t) \/ ReadAt(t) \/ WriteAt(t) \/ Seek(t) \/ Closes(t)
        <3>1. \E o : Begins(t, o)
            <4>1. Look(t) => \E o : Begins(t, o)
                BY DEF Look
            <4>2. ReadAt(t) => \E o : Begins(t, o)
                BY DEF ReadAt
            <4>3. WriteAt(t) => \E o : Begins(t, o)
                BY DEF WriteAt
            <4>4. Seek(t) => \E o : Begins(t, o)
                BY DEF Seek
            <4>5. Closes(t) => \E o : Begins(t, o)
                BY DEF Closes
            <4> QED BY <2>5, <4>1, <4>2, <4>3, <4>4, <4>5
        <3> QED BY <1>2, <2>1, <3>1
    <2>6. CASE NotFound(t) \/ CreateFails(t)
        <3>1. NotFound(t) => op' = op /\ GivesUp(t) /\ phase[t] # "idle"
            BY DEF NotFound, In
        <3>2. CreateFails(t) => op' = op /\ GivesUp(t) /\ phase[t] # "idle"
            BY DEF CreateFails, In
        <3> QED BY <1>2, <2>3, <2>6, <3>1, <3>2
    <2>7. CASE Found(t) \/ CreateStores(t) \/ Removes(t) \/ Opens(t) \/ WriteMerges(t)
        <3>1. Found(t) => phase[t] # "idle" /\ op' = op /\ script' = script
            BY DEF Found, In
        <3>2. CreateStores(t) => phase[t] # "idle" /\ op' = op /\ script' = script
            BY DEF CreateStores, In
        <3>3. Removes(t) => phase[t] # "idle" /\ op' = op /\ script' = script
            BY DEF Removes, In
        <3>4. Opens(t) => phase[t] # "idle" /\ op' = op /\ script' = script
            BY DEF Opens, In
        <3>5. WriteMerges(t) => phase[t] # "idle" /\ op' = op /\ script' = script
            BY DEF WriteMerges, In
        <3> QED BY <1>2, <2>2, <2>7, <3>1, <3>2, <3>3, <3>4, <3>5
    <2>8. CASE Nothing(t)
        <3>1. phase'[t] = phase[t] /\ phase[t] = "idle"
            BY <2>8 DEF Nothing
        <3> QED BY <1>2, <2>8, <3>1, NothingRest DEF MayChange, Changing
    <2>9. CASE Ends(t)
        <3>1. phase[t] # "idle" /\ op' = op /\ (GivesUp(t) \/ script' = script)
            BY <2>9 DEF Ends, In
        <3> QED BY <1>2, <2>2, <2>3, <3>1
    <2> QED BY <2>4, <2>5, <2>6, <2>7, <2>8, <2>9 DEF Step
<1> QED BY <1>1, <1>2

LEMMA StepOneChanges ==
    ASSUME FilesTypeOK, OneChanges, NEW t \in Caller, Step(t)
    PROVE  OneChanges'
<1>1. \A u \in Caller : MayChange(u)' => MayChange(u)
    BY StepMay
<1> QED BY <1>1 DEF OneChanges

\* A thread that is idle has nothing pending, and all are when the machine has stopped.
LEMMA StepStop ==
    ASSUME FilesTypeOK, StopInv, NEW t \in Caller, Step(t)
    PROVE  StopInv'
<1>1. running /\ running' = running
    BY StepOwn DEF OwnStep
<1>2. ASSUME NEW u \in Caller, u # t
      PROVE  phase'[u] = phase[u] /\ pending'[u] = pending[u]
    BY <1>2, StepOwn DEF OwnStep
<1>3. phase'[t] = "idle" => pending'[t] = <<>>
    <2>1. ASSUME NEW where, NEW io, Then(t, where, io), where # "idle" \/ io = <<>>
          PROVE  phase'[t] = "idle" => pending'[t] = <<>>
        BY <2>1 DEF Then, FilesTypeOK, ControlTyped
    <2>2. ASSUME UNCHANGED <<phase, pending>>
          PROVE  phase'[t] = "idle" => pending'[t] = <<>>
        BY <2>2 DEF StopInv
    <2>3. CASE Fetch(t) \/ Store(t)
        <3>1. Ready(t) /\ UNCHANGED phase
            BY <2>3 DEF Fetch, Store
        <3>2. phase[t] # "idle"
            BY <3>1 DEF Ready, StopInv
        <3> QED BY <3>1, <3>2
    <2>4. CASE Look(t) \/ Found(t) \/ CreateStores(t) \/ Removes(t) \/ ReadAt(t) \/ WriteAt(t)
               \/ WriteMerges(t)
        <3>1. Look(t) => \E where : where # "idle" /\ \E io : Then(t, where, io)
            BY DEF Look
        <3>2. Found(t) => \E where : where # "idle" /\ \E io : Then(t, where, io)
            BY DEF Found
        <3>3. CreateStores(t) => \E where : where # "idle" /\ \E io : Then(t, where, io)
            BY DEF CreateStores
        <3>4. Removes(t) => \E where : where # "idle" /\ \E io : Then(t, where, io)
            BY DEF Removes
        <3>5. ReadAt(t) => \E where : where # "idle" /\ \E io : Then(t, where, io)
            BY DEF ReadAt
        <3>6. WriteAt(t) => \E where : where # "idle" /\ \E io : Then(t, where, io)
            BY DEF WriteAt
        <3>7. WriteMerges(t) => \E where : where # "idle" /\ \E io : Then(t, where, io)
            BY DEF WriteMerges
        <3> QED BY <2>1, <2>4, <3>1, <3>2, <3>3, <3>4, <3>5, <3>6, <3>7
    <2>5. CASE NotFound(t) \/ CreateFails(t) \/ Opens(t) \/ Ends(t)
        <3>1. Then(t, "idle", <<>>)
            BY <2>5 DEF NotFound, CreateFails, Opens, Ends
        <3> QED BY <2>1, <3>1
    <2>6. CASE Nothing(t) \/ Seek(t) \/ Closes(t)
        BY <2>2, <2>6 DEF Nothing, Seek, Closes
    <2> QED BY <2>3, <2>4, <2>5, <2>6 DEF Step
<1> QED BY <1>1, <1>2, <1>3 DEF StopInv

LEMMA StepMerge ==
    ASSUME FilesTypeOK, MergeInv, NEW t \in Caller, Step(t)
    PROVE  MergeInv'
<1>1. ASSUME NEW u \in Caller, u # t, phase'[u] = "merge"
      PROVE  op'[u].op = "write" /\ Amount(u, op[u].size)' > 0
    <2>1. phase'[u] = phase[u] /\ op'[u] = op[u] /\ file'[u] = file[u]
        BY <1>1, StepOwn DEF OwnStep
    <2> QED BY <1>1, <2>1 DEF MergeInv, Amount
<1>2. ASSUME phase'[t] = "merge"
      PROVE  op'[t].op = "write" /\ Amount(t, op[t].size)' > 0
    <2>1. ASSUME NEW where, NEW io, Then(t, where, io), where # "merge"
          PROVE  FALSE
        BY <1>2, <2>1 DEF Then, FilesTypeOK, ControlTyped
    <2>2. CASE Fetch(t) \/ Store(t)
        <3>1. phase' = phase /\ op' = op /\ file' = file
            BY <2>2 DEF Fetch, Store
        <3> QED BY <1>2, <3>1 DEF MergeInv, Amount
    <2>3. CASE WriteAt(t)
        <3>1. PICK o : /\ Begins(t, o) /\ o.op = "write" /\ Amount(t, o.size) > 0
                       /\ file' = file
            BY <2>3 DEF WriteAt
        <3>2. op'[t] = o
            BY <3>1, BeginsIs
        <3> QED BY <3>1, <3>2 DEF Amount
    <2>4. CASE \/ Look(t) \/ NotFound(t) \/ Found(t) \/ CreateStores(t) \/ CreateFails(t)
               \/ Removes(t) \/ Opens(t) \/ ReadAt(t) \/ WriteMerges(t) \/ Ends(t)
        <3>1. Look(t) => \E where : where # "merge" /\ \E io : Then(t, where, io)
            BY DEF Look
        <3>2. Found(t) => \E where : where # "merge" /\ \E io : Then(t, where, io)
            BY DEF Found
        <3>3. CreateStores(t) => \E where : where # "merge" /\ \E io : Then(t, where, io)
            BY DEF CreateStores
        <3>4. Removes(t) => \E where : where # "merge" /\ \E io : Then(t, where, io)
            BY DEF Removes
        <3>5. ReadAt(t) => \E where : where # "merge" /\ \E io : Then(t, where, io)
            BY DEF ReadAt
        <3>6. WriteMerges(t) => \E where : where # "merge" /\ \E io : Then(t, where, io)
            BY DEF WriteMerges
        <3>7. NotFound(t) \/ CreateFails(t) \/ Opens(t) \/ Ends(t) => Then(t, "idle", <<>>)
            BY DEF NotFound, CreateFails, Opens, Ends
        <3> QED BY <2>1, <2>4, <3>1, <3>2, <3>3, <3>4, <3>5, <3>6, <3>7
    <2>5. CASE Nothing(t) \/ Seek(t) \/ Closes(t)
        <3>1. phase' = phase /\ phase[t] = "idle"
            BY <2>5 DEF Nothing, Seek, Closes, Begins
        <3> QED BY <1>2, <3>1
    <2> QED BY <2>2, <2>3, <2>4, <2>5 DEF Step
<1> QED BY <1>1, <1>2 DEF MergeInv

StoresOnlyData(p) == \A i \in DOMAIN p : p[i].io = "store" => p[i].what = "data"

LEMMA HarmlessLists ==
    /\ StoresOnlyData(<<>>) /\ StoresOnlyData(FetchDirectory)
    /\ \A at : StoresOnlyData(<<Fetch_("header", at)>>)
    /\ \A p \in Seq(SectorIO) : p # <<>> /\ StoresOnlyData(p) => StoresOnlyData(Tail(p))
<1>1. \A p \in Seq(SectorIO) : p # <<>> /\ StoresOnlyData(p) => StoresOnlyData(Tail(p))
    BY NextIO DEF StoresOnlyData
<1> QED BY <1>1 DEF StoresOnlyData, FetchDirectory, Fetch_

\* Of one or two sectors to fetch.
LEMMA HarmlessFetches ==
    ASSUME NEW a, NEW b, NEW one \in {<<>>, <<Fetch_("data", a)>>},
           NEW two \in {<<>>, <<Fetch_("data", b)>>}
    PROVE  StoresOnlyData(one \o two)
<1>1. PICK x : x = Fetch_("data", a)
    OBVIOUS
<1>2. PICK y : y = Fetch_("data", b)
    OBVIOUS
<1>3. x.io = "fetch" /\ y.io = "fetch"
    BY <1>1, <1>2 DEF Fetch_
<1> DEFINE S == {x, y}
<1>4. x \in S /\ y \in S /\ \A z \in S : z.io = "fetch"
    BY <1>3
<1> HIDE DEF S
<1>5. one \in Seq(S) /\ two \in Seq(S)
    BY <1>1, <1>2, <1>4, Lists
<1>6. one \o two \in Seq(S)
    BY <1>5
<1>7. PICK q \in Seq(S) : q = one \o two
    BY <1>6, Zenon
<1>8. \A i \in DOMAIN q : q[i] \in S
    OBVIOUS
<1> QED BY <1>4, <1>7, <1>8 DEF StoresOnlyData

LEMMA StepHarmless ==
    ASSUME FilesTypeOK, OthersHarmless, NEW t \in Caller, Step(t)
    PROVE  OthersHarmless'
<1>1. ASSUME NEW u \in Caller, u # t, ~Changing(u)'
      PROVE  StoresOnlyData(pending'[u])
    <2>1. phase'[u] = phase[u] /\ op'[u] = op[u] /\ pending'[u] = pending[u]
        BY <1>1, StepOwn DEF OwnStep
    <2> QED BY <1>1, <2>1 DEF OthersHarmless, StoresOnlyData, Changing
<1>2. ASSUME ~Changing(t)'
      PROVE  StoresOnlyData(pending'[t])
    <2>1. ASSUME NEW where, NEW io, Then(t, where, io), StoresOnlyData(io)
          PROVE  StoresOnlyData(pending'[t])
        BY <2>1 DEF Then, FilesTypeOK, ControlTyped
    <2>2. CASE Fetch(t) \/ Store(t)
        <3>1. /\ phase' = phase /\ op' = op /\ pending[t] # <<>>
              /\ pending' = [pending EXCEPT ![t] = Tail(@)]
            BY <2>2 DEF Fetch, Store, Ready
        <3>2. StoresOnlyData(pending[t])
            BY <1>2, <3>1 DEF Changing, OthersHarmless, StoresOnlyData
        <3>3. pending[t] \in Seq(SectorIO) /\ pending'[t] = Tail(pending[t])
            BY <3>1 DEF FilesTypeOK, ControlTyped
        <3> QED BY <3>1, <3>2, <3>3, HarmlessLists
    <2>3. CASE Look(t)
        <3>1. \E where : Then(t, where, FetchDirectory)
            BY <2>3 DEF Look
        <3> QED BY <2>1, <3>1, HarmlessLists
    <2>4. CASE Found(t)
        <3>1. op' = op /\ op[t].op \in {"open", "create", "remove"}
            BY <2>4 DEF Found, In
        <3>2. phase'[t] # "idle"
            BY <2>4 DEF Found, Then, FilesTypeOK, ControlTyped
        <3>3. op[t].op = "open"
            BY <1>2, <3>1, <3>2 DEF Changing
        <3>4. \E where, at : Then(t, where, <<Fetch_("header", at)>>)
            BY <2>4, <3>3 DEF Found, In
        <3> QED BY <2>1, <3>4, HarmlessLists
    <2>5. CASE CreateStores(t) \/ Removes(t)
        <3>1. op' = op /\ op[t].op \in {"create", "remove"}
            BY <2>5 DEF CreateStores, Removes, In
        <3>2. CreateStores(t) => \E where : where # "idle" /\ \E io : Then(t, where, io)
            BY DEF CreateStores
        <3>3. Removes(t) => \E where : where # "idle" /\ \E io : Then(t, where, io)
            BY DEF Removes
        <3>4. phase'[t] # "idle"
            BY <2>5, <3>2, <3>3 DEF Then, FilesTypeOK, ControlTyped
        <3> QED BY <1>2, <3>1, <3>4 DEF Changing
    <2>6. CASE NotFound(t) \/ CreateFails(t) \/ Opens(t) \/ Ends(t)
        <3>1. Then(t, "idle", <<>>)
            BY <2>6 DEF NotFound, CreateFails, Opens, Ends
        <3> QED BY <2>1, <3>1, HarmlessLists
    <2>7. CASE ReadAt(t)
        <3>1. PICK o, n :
                Then(t, "ends",
                  [k \in 1..(LastSector(t, n) - FirstSector(t) + 1) |->
                      FetchData(t, FirstSector(t) + k - 1)])
            BY <2>7 DEF ReadAt
        <3>2. \A i : FetchData(t, i).io = "fetch"
            BY DEF FetchData, Fetch_
        <3>3. StoresOnlyData([k \in 1..(LastSector(t, n) - FirstSector(t) + 1) |->
                      FetchData(t, FirstSector(t) + k - 1)])
            BY <3>2 DEF StoresOnlyData
        <3> QED BY <2>1, <3>1, <3>3
    <2>8. CASE WriteAt(t)
        <3>1. \E n : \E one \in {<<>>, <<FetchData(t, FirstSector(t))>>} :
                     \E two \in {<<>>, <<FetchData(t, LastSector(t, n))>>} :
                        Then(t, "merge", one \o two)
            BY <2>8 DEF WriteAt
        <3>2. \E a, b : \E one \in {<<>>, <<Fetch_("data", a)>>} :
                        \E two \in {<<>>, <<Fetch_("data", b)>>} : Then(t, "merge", one \o two)
            BY <3>1 DEF FetchData
        <3> QED BY <2>1, <3>2, HarmlessFetches
    <2>9. CASE WriteMerges(t)
        <3>1. PICK junk :
                Then(t, "ends",
                  [k \in 1..(LastSector(t, Amount(t, op[t].size)) - FirstSector(t) + 1) |->
                      StoreData(t, FirstSector(t) + k - 1, junk)])
            BY <2>9 DEF WriteMerges
        <3>2. \A i : StoreData(t, i, junk).what = "data"
            BY DEF StoreData, Store_
        <3>3. StoresOnlyData([k \in 1..(LastSector(t, Amount(t, op[t].size))
                                          - FirstSector(t) + 1) |->
                      StoreData(t, FirstSector(t) + k - 1, junk)])
            BY <3>2 DEF StoresOnlyData
        <3> QED BY <2>1, <3>1, <3>3
    <2>10. CASE Nothing(t) \/ Seek(t) \/ Closes(t)
        <3>1. pending' = pending /\ pending[t] = <<>>
            BY <2>10 DEF Nothing, Seek, Closes, Begins
        <3> QED BY <3>1, HarmlessLists
    <2> QED BY <2>2, <2>3, <2>4, <2>5, <2>6, <2>7, <2>8, <2>9, <2>10 DEF Step
<1> QED BY <1>1, <1>2 DEF OthersHarmless, StoresOnlyData

-----------------------------------------------------------------------------
(* The stages of Create and Remove                                         *)

\* What follows in a list of sectors.
LEMMA Rest ==
    ASSUME NEW x1, NEW x2, NEW x3, NEW x4
    PROVE  /\ Head(<<x1>>) = x1 /\ Tail(<<x1>>) = <<>>
           /\ Head(<<x1, x2>>) = x1 /\ Tail(<<x1, x2>>) = <<x2>>
           /\ Head(<<x1, x2, x3>>) = x1 /\ Tail(<<x1, x2, x3>>) = <<x2, x3>>
           /\ Head(<<x1, x2, x3, x4>>) = x1 /\ Tail(<<x1, x2, x3, x4>>) = <<x2, x3, x4>>
           /\ <<x1>> # <<>> /\ <<x1, x2>> # <<>>
           /\ <<x1, x2, x3>> # <<>> /\ <<x1, x2, x3, x4>> # <<>>
OBVIOUS

\* Both sectors of the directory come into memory.
LEMMA LookingFetches ==
    ASSUME NEW h, NEW dir \in Directories, NEW map, NEW p, NEW db \in Directories,
           LookingUp(h, dir, map, p, db), p # <<>>
    PROVE  \E k \in {1, 2} : /\ Head(p) = Fetch_("directory", k)
                             /\ LookingUp(h, dir, map, Tail(p), Copied(dir, db, k))
<1>1. CASE p = FetchDirectory
    <2>1. Head(p) = Fetch_("directory", 1) /\ Tail(p) = <<Fetch_("directory", 2)>>
        BY <1>1, Rest DEF FetchDirectory
    <2>2. Copied(dir, Copied(dir, db, 1), 2) = dir
        BY BothCopied
    <2> QED BY <2>1, <2>2 DEF LookingUp
<1>2. CASE p = <<Fetch_("directory", 2)>> /\ Copied(dir, db, 2) = dir
    <2>1. Head(p) = Fetch_("directory", 2) /\ Tail(p) = <<>>
        BY <1>2, Rest
    <2> QED BY <1>2, <2>1 DEF LookingUp
<1> QED BY <1>1, <1>2 DEF LookingUp

LEMMA AllocatingFetches ==
    ASSUME NEW h, NEW dir, NEW map, NEW n, NEW p, NEW db, NEW mb,
           Allocating(h, dir, map, n, p, db, mb), p # <<>>
    PROVE  /\ Head(p) = Fetch_("map", 0)
           /\ Allocating(h, dir, map, n, Tail(p), db, map)
<1>1. p = <<Fetch_("map", 0)>>
    BY DEF Allocating
<1>2. Head(p) = Fetch_("map", 0) /\ Tail(p) = <<>>
    BY <1>1, Rest
<1> QED BY <1>2 DEF Allocating

LEMMA FreeingFetches ==
    ASSUME NEW h, NEW dir, NEW map, NEW n, NEW p, NEW db, NEW mb, NEW hb,
           Freeing(h, dir, map, n, p, db, mb, hb), p # <<>>
    PROVE  \/ /\ Head(p) = Fetch_("header", DirFind(dir, n))
              /\ Freeing(h, dir, map, n, Tail(p), db, mb, h[DirFind(dir, n)])
           \/ /\ Head(p) = Fetch_("map", 0)
              /\ Freeing(h, dir, map, n, Tail(p), db, map, hb)
<1>1. CASE p = <<Fetch_("header", DirFind(dir, n)), Fetch_("map", 0)>>
    <2>1. Head(p) = Fetch_("header", DirFind(dir, n)) /\ Tail(p) = <<Fetch_("map", 0)>>
        BY <1>1, Rest
    <2> QED BY <2>1 DEF Freeing
<1>2. CASE p = <<Fetch_("map", 0)>> /\ hb = h[DirFind(dir, n)]
    <2>1. Head(p) = Fetch_("map", 0) /\ Tail(p) = <<>>
        BY <1>2, Rest
    <2> QED BY <1>2, <2>1 DEF Freeing
<1> QED BY <1>1, <1>2 DEF Freeing

\* The new header is not one of a file that the directory has.
LEMMA NewHeader ==
    ASSUME NEW h \in [Sector -> GoodHeader], NEW n, NEW db, NEW mb, NEW s \in Sector,
           NEW hdr \in GoodHeader, NewFile(h, n, db, mb, s, hdr)
    PROVE  NewFile([h EXCEPT ![s] = hdr], n, db, mb, s, hdr)
<1> DEFINE g == [h EXCEPT ![s] = hdr]
<1>1. \A e \in InUse(db) : db[e].sector # s
    <2>1. \A e \in InUse(db) : db[e].sector \in SectorsIn(h, db, e)
        BY DEF SectorsIn
    <2>2. \A e \in InUse(db) : db[e].sector \in mb
        BY <2>1, MarkedHas DEF NewFile, Settled
    <2> QED BY <2>2 DEF NewFile
<1>2. \A e \in InUse(db) : g[db[e].sector] = h[db[e].sector]
    BY <1>1
<1> HIDE DEF g
<1>3. (ApartIn(g, db) <=> ApartIn(h, db)) /\ MarkedIn(g, db) = MarkedIn(h, db)
    BY <1>2, SameHeaders
<1> QED BY <1>3 DEF NewFile, Settled, g

LEMMA CreatingStores ==
    ASSUME NEW h \in [Sector -> GoodHeader], NEW dir \in Directories, NEW map,
           NEW n \in Name, NEW p, NEW db \in Directories, NEW mb,
           Creating(h, dir, map, n, p, db, mb), p # <<>>
    PROVE  \/ \E s \in Sector : \E hdr \in GoodHeader :
                 /\ Head(p) = Store_("header", s, hdr)
                 /\ Creating([h EXCEPT ![s] = hdr], dir, map, n, Tail(p), db, mb)
           \/ \E k \in {1, 2} : \E new \in Directories :
                 /\ Head(p) = Store_("directory", k, new)
                 /\ Creating(h, Copied(new, dir, k), map, n, Tail(p), db, mb)
           \/ \E new \in SUBSET Sector :
                 /\ Head(p) = Store_("map", 0, new)
                 /\ Creating(h, dir, new, n, Tail(p), db, mb)
<1>1. PICK s \in Sector : \E hdr \in GoodHeader :
              NewFile(h, n, db, mb, s, hdr) /\ CreateStage(h, dir, map, n, p, db, mb, s, hdr)
    BY DEF Creating
<1>2. PICK hdr \in GoodHeader :
              NewFile(h, n, db, mb, s, hdr) /\ CreateStage(h, dir, map, n, p, db, mb, s, hdr)
    BY <1>1
<1>3. PICK x : x = Store_("header", s, hdr)
    OBVIOUS
<1>4. PICK d1 : d1 = StoreNew(n, db, s, 1)
    OBVIOUS
<1>5. PICK d2 : d2 = StoreNew(n, db, s, 2)
    OBVIOUS
<1>6. PICK m : m = StoreNewMap(mb, s, hdr)
    OBVIOUS
<1>7. PICK new \in Directories : new = Add(db, n, s)
    BY <1>2, AddIs DEF NewFile
<1>8. CASE p = <<x, d1, d2, m>> /\ dir = db /\ map = mb
    <2>1. Head(p) = x /\ Tail(p) = <<d1, d2, m>>
        BY <1>8, Rest
    <2>2. [h EXCEPT ![s] = hdr][s] = hdr
        OBVIOUS
    <2>3. CreateStage([h EXCEPT ![s] = hdr], dir, map, n, Tail(p), db, mb, s, hdr)
        BY <1>4, <1>5, <1>6, <1>8, <2>1, <2>2 DEF CreateStage
    <2>4. NewFile([h EXCEPT ![s] = hdr], n, db, mb, s, hdr)
        BY <1>2, NewHeader
    <2>5. Creating([h EXCEPT ![s] = hdr], dir, map, n, Tail(p), db, mb)
        BY <2>3, <2>4 DEF Creating
    <2> QED BY <1>3, <2>1, <2>5
<1>9. CASE p = <<d1, d2, m>> /\ h[s] = hdr /\ dir = db /\ map = mb
    <2>1. Head(p) = d1 /\ Tail(p) = <<d2, m>>
        BY <1>9, Rest
    <2>2. CreateStage(h, Copied(new, dir, 1), map, n, Tail(p), db, mb, s, hdr)
        BY <1>5, <1>6, <1>7, <1>9, <2>1 DEF CreateStage
    <2>3. Creating(h, Copied(new, dir, 1), map, n, Tail(p), db, mb)
        BY <1>2, <2>2 DEF Creating
    <2>4. Head(p) = Store_("directory", 1, new)
        BY <1>4, <1>7, <2>1 DEF StoreNew
    <2> QED BY <2>3, <2>4
<1>10. CASE p = <<d2, m>> /\ h[s] = hdr /\ dir = Copied(Add(db, n, s), db, 1) /\ map = mb
    <2>1. Head(p) = d2 /\ Tail(p) = <<m>>
        BY <1>10, Rest
    <2>2. Copied(new, dir, 2) = new
        BY <1>7, <1>10, BothCopied
    <2>3. CreateStage(h, Copied(new, dir, 2), map, n, Tail(p), db, mb, s, hdr)
        BY <1>6, <1>7, <1>10, <2>1, <2>2 DEF CreateStage
    <2>4. Creating(h, Copied(new, dir, 2), map, n, Tail(p), db, mb)
        BY <1>2, <2>3 DEF Creating
    <2>5. Head(p) = Store_("directory", 2, new)
        BY <1>5, <1>7, <2>1 DEF StoreNew
    <2> QED BY <2>4, <2>5
<1>11. CASE p = <<m>> /\ h[s] = hdr /\ dir = Add(db, n, s) /\ map = mb
    <2>1. Head(p) = m /\ Tail(p) = <<>>
        BY <1>11, Rest
    <2>2. PICK all : all = NewMap(mb, s, hdr)
        OBVIOUS
    <2>3. CreateStage(h, dir, all, n, Tail(p), db, mb, s, hdr)
        BY <1>11, <2>1, <2>2 DEF CreateStage
    <2>4. Creating(h, dir, all, n, Tail(p), db, mb)
        BY <1>2, <2>3 DEF Creating
    <2>5. Head(p) = Store_("map", 0, all)
        BY <1>6, <2>1, <2>2 DEF StoreNewMap
    <2>6. all \in SUBSET Sector
        <3>1. mb \subseteq Sector
            <4>1. \A y \in mb : y \in System \/ \E e \in InUse(db) : y \in SectorsIn(h, db, e)
                BY <1>2, MarkedHas DEF NewFile, Settled
            <4>2. \A e \in InUse(db) : SectorsIn(h, db, e) \subseteq Sector
                BY InUseIs, HeaderIs DEF SectorsIn
            <4> QED BY <4>1, <4>2, SectorsTyped
        <3>2. SectorsOf(hdr) \subseteq Sector
            BY HeaderIs
        <3> QED BY <2>2, <3>1, <3>2 DEF NewMap
    <2> QED BY <2>4, <2>5, <2>6
<1> QED BY <1>2, <1>3, <1>4, <1>5, <1>6, <1>8, <1>9, <1>10, <1>11 DEF CreateStage

LEMMA RemovingStores ==
    ASSUME NEW h, NEW dir \in Directories, NEW map, NEW n, NEW p,
           NEW db \in Directories, NEW mb \in SUBSET Sector, NEW hb,
           Removing(h, dir, map, n, p, db, mb, hb), p # <<>>
    PROVE  \/ \E k \in {1, 2} : \E new \in Directories :
                 /\ Head(p) = Store_("directory", k, new)
                 /\ Removing(h, Copied(new, dir, k), map, n, Tail(p), db, mb, hb)
           \/ \E new \in SUBSET Sector :
                 /\ Head(p) = Store_("map", 0, new)
                 /\ Removing(h, dir, new, n, Tail(p), db, mb, hb)
<1>1. PICK d1 : d1 = StoreOld(n, db, 1)
    OBVIOUS
<1>2. PICK d2 : d2 = StoreOld(n, db, 2)
    OBVIOUS
<1>3. PICK m : m = StoreOldMap(n, db, mb, hb)
    OBVIOUS
<1>4. OldFile(h, n, db, mb, hb)
    BY DEF Removing
<1>5. PICK new \in Directories : new = DirRemove(db, n)
    BY <1>4, DirRemoveIs DEF OldFile
<1>6. CASE p = <<m, d1, d2>> /\ dir = db /\ map = mb
    <2>1. Head(p) = m /\ Tail(p) = <<d1, d2>>
        BY <1>6, Rest
    <2>2. PICK all \in SUBSET Sector : all = OldMap(n, db, mb, hb)
        BY DEF OldMap, Deallocate, Clear
    <2>3. Removing(h, dir, all, n, Tail(p), db, mb, hb)
        BY <1>1, <1>2, <1>4, <1>6, <2>1, <2>2 DEF Removing
    <2>4. Head(p) = Store_("map", 0, all)
        BY <1>3, <2>1, <2>2 DEF StoreOldMap
    <2> QED BY <2>3, <2>4
<1>7. CASE p = <<d1, d2>> /\ dir = db /\ map = OldMap(n, db, mb, hb)
    <2>1. Head(p) = d1 /\ Tail(p) = <<d2>>
        BY <1>7, Rest
    <2>2. Removing(h, Copied(new, dir, 1), map, n, Tail(p), db, mb, hb)
        BY <1>2, <1>4, <1>5, <1>7, <2>1 DEF Removing
    <2>3. Head(p) = Store_("directory", 1, new)
        BY <1>1, <1>5, <2>1 DEF StoreOld
    <2> QED BY <2>2, <2>3
<1>8. CASE p = <<d2>> /\ dir = Copied(DirRemove(db, n), db, 1) /\ map = OldMap(n, db, mb, hb)
    <2>1. Head(p) = d2 /\ Tail(p) = <<>>
        BY <1>8, Rest
    <2>2. Copied(new, dir, 2) = new
        BY <1>5, <1>8, BothCopied
    <2>3. Removing(h, Copied(new, dir, 2), map, n, Tail(p), db, mb, hb)
        BY <1>4, <1>5, <1>8, <2>1, <2>2 DEF Removing
    <2>4. Head(p) = Store_("directory", 2, new)
        BY <1>2, <1>5, <2>1 DEF StoreOld
    <2> QED BY <2>3, <2>4
<1> QED BY <1>1, <1>2, <1>3, <1>6, <1>7, <1>8 DEF Removing

\* What is on the disk when the last sector is through.
LEMMA Created ==
    ASSUME NEW h, NEW dir, NEW map, NEW n \in Name, NEW p, NEW db \in Directories, NEW mb,
           Creating(h, dir, map, n, p, db, mb), p = <<>>
    PROVE  Settled(h, dir, map)
<1>1. PICK s \in Sector : \E hdr \in GoodHeader :
              NewFile(h, n, db, mb, s, hdr) /\ CreateStage(h, dir, map, n, p, db, mb, s, hdr)
    BY DEF Creating
<1>2. PICK hdr \in GoodHeader :
              NewFile(h, n, db, mb, s, hdr) /\ CreateStage(h, dir, map, n, p, db, mb, s, hdr)
    BY <1>1
<1>3. h[s] = hdr /\ dir = Add(db, n, s) /\ map = NewMap(mb, s, hdr)
    BY <1>2, Rest DEF CreateStage
<1>4. Settled(h, Add(db, n, s), mb \cup {s} \cup SectorsOf(h[s]))
    BY <1>2, <1>3, AddApart DEF NewFile
<1> QED BY <1>3, <1>4 DEF NewMap

LEMMA Removed ==
    ASSUME NEW h, NEW dir, NEW map, NEW n, NEW p, NEW db \in Directories, NEW mb, NEW hb,
           Removing(h, dir, map, n, p, db, mb, hb), p = <<>>
    PROVE  Settled(h, dir, map)
<1>1. OldFile(h, n, db, mb, hb) /\ dir = DirRemove(db, n) /\ map = OldMap(n, db, mb, hb)
    BY Rest DEF Removing
<1>2. Settled(h, DirRemove(db, n), Deallocate(mb, h[DirFind(db, n)], DirFind(db, n)))
    BY <1>1, RemoveApart DEF OldFile
<1> QED BY <1>1, <1>2 DEF OldFile, OldMap

-----------------------------------------------------------------------------
(* The thread that creates or removes a file                               *)

\* Where it is.
ChangeOf(t) ==
    Change(phase[t], op[t], header, directory, freeMap, pending[t],
           dirBuf[t], mapBuf[t], hdrBuf[t])

\* It goes on, or the disk is as it was.
ChangeGoesOn(t) ==
    IF Changing(t)' THEN ChangeOf(t)' ELSE Settled(header, directory, freeMap)'

LEMMA FetchDoes ==
    ASSUME FilesTypeOK, NEW t \in Caller, Fetch(t)
    PROVE  /\ pending[t] # <<>> /\ Head(pending[t]).io = "fetch"
           /\ pending'[t] = Tail(pending[t])
           /\ phase' = phase /\ op' = op
           /\ header' = header /\ directory' = directory /\ freeMap' = freeMap
           /\ Head(pending[t]).what = "directory" =>
                 /\ dirBuf'[t] = Copied(directory, dirBuf[t], Head(pending[t]).at)
                 /\ mapBuf' = mapBuf /\ hdrBuf' = hdrBuf
           /\ Head(pending[t]).what = "map" =>
                 mapBuf'[t] = freeMap /\ dirBuf' = dirBuf /\ hdrBuf' = hdrBuf
           /\ Head(pending[t]).what = "header" =>
                 /\ hdrBuf'[t] = header[Head(pending[t]).at]
                 /\ dirBuf' = dirBuf /\ mapBuf' = mapBuf
<1> USE DEF FilesTypeOK
<1>1. PICK x : x = Head(pending[t])
    OBVIOUS
<1>2. /\ pending[t] # <<>> /\ x.io = "fetch" /\ pending'[t] = Tail(pending[t])
      /\ phase' = phase /\ op' = op
      /\ header' = header /\ directory' = directory /\ freeMap' = freeMap
    BY <1>1 DEF Fetch, Ready, IO, ControlTyped, disk
<1>3. x.what = "directory" =>
         /\ dirBuf'[t] = Copied(directory, dirBuf[t], x.at)
         /\ mapBuf' = mapBuf /\ hdrBuf' = hdrBuf
    BY <1>1 DEF Fetch, IO, BuffersTyped
<1>4. x.what = "map" =>
         mapBuf'[t] = freeMap /\ dirBuf' = dirBuf /\ hdrBuf' = hdrBuf
    BY <1>1 DEF Fetch, IO, BuffersTyped, MapFetchFrom
<1>5. x.what = "header" =>
         hdrBuf'[t] = header[x.at] /\ dirBuf' = dirBuf /\ mapBuf' = mapBuf
    BY <1>1 DEF Fetch, IO, BuffersTyped
<1> QED BY <1>1, <1>2, <1>3, <1>4, <1>5

LEMMA StoreDoes ==
    ASSUME FilesTypeOK, NEW t \in Caller, Store(t)
    PROVE  /\ pending[t] # <<>> /\ Head(pending[t]).io = "store"
           /\ pending'[t] = Tail(pending[t])
           /\ phase' = phase /\ op' = op
           /\ dirBuf' = dirBuf /\ mapBuf' = mapBuf /\ hdrBuf' = hdrBuf
           /\ Head(pending[t]).what = "directory" =>
                 /\ directory' = Copied(Head(pending[t]).data, directory, Head(pending[t]).at)
                 /\ freeMap' = freeMap /\ header' = header /\ data' = data
           /\ Head(pending[t]).what = "map" =>
                 /\ freeMap' = Head(pending[t]).data
                 /\ directory' = directory /\ header' = header /\ data' = data
           /\ Head(pending[t]).what = "header" =>
                 /\ header' = [header EXCEPT ![Head(pending[t]).at] = Head(pending[t]).data]
                 /\ directory' = directory /\ freeMap' = freeMap /\ data' = data
           /\ Head(pending[t]).what = "data" =>
                 /\ data' = [data EXCEPT ![Head(pending[t]).at] = Head(pending[t]).data]
                 /\ directory' = directory /\ freeMap' = freeMap /\ header' = header
<1> USE DEF FilesTypeOK
<1>1. PICK x : x = Head(pending[t])
    OBVIOUS
<1>2. /\ pending[t] # <<>> /\ x.io = "store" /\ pending'[t] = Tail(pending[t])
      /\ phase' = phase /\ op' = op
      /\ dirBuf' = dirBuf /\ mapBuf' = mapBuf /\ hdrBuf' = hdrBuf
    BY <1>1 DEF Store, Ready, IO, ControlTyped, buffers
<1>3. x.what = "directory" =>
         /\ directory' = Copied(x.data, directory, x.at)
         /\ freeMap' = freeMap /\ header' = header /\ data' = data
    BY <1>1 DEF Store, IO
<1>4. x.what = "map" =>
         /\ freeMap' = x.data
         /\ directory' = directory /\ header' = header /\ data' = data
    BY <1>1 DEF Store, IO, MapWriteBack
<1>5. x.what = "header" =>
         /\ header' = [header EXCEPT ![x.at] = x.data]
         /\ directory' = directory /\ freeMap' = freeMap /\ data' = data
    BY <1>1 DEF Store, IO
<1>6. x.what = "data" =>
         /\ data' = [data EXCEPT ![x.at] = x.data]
         /\ directory' = directory /\ freeMap' = freeMap /\ header' = header
    BY <1>1 DEF Store, IO
<1> QED BY <1>1, <1>2, <1>3, <1>4, <1>5, <1>6

\* No stage mixes what is fetched and what is stored.
LEMMA StagesFetch ==
    ASSUME NEW h, NEW dir \in Directories, NEW map, NEW n, NEW p, NEW db \in Directories,
           NEW mb, NEW hb, p # <<>>
    PROVE  /\ LookingUp(h, dir, map, p, db) => Head(p).io = "fetch"
           /\ Allocating(h, dir, map, n, p, db, mb) => Head(p).io = "fetch"
           /\ Freeing(h, dir, map, n, p, db, mb, hb) => Head(p).io = "fetch"
<1>1. LookingUp(h, dir, map, p, db) => Head(p).io = "fetch"
    <2>1. ASSUME LookingUp(h, dir, map, p, db)
          PROVE  \E k \in {1, 2} : Head(p) = Fetch_("directory", k)
        BY <2>1, LookingFetches
    <2>2. \A k : Fetch_("directory", k).io = "fetch"
        BY DEF Fetch_
    <2> QED BY <2>1, <2>2
<1>2. Allocating(h, dir, map, n, p, db, mb) => Head(p).io = "fetch"
    BY AllocatingFetches DEF Fetch_
<1>3. Freeing(h, dir, map, n, p, db, mb, hb) => Head(p).io = "fetch"
    BY FreeingFetches DEF Fetch_
<1> QED BY <1>1, <1>2, <1>3

LEMMA StagesStore ==
    ASSUME NEW h \in [Sector -> GoodHeader], NEW dir \in Directories, NEW map,
           NEW n \in Name, NEW p, NEW db \in Directories, NEW mb \in SUBSET Sector, NEW hb,
           p # <<>>
    PROVE  /\ Creating(h, dir, map, n, p, db, mb) => Head(p).io = "store"
           /\ Removing(h, dir, map, n, p, db, mb, hb) => Head(p).io = "store"
<1>1. Creating(h, dir, map, n, p, db, mb) => Head(p).io = "store"
    <2>1. ASSUME Creating(h, dir, map, n, p, db, mb)
          PROVE  \/ \E s \in Sector : \E hdr \in GoodHeader :
                       Head(p) = Store_("header", s, hdr)
                 \/ \E k \in {1, 2} : \E new \in Directories :
                       Head(p) = Store_("directory", k, new)
                 \/ \E new \in SUBSET Sector : Head(p) = Store_("map", 0, new)
        <3>1. \/ \E s \in Sector : \E hdr \in GoodHeader :
                 /\ Head(p) = Store_("header", s, hdr)
                 /\ Creating([h EXCEPT ![s] = hdr], dir, map, n, Tail(p), db, mb)
              \/ \E k \in {1, 2} : \E new \in Directories :
                 /\ Head(p) = Store_("directory", k, new)
                 /\ Creating(h, Copied(new, dir, k), map, n, Tail(p), db, mb)
              \/ \E new \in SUBSET Sector :
                 /\ Head(p) = Store_("map", 0, new)
                 /\ Creating(h, dir, new, n, Tail(p), db, mb)
            BY <2>1, CreatingStores
        <3> QED BY <3>1, Zenon
    <2>2. \A what, at, d : Store_(what, at, d).io = "store"
        BY DEF Store_
    <2> QED BY <2>1, <2>2
<1>2. Removing(h, dir, map, n, p, db, mb, hb) => Head(p).io = "store"
    BY RemovingStores DEF Store_
<1> QED BY <1>1, <1>2

\* What the thread that is at it has.
LEMMA ChangingHas ==
    ASSUME FilesTypeOK, NEW t \in Caller, Changing(t)
    PROVE  /\ op[t] \in FileOperation /\ op[t].name \in Name
           /\ header \in [Sector -> GoodHeader] /\ directory \in Directories
           /\ freeMap \in SUBSET Sector
           /\ dirBuf[t] \in Directories /\ mapBuf[t] \in SUBSET Sector
           /\ hdrBuf[t] \in GoodHeader /\ pending[t] \in Seq(SectorIO)
<1>1. op[t] \in FileOperation /\ op[t].name \in Name
    BY OperationIs DEF Changing, FilesTypeOK, ControlTyped
<1> QED BY <1>1 DEF FilesTypeOK, DiskTyped, BuffersTyped, ControlTyped

LEMMA FetchChanges ==
    ASSUME FilesTypeOK, NEW t \in Caller, Changing(t), ChangeOf(t), Fetch(t)
    PROVE  ChangeGoesOn(t)
<1>1. /\ pending[t] # <<>> /\ Head(pending[t]).io = "fetch"
      /\ pending'[t] = Tail(pending[t])
      /\ phase' = phase /\ op' = op
      /\ header' = header /\ directory' = directory /\ freeMap' = freeMap
    BY FetchDoes
<1>2. Changing(t)'
    BY <1>1 DEF Changing
<1>3. ChangeOf(t)'
    <2>1. CASE phase[t] = "look" /\ LookingUp(header, directory, freeMap, pending[t], dirBuf[t])
        <3>1. PICK k \in {1, 2} :
                /\ Head(pending[t]) = Fetch_("directory", k)
                /\ LookingUp(header, directory, freeMap, Tail(pending[t]),
                           Copied(directory, dirBuf[t], k))
            BY <1>1, <2>1, ChangingHas, LookingFetches
        <3>2. dirBuf'[t] = Copied(directory, dirBuf[t], k)
            BY <3>1, FetchDoes DEF Fetch_
        <3> QED BY <1>1, <2>1, <3>1, <3>2 DEF ChangeOf, Change
    <2>2. CASE /\ phase[t] = "allocate" /\ op[t].op = "create"
               /\ Allocating(header, directory, freeMap, op[t].name, pending[t], dirBuf[t],
                             mapBuf[t])
        <3>1. /\ Head(pending[t]) = Fetch_("map", 0)
              /\ Allocating(header, directory, freeMap, op[t].name, Tail(pending[t]),
                            dirBuf[t], freeMap)
            BY <1>1, <2>2, AllocatingFetches
        <3>2. mapBuf'[t] = freeMap /\ dirBuf' = dirBuf
            BY <3>1, FetchDoes DEF Fetch_
        <3> QED BY <1>1, <2>2, <3>1, <3>2 DEF ChangeOf, Change
    <2>3. CASE /\ phase[t] = "free" /\ op[t].op = "remove"
               /\ Freeing(header, directory, freeMap, op[t].name, pending[t], dirBuf[t],
                          mapBuf[t], hdrBuf[t])
        <3>1. CASE /\ Head(pending[t]) = Fetch_("header", DirFind(directory, op[t].name))
                   /\ Freeing(header, directory, freeMap, op[t].name, Tail(pending[t]),
                              dirBuf[t], mapBuf[t], header[DirFind(directory, op[t].name)])
            <4>1. /\ hdrBuf'[t] = header[DirFind(directory, op[t].name)]
                  /\ dirBuf' = dirBuf /\ mapBuf' = mapBuf
                BY <3>1, FetchDoes DEF Fetch_
            <4> QED BY <1>1, <2>3, <3>1, <4>1 DEF ChangeOf, Change
        <3>2. CASE /\ Head(pending[t]) = Fetch_("map", 0)
                   /\ Freeing(header, directory, freeMap, op[t].name, Tail(pending[t]),
                              dirBuf[t], freeMap, hdrBuf[t])
            <4>1. mapBuf'[t] = freeMap /\ dirBuf' = dirBuf /\ hdrBuf' = hdrBuf
                BY <3>2, FetchDoes DEF Fetch_
            <4> QED BY <1>1, <2>3, <3>2, <4>1 DEF ChangeOf, Change
        <3> QED BY <1>1, <2>3, <3>1, <3>2, FreeingFetches
    <2>4. CASE /\ phase[t] = "ends" /\ op[t].op = "create"
               /\ Creating(header, directory, freeMap, op[t].name, pending[t], dirBuf[t],
                           mapBuf[t])
        BY <1>1, <2>4, ChangingHas, StagesStore
    <2>5. CASE /\ phase[t] = "ends" /\ op[t].op = "remove"
               /\ Removing(header, directory, freeMap, op[t].name, pending[t], dirBuf[t],
                           mapBuf[t], hdrBuf[t])
        BY <1>1, <2>5, ChangingHas, StagesStore
    <2> QED BY <2>1, <2>2, <2>3, <2>4, <2>5 DEF ChangeOf, Change
<1> QED BY <1>2, <1>3 DEF ChangeGoesOn

LEMMA StoreChanges ==
    ASSUME FilesTypeOK, NEW t \in Caller, Changing(t), ChangeOf(t), Store(t)
    PROVE  ChangeGoesOn(t)
<1>1. /\ pending[t] # <<>> /\ Head(pending[t]).io = "store"
      /\ pending'[t] = Tail(pending[t])
      /\ phase' = phase /\ op' = op
      /\ dirBuf' = dirBuf /\ mapBuf' = mapBuf /\ hdrBuf' = hdrBuf
    BY StoreDoes
<1>2. Changing(t)'
    BY <1>1 DEF Changing
<1>3. ChangeOf(t)'
    <2>1. CASE \/ LookingUp(header, directory, freeMap, pending[t], dirBuf[t])
               \/ Allocating(header, directory, freeMap, op[t].name, pending[t], dirBuf[t],
                             mapBuf[t])
               \/ Freeing(header, directory, freeMap, op[t].name, pending[t], dirBuf[t],
                          mapBuf[t], hdrBuf[t])
        BY <1>1, <2>1, ChangingHas, StagesFetch
    <2>2. CASE /\ phase[t] = "ends" /\ op[t].op = "create"
               /\ Creating(header, directory, freeMap, op[t].name, pending[t], dirBuf[t],
                           mapBuf[t])
        <3>1. \/ \E s \in Sector : \E hdr \in GoodHeader :
                 /\ Head(pending[t]) = Store_("header", s, hdr)
                 /\ Creating([header EXCEPT ![s] = hdr], directory, freeMap, op[t].name,
                             Tail(pending[t]), dirBuf[t], mapBuf[t])
              \/ \E k \in {1, 2} : \E new \in Directories :
                 /\ Head(pending[t]) = Store_("directory", k, new)
                 /\ Creating(header, Copied(new, directory, k), freeMap, op[t].name,
                             Tail(pending[t]), dirBuf[t], mapBuf[t])
              \/ \E new \in SUBSET Sector :
                 /\ Head(pending[t]) = Store_("map", 0, new)
                 /\ Creating(header, directory, new, op[t].name, Tail(pending[t]), dirBuf[t],
                             mapBuf[t])
            BY <1>1, <2>2, ChangingHas, CreatingStores
        <3>2. ASSUME NEW s \in Sector, NEW hdr \in GoodHeader,
                     Head(pending[t]) = Store_("header", s, hdr),
                     Creating([header EXCEPT ![s] = hdr], directory, freeMap, op[t].name,
                              Tail(pending[t]), dirBuf[t], mapBuf[t])
              PROVE  ChangeOf(t)'
            <4>1. /\ header' = [header EXCEPT ![s] = hdr]
                  /\ directory' = directory /\ freeMap' = freeMap
                BY <3>2, StoreDoes DEF Store_
            <4> QED BY <1>1, <2>2, <3>2, <4>1 DEF ChangeOf, Change
        <3>3. ASSUME NEW k \in {1, 2}, NEW new \in Directories,
                     Head(pending[t]) = Store_("directory", k, new),
                     Creating(header, Copied(new, directory, k), freeMap, op[t].name,
                              Tail(pending[t]), dirBuf[t], mapBuf[t])
              PROVE  ChangeOf(t)'
            <4>1. /\ directory' = Copied(new, directory, k)
                  /\ header' = header /\ freeMap' = freeMap
                BY <3>3, StoreDoes DEF Store_
            <4> QED BY <1>1, <2>2, <3>3, <4>1 DEF ChangeOf, Change
        <3>4. ASSUME NEW new \in SUBSET Sector,
                     Head(pending[t]) = Store_("map", 0, new),
                     Creating(header, directory, new, op[t].name, Tail(pending[t]),
                              dirBuf[t], mapBuf[t])
              PROVE  ChangeOf(t)'
            <4>1. freeMap' = new /\ header' = header /\ directory' = directory
                BY <3>4, StoreDoes DEF Store_
            <4> QED BY <1>1, <2>2, <3>4, <4>1 DEF ChangeOf, Change
        <3> QED BY <3>1, <3>2, <3>3, <3>4
    <2>3. CASE /\ phase[t] = "ends" /\ op[t].op = "remove"
               /\ Removing(header, directory, freeMap, op[t].name, pending[t], dirBuf[t],
                           mapBuf[t], hdrBuf[t])
        <3>1. \/ \E k \in {1, 2} : \E new \in Directories :
                 /\ Head(pending[t]) = Store_("directory", k, new)
                 /\ Removing(header, Copied(new, directory, k), freeMap, op[t].name,
                             Tail(pending[t]), dirBuf[t], mapBuf[t], hdrBuf[t])
              \/ \E new \in SUBSET Sector :
                 /\ Head(pending[t]) = Store_("map", 0, new)
                 /\ Removing(header, directory, new, op[t].name, Tail(pending[t]), dirBuf[t],
                             mapBuf[t], hdrBuf[t])
            BY <1>1, <2>3, ChangingHas, RemovingStores
        <3>2. ASSUME NEW k \in {1, 2}, NEW new \in Directories,
                     Head(pending[t]) = Store_("directory", k, new),
                     Removing(header, Copied(new, directory, k), freeMap, op[t].name,
                              Tail(pending[t]), dirBuf[t], mapBuf[t], hdrBuf[t])
              PROVE  ChangeOf(t)'
            <4>1. /\ directory' = Copied(new, directory, k)
                  /\ header' = header /\ freeMap' = freeMap
                BY <3>2, StoreDoes DEF Store_
            <4> QED BY <1>1, <2>3, <3>2, <4>1 DEF ChangeOf, Change
        <3>3. ASSUME NEW new \in SUBSET Sector,
                     Head(pending[t]) = Store_("map", 0, new),
                     Removing(header, directory, new, op[t].name, Tail(pending[t]),
                              dirBuf[t], mapBuf[t], hdrBuf[t])
              PROVE  ChangeOf(t)'
            <4>1. freeMap' = new /\ header' = header /\ directory' = directory
                BY <3>3, StoreDoes DEF Store_
            <4> QED BY <1>1, <2>3, <3>3, <4>1 DEF ChangeOf, Change
        <3> QED BY <3>1, <3>2, <3>3
    <2> QED BY <2>1, <2>2, <2>3 DEF ChangeOf, Change
<1> QED BY <1>2, <1>3 DEF ChangeGoesOn

\* An operation that looked, and goes on or gives up: nothing on the disk changed.
LEMMA NotFoundChanges ==
    ASSUME FilesTypeOK, NEW t \in Caller, Changing(t), ChangeOf(t), NotFound(t)
    PROVE  ChangeGoesOn(t)
<1>1. phase[t] = "look" /\ phase'[t] = "idle"
      /\ header' = header /\ directory' = directory /\ freeMap' = freeMap
    BY DEF NotFound, In, Then, FilesTypeOK, ControlTyped, disk
<1>2. LookingUp(header, directory, freeMap, pending[t], dirBuf[t])
    BY <1>1 DEF ChangeOf, Change
<1>3. Settled(header, directory, freeMap)
    BY <1>2 DEF LookingUp
<1>4. ~Changing(t)'
    BY <1>1 DEF Changing
<1> QED BY <1>1, <1>3, <1>4 DEF ChangeGoesOn

LEMMA CreateFailsChanges ==
    ASSUME FilesTypeOK, NEW t \in Caller, Changing(t), ChangeOf(t), CreateFails(t)
    PROVE  ChangeGoesOn(t)
<1>1. phase[t] = "allocate" /\ phase'[t] = "idle"
      /\ header' = header /\ directory' = directory /\ freeMap' = freeMap
    BY DEF CreateFails, In, Then, FilesTypeOK, ControlTyped, disk
<1>2. Allocating(header, directory, freeMap, op[t].name, pending[t], dirBuf[t], mapBuf[t])
    BY <1>1 DEF ChangeOf, Change
<1>3. Settled(header, directory, freeMap)
    BY <1>2 DEF Allocating
<1>4. ~Changing(t)'
    BY <1>1 DEF Changing
<1> QED BY <1>1, <1>3, <1>4 DEF ChangeGoesOn

LEMMA FoundChanges ==
    ASSUME FilesTypeOK, NEW t \in Caller, Changing(t), ChangeOf(t), Found(t)
    PROVE  ChangeGoesOn(t)
<1>1. phase[t] = "look" /\ pending[t] = <<>> /\ op' = op
      /\ header' = header /\ directory' = directory /\ freeMap' = freeMap
      /\ dirBuf' = dirBuf /\ mapBuf' = mapBuf /\ hdrBuf' = hdrBuf
    BY DEF Found, In, disk, buffers
<1>2. LookingUp(header, directory, freeMap, pending[t], dirBuf[t])
    BY <1>1 DEF ChangeOf, Change
<1>3. Settled(header, directory, freeMap) /\ dirBuf[t] = directory
    BY <1>1, <1>2, Rest DEF LookingUp, FetchDirectory
<1>4. CASE op[t].op = "create"
    <2>1. /\ FindIndex(dirBuf[t], op[t].name) = {}
          /\ phase'[t] = "allocate" /\ pending'[t] = <<Fetch_("map", 0)>>
        BY <1>4 DEF Found, In, Then, FilesTypeOK, ControlTyped
    <2>2. Changing(t)'
        BY <1>1, <1>4, <2>1 DEF Changing
    <2>3. ChangeOf(t)'
        BY <1>1, <1>3, <1>4, <2>1 DEF ChangeOf, Change, Allocating
    <2> QED BY <2>2, <2>3 DEF ChangeGoesOn
<1>5. CASE op[t].op = "remove"
    <2>1. /\ FindIndex(dirBuf[t], op[t].name) # {}
          /\ phase'[t] = "free"
          /\ pending'[t] = <<Fetch_("header", DirFind(dirBuf[t], op[t].name)),
                             Fetch_("map", 0)>>
        BY <1>5 DEF Found, In, Then, FilesTypeOK, ControlTyped
    <2>2. Changing(t)'
        BY <1>1, <1>5, <2>1 DEF Changing
    <2>3. Freeing(header', directory', freeMap', op'[t].name, pending'[t], dirBuf'[t],
                  mapBuf'[t], hdrBuf'[t])
        BY <1>1, <1>3, <2>1 DEF Freeing
    <2>4. ChangeOf(t)'
        BY <1>1, <1>5, <2>1, <2>3 DEF ChangeOf, Change
    <2> QED BY <2>2, <2>4 DEF ChangeGoesOn
<1> QED BY <1>4, <1>5 DEF Changing

LEMMA CreateStoresChanges ==
    ASSUME FilesTypeOK, NEW t \in Caller, Changing(t), ChangeOf(t), CreateStores(t)
    PROVE  ChangeGoesOn(t)
<1>1. phase[t] = "allocate" /\ pending[t] = <<>> /\ op' = op /\ op[t].op = "create"
      /\ header' = header /\ directory' = directory /\ freeMap' = freeMap
      /\ dirBuf' = dirBuf /\ mapBuf' = mapBuf /\ hdrBuf' = hdrBuf
    BY DEF CreateStores, In, disk, buffers
<1>2. Allocating(header, directory, freeMap, op[t].name, pending[t], dirBuf[t], mapBuf[t])
    BY <1>1 DEF ChangeOf, Change
<1>3. /\ Settled(header, directory, freeMap) /\ dirBuf[t] = directory
      /\ FindIndex(directory, op[t].name) = {} /\ mapBuf[t] = freeMap
    BY <1>1, <1>2, Rest DEF Allocating
<1>4. op[t] \in FileOperation
    BY ChangingHas
<1>5. PICK s \in Sector : \E hdr \in GoodHeader :
         /\ s \notin mapBuf[t] /\ s \notin SectorsOf(hdr)
         /\ SectorsOf(hdr) \cap mapBuf[t] = {}
         /\ Unused(dirBuf[t]) # {}
         /\ Then(t, "ends",
              <<Store_("header", s, hdr), StoreNew(op[t].name, dirBuf[t], s, 1),
                StoreNew(op[t].name, dirBuf[t], s, 2), StoreNewMap(mapBuf[t], s, hdr)>>)
    BY <1>4, CreateStoresIs
<1>6. PICK hdr \in GoodHeader :
         /\ s \notin mapBuf[t] /\ s \notin SectorsOf(hdr)
         /\ SectorsOf(hdr) \cap mapBuf[t] = {}
         /\ Unused(dirBuf[t]) # {}
         /\ Then(t, "ends",
              <<Store_("header", s, hdr), StoreNew(op[t].name, dirBuf[t], s, 1),
                StoreNew(op[t].name, dirBuf[t], s, 2), StoreNewMap(mapBuf[t], s, hdr)>>)
    BY <1>5
<1>7. PICK p : p = <<Store_("header", s, hdr), StoreNew(op[t].name, dirBuf[t], s, 1),
                     StoreNew(op[t].name, dirBuf[t], s, 2), StoreNewMap(mapBuf[t], s, hdr)>>
    OBVIOUS
<1>8. phase'[t] = "ends" /\ pending'[t] = p
    BY <1>6, <1>7 DEF Then, FilesTypeOK, ControlTyped
<1>9. NewFile(header, op[t].name, dirBuf[t], mapBuf[t], s, hdr)
    BY <1>3, <1>6 DEF NewFile
<1>10. CreateStage(header, directory, freeMap, op[t].name, p, dirBuf[t], mapBuf[t], s, hdr)
    BY <1>3, <1>7 DEF CreateStage
<1>11. Creating(header, directory, freeMap, op[t].name, p, dirBuf[t], mapBuf[t])
    BY <1>9, <1>10 DEF Creating
<1>12. ChangeOf(t)'
    BY <1>1, <1>8, <1>11 DEF ChangeOf, Change
<1>13. Changing(t)'
    BY <1>1, <1>8 DEF Changing
<1> QED BY <1>12, <1>13 DEF ChangeGoesOn

\* Deallocate finds every sector marked.
LEMMA RemoveFindsMarked ==
    ASSUME NEW h, NEW dir \in Directories, NEW map, NEW n, NEW p, NEW db, NEW mb, NEW hb,
           Freeing(h, dir, map, n, p, db, mb, hb), p = <<>>
    PROVE  /\ OldFile(h, n, db, mb, hb) /\ db = dir /\ mb = map
           /\ SectorsOf(hb) \subseteq mb
<1>1. /\ Settled(h, dir, map) /\ db = dir /\ FindIndex(dir, n) # {}
      /\ hb = h[DirFind(dir, n)] /\ mb = map
    BY Rest DEF Freeing
<1>2. EntryOf(dir, n) \in InUse(dir) /\ DirFind(dir, n) = dir[EntryOf(dir, n)].sector
    BY <1>1, FindIndexIs
<1>3. \A x \in SectorsOf(hb) : x \in SectorsIn(h, dir, EntryOf(dir, n))
    BY <1>1, <1>2 DEF SectorsIn
<1>4. SectorsOf(hb) \subseteq map
    BY <1>1, <1>2, <1>3, MarkedHas DEF Settled
<1> QED BY <1>1, <1>4 DEF OldFile

LEMMA RemovesChanges ==
    ASSUME FilesTypeOK, NEW t \in Caller, Changing(t), ChangeOf(t), Removes(t)
    PROVE  ChangeGoesOn(t)
<1>1. phase[t] = "free" /\ pending[t] = <<>> /\ op' = op /\ op[t].op = "remove"
      /\ header' = header /\ directory' = directory /\ freeMap' = freeMap
      /\ dirBuf' = dirBuf /\ mapBuf' = mapBuf /\ hdrBuf' = hdrBuf
    BY DEF Removes, In, disk, buffers
<1>2. Freeing(header, directory, freeMap, op[t].name, pending[t], dirBuf[t], mapBuf[t],
              hdrBuf[t])
    BY <1>1 DEF ChangeOf, Change
<1>3. /\ OldFile(header, op[t].name, dirBuf[t], mapBuf[t], hdrBuf[t])
      /\ dirBuf[t] = directory /\ mapBuf[t] = freeMap
      /\ SectorsOf(hdrBuf[t]) \subseteq mapBuf[t]
    BY <1>1, <1>2, ChangingHas, RemoveFindsMarked
<1>4. PICK p : p = <<StoreOldMap(op[t].name, dirBuf[t], mapBuf[t], hdrBuf[t]),
                     StoreOld(op[t].name, dirBuf[t], 1), StoreOld(op[t].name, dirBuf[t], 2)>>
    OBVIOUS
<1>5. Then(t, "ends", p)
    BY <1>3, <1>4, RemovesIs
<1>6. phase'[t] = "ends" /\ pending'[t] = p
    BY <1>5 DEF Then, FilesTypeOK, ControlTyped
<1>7. Removing(header, directory, freeMap, op[t].name, p, dirBuf[t], mapBuf[t], hdrBuf[t])
    BY <1>3, <1>4 DEF Removing
<1>8. ChangeOf(t)'
    BY <1>1, <1>6, <1>7 DEF ChangeOf, Change
<1>9. Changing(t)'
    BY <1>1, <1>6 DEF Changing
<1> QED BY <1>8, <1>9 DEF ChangeGoesOn

LEMMA EndsChanges ==
    ASSUME FilesTypeOK, NEW t \in Caller, Changing(t), ChangeOf(t), Ends(t)
    PROVE  ChangeGoesOn(t)
<1>1. phase[t] = "ends" /\ pending[t] = <<>> /\ phase'[t] = "idle"
      /\ header' = header /\ directory' = directory /\ freeMap' = freeMap
    BY DEF Ends, In, Then, FilesTypeOK, ControlTyped, disk
<1>2. ~Changing(t)'
    BY <1>1 DEF Changing
<1>3. Settled(header, directory, freeMap)
    BY <1>1, ChangingHas, Created, Removed DEF ChangeOf, Change
<1> QED BY <1>1, <1>2, <1>3 DEF ChangeGoesOn

\* The thread of a create or remove takes only steps of that operation.
LEMMA StepChanges ==
    ASSUME FilesTypeOK, NEW t \in Caller, Changing(t), ChangeOf(t), Step(t)
    PROVE  ChangeGoesOn(t)
<1>1. CASE Fetch(t)
    BY <1>1, FetchChanges
<1>2. CASE Store(t)
    BY <1>2, StoreChanges
<1>3. CASE NotFound(t)
    BY <1>3, NotFoundChanges
<1>4. CASE Found(t)
    BY <1>4, FoundChanges
<1>5. CASE CreateStores(t)
    BY <1>5, CreateStoresChanges
<1>6. CASE CreateFails(t)
    BY <1>6, CreateFailsChanges
<1>7. CASE Removes(t)
    BY <1>7, RemovesChanges
<1>8. CASE Ends(t)
    BY <1>8, EndsChanges
<1>9. ~(Look(t) \/ ReadAt(t) \/ WriteAt(t) \/ Nothing(t) \/ Seek(t) \/ Closes(t))
    BY DEF Look, ReadAt, WriteAt, Nothing, Seek, Closes, Begins, Changing
<1>10. ~(Opens(t) \/ WriteMerges(t))
    BY DEF Opens, WriteMerges, In, Changing
<1> QED BY <1>1, <1>2, <1>3, <1>4, <1>5, <1>6, <1>7, <1>8, <1>9, <1>10 DEF Step

\* What the others do does not touch headers, directory and map, unless it begins.
LEMMA StepOfOthers ==
    ASSUME FilesTypeOK, OthersHarmless, NEW t \in Caller, ~Changing(t), Step(t)
    PROVE  /\ header' = header /\ directory' = directory /\ freeMap' = freeMap
           /\ Changing(t)' => phase'[t] = "look" /\ pending'[t] = FetchDirectory
<1>1. CASE Fetch(t)
    BY <1>1, FetchDoes DEF Changing
<1>2. CASE Store(t)
    <2>1. pending[t] \in Seq(SectorIO) /\ pending[t] # <<>>
        BY <1>2, StoreDoes DEF FilesTypeOK, ControlTyped
    <2>2. 1 \in DOMAIN pending[t] /\ Head(pending[t]) = pending[t][1]
        BY <2>1
    <2>3. Head(pending[t]).what = "data"
        BY <1>2, <2>2, StoreDoes DEF OthersHarmless
    <2> QED BY <1>2, <2>3, StoreDoes DEF Changing
<1>3. CASE Look(t)
    BY <1>3 DEF Look, Then, FilesTypeOK, ControlTyped, disk
<1>4. CASE NotFound(t) \/ CreateFails(t) \/ Opens(t) \/ Ends(t)
    <2>1. UNCHANGED disk /\ Then(t, "idle", <<>>)
        BY <1>4 DEF NotFound, CreateFails, Opens, Ends
    <2> QED BY <2>1 DEF Then, Changing, FilesTypeOK, ControlTyped, disk
<1>5. CASE Found(t)
    BY <1>5 DEF Found, In, Changing, disk
<1>6. CASE CreateStores(t) \/ Removes(t)
    BY <1>6 DEF CreateStores, Removes, In, Changing
<1>7. CASE ReadAt(t)
    <2>1. PICK o : Begins(t, o) /\ o.op = "read" /\ UNCHANGED disk
        BY <1>7 DEF ReadAt
    <2> QED BY <2>1, BeginsIs DEF Changing, disk
<1>8. CASE WriteAt(t)
    <2>1. PICK o : Begins(t, o) /\ o.op = "write" /\ UNCHANGED disk
        BY <1>8 DEF WriteAt
    <2> QED BY <2>1, BeginsIs DEF Changing, disk
<1>9. CASE WriteMerges(t)
    <2>1. op[t].op = "write" /\ op' = op /\ UNCHANGED disk
        BY <1>9 DEF WriteMerges, In
    <2> QED BY <2>1 DEF Changing, disk
<1>10. CASE Nothing(t) \/ Seek(t) \/ Closes(t)
    <2>1. phase' = phase /\ phase[t] = "idle" /\ UNCHANGED disk
        BY <1>10 DEF Nothing, Seek, Closes, Begins
    <2> QED BY <2>1 DEF Changing, disk
<1> QED BY <1>1, <1>2, <1>3, <1>4, <1>5, <1>6, <1>7, <1>8, <1>9, <1>10 DEF Step

-----------------------------------------------------------------------------
(* When the machine stops                                                  *)

\* A create that stopped where the map still covers the directory left the old files,
\* or all of the new.
LEMMA StoppedCreating ==
    ASSUME NEW h, NEW dir, NEW map, NEW n \in Name, NEW p, NEW db \in Directories, NEW mb,
           Creating(h, dir, map, n, p, db, mb), MarkedIn(h, dir) \subseteq map
    PROVE  Settled(h, dir, map) /\ (p # <<>> => dir = db)
<1>1. PICK s \in Sector : \E hdr \in GoodHeader :
              NewFile(h, n, db, mb, s, hdr) /\ CreateStage(h, dir, map, n, p, db, mb, s, hdr)
    BY DEF Creating
<1>2. PICK hdr \in GoodHeader :
              NewFile(h, n, db, mb, s, hdr) /\ CreateStage(h, dir, map, n, p, db, mb, s, hdr)
    BY <1>1
<1>3. Settled(h, db, mb) /\ Unused(db) # {} /\ s \notin mb
    BY <1>2 DEF NewFile
<1>4. CASE dir = db /\ map = mb
    BY <1>3, <1>4
<1>5. ASSUME NEW e \in InUse(dir), dir[e].sector = s, map = mb
      PROVE  FALSE
    <2>1. s \in SectorsIn(h, dir, e)
        BY <1>5 DEF SectorsIn
    <2>2. s \in MarkedIn(h, dir)
        BY <2>1, MarkedHas
    <2> QED BY <1>3, <1>5, <2>2
<1>6. CASE dir = Copied(Add(db, n, s), db, 1) /\ map = mb
    <2>1. \/ Copied(Add(db, n, s), db, 1) = db
          \/ \E e \in InUse(Copied(Add(db, n, s), db, 1)) :
                Copied(Add(db, n, s), db, 1)[e].sector = s
        BY <1>3, HalfAdded
    <2>2. dir = db \/ \E e \in InUse(dir) : dir[e].sector = s
        BY <1>6, <2>1
    <2> QED BY <1>4, <1>5, <1>6, <2>2
<1>7. CASE dir = Add(db, n, s) /\ map = mb
    <2>1. PICK e \in Entry :
             Add(db, n, s)[e] = [inUse |-> TRUE, sector |-> s, name |-> n]
        BY <1>3, AddIs
    <2>2. Add(db, n, s)[e].inUse = TRUE /\ Add(db, n, s)[e].sector = s
        BY <2>1
    <2>3. e \in InUse(dir) /\ dir[e].sector = s
        BY <1>7, <2>2 DEF InUse
    <2> QED BY <1>5, <1>7, <2>3
<1>8. CASE p = <<>> /\ h[s] = hdr /\ dir = Add(db, n, s) /\ map = NewMap(mb, s, hdr)
    BY <1>8, Created
<1> QED BY <1>2, <1>4, <1>6, <1>7, <1>8 DEF CreateStage

LEMMA StoppedRemoving ==
    ASSUME NEW h, NEW dir, NEW map, NEW n, NEW p, NEW db \in Directories, NEW mb, NEW hb,
           Removing(h, dir, map, n, p, db, mb, hb), MarkedIn(h, dir) \subseteq map
    PROVE  Settled(h, dir, map) /\ (dir = db \/ dir = DirRemove(db, n))
<1>1. OldFile(h, n, db, mb, hb)
    BY DEF Removing
<1>2. /\ Settled(h, db, mb) /\ FindIndex(db, n) # {}
      /\ OldMap(n, db, mb, hb) = Deallocate(mb, h[DirFind(db, n)], DirFind(db, n))
    BY <1>1 DEF OldFile, OldMap
<1>3. CASE dir = db /\ map = mb
    BY <1>2, <1>3
<1>4. CASE dir = db /\ map = OldMap(n, db, mb, hb)
    <2>1. EntryOf(db, n) \in InUse(db) /\ DirFind(db, n) = db[EntryOf(db, n)].sector
        BY <1>2, FindIndexIs
    <2>2. DirFind(db, n) \in SectorsIn(h, db, EntryOf(db, n))
        BY <2>1 DEF SectorsIn
    <2>3. DirFind(db, n) \in MarkedIn(h, dir)
        BY <1>4, <2>1, <2>2, MarkedHas
    <2>4. DirFind(db, n) \notin map
        BY <1>4 DEF OldMap, Deallocate, Clear
    <2> QED BY <2>3, <2>4
<1>5. CASE dir = DirRemove(db, n) /\ map = OldMap(n, db, mb, hb)
    BY <1>2, <1>5, RemoveApart
<1>6. CASE dir = Copied(DirRemove(db, n), db, 1) /\ map = OldMap(n, db, mb, hb)
    <2>1. dir = db \/ dir = DirRemove(db, n)
        BY <1>2, <1>6, HalfRemoved
    <2> QED BY <1>4, <1>5, <1>6, <2>1
<1> QED BY <1>3, <1>4, <1>5, <1>6 DEF Removing

LEMMA StoppedChange ==
    ASSUME FilesTypeOK, NEW t \in Caller, Changing(t), ChangeOf(t),
           MarkedIn(header, directory) \subseteq freeMap
    PROVE  Settled(header, directory, freeMap)
<1>1. CASE LookingUp(header, directory, freeMap, pending[t], dirBuf[t])
    BY <1>1 DEF LookingUp
<1>2. CASE Allocating(header, directory, freeMap, op[t].name, pending[t], dirBuf[t], mapBuf[t])
    BY <1>2 DEF Allocating
<1>3. CASE Freeing(header, directory, freeMap, op[t].name, pending[t], dirBuf[t], mapBuf[t],
                   hdrBuf[t])
    BY <1>3 DEF Freeing
<1>4. CASE Creating(header, directory, freeMap, op[t].name, pending[t], dirBuf[t], mapBuf[t])
    BY <1>4, ChangingHas, StoppedCreating
<1>5. CASE Removing(header, directory, freeMap, op[t].name, pending[t], dirBuf[t], mapBuf[t],
                    hdrBuf[t])
    BY <1>5, ChangingHas, StoppedRemoving
<1> QED BY <1>1, <1>2, <1>3, <1>4, <1>5 DEF ChangeOf, Change

-----------------------------------------------------------------------------
(* The invariant                                                           *)

LEMMA FilesInitInv ==
    ASSUME FilesInit
    PROVE  FilesInv
<1>1. FilesTypeOK
    BY FilesInitTyped
<1>2. /\ \A t \in Caller : phase[t] = "idle" /\ pending[t] = <<>>
      /\ lost = TRUE /\ running = FALSE
    BY DEF FilesInit
<1>3. OneChanges
    BY <1>2, ScriptsAssumption DEF FilesInit, OneChanges, MayChange, Changing
<1>4. OthersHarmless
    BY <1>2 DEF OthersHarmless
<1>5. MergeInv /\ ChangeInv /\ QuietInv /\ StopInv
    BY <1>2 DEF MergeInv, ChangeInv, Changing, QuietInv, StopInv
<1> QED BY <1>1, <1>3, <1>4, <1>5 DEF FilesInv

LEMMA StepTyped ==
    ASSUME FilesTypeOK, MergeInv, ChangeInv, NEW t \in Caller, Step(t)
    PROVE  FilesTypeOK'
<1>1. ASSUME Removes(t)
      PROVE  FindIndex(dirBuf[t], op[t].name) # {}
    <2>1. Changing(t) /\ phase[t] = "free"
        BY <1>1 DEF Removes, In, Changing
    <2> QED BY <2>1 DEF ChangeInv, Change, Freeing
<1>2. ASSUME CreateStores(t)
      PROVE  op[t] \in FileOperation
    <2>1. Changing(t)
        BY <1>2 DEF CreateStores, In, Changing
    <2> QED BY <2>1, ChangingHas
<1>3. CASE Fetch(t) \/ Store(t)
    BY <1>3, FetchTyped, StoreTyped
<1>4. CASE Look(t) \/ NotFound(t) \/ Found(t)
    BY <1>4, LookTyped, NotFoundTyped, FoundTyped
<1>5. CASE CreateStores(t) \/ CreateFails(t)
    BY <1>2, <1>5, CreateStoresTyped, CreateFailsTyped
<1>6. CASE Removes(t)
    BY <1>1, <1>6, RemovesTyped
<1>7. CASE Opens(t) \/ ReadAt(t) \/ WriteAt(t) \/ WriteMerges(t)
    BY <1>7, OpensTyped, ReadTyped, WriteTyped, WriteMergesTyped
<1>8. CASE Nothing(t) \/ Seek(t) \/ Closes(t) \/ Ends(t)
    BY <1>8, NothingTyped, SeekTyped, ClosesTyped, EndsTyped
<1> QED BY <1>3, <1>4, <1>5, <1>6, <1>7, <1>8 DEF Step

LEMMA StepInv ==
    ASSUME FilesInv, NEW t \in Caller, Step(t)
    PROVE  FilesInv'
<1> USE DEF FilesInv
<1>1. FilesTypeOK'
    BY StepTyped
<1>2. MergeInv' /\ OneChanges' /\ OthersHarmless' /\ StopInv'
    BY StepMerge, StepOneChanges, StepHarmless, StepStop
<1>3. ~lost
    BY StepOwn DEF OwnStep
<1>4. CASE Changing(t)
    <2>1. ChangeOf(t)
        BY <1>4 DEF ChangeInv, ChangeOf
    <2>2. ChangeGoesOn(t)
        BY <1>4, <2>1, StepChanges
    <2>3. ASSUME NEW u \in Caller, Changing(u)'
          PROVE  u = t
        <3>1. MayChange(u)
            BY <2>3, StepMay DEF MayChange
        <3> QED BY <1>4, <3>1 DEF OneChanges, MayChange
    <2>4. ChangeInv'
        BY <2>2, <2>3 DEF ChangeInv, ChangeGoesOn, ChangeOf
    <2>5. QuietInv'
        BY <2>2 DEF QuietInv, ChangeGoesOn
    <2> QED BY <1>1, <1>2, <2>4, <2>5
<1>5. CASE ~Changing(t)
    <2>1. /\ header' = header /\ directory' = directory /\ freeMap' = freeMap
          /\ Changing(t)' => phase'[t] = "look" /\ pending'[t] = FetchDirectory
        BY <1>5, StepOfOthers
    <2>2. ASSUME NEW u \in Caller, u # t
          PROVE  /\ Changing(u)' <=> Changing(u)
                 /\ ChangeOf(u)' <=> ChangeOf(u)
        BY <2>1, <2>2, StepOwn DEF OwnStep, Changing, ChangeOf
    <2>3. ASSUME Changing(t)'
          PROVE  Settled(header, directory, freeMap)
        <3>1. MayChange(t)
            BY <2>3, StepMay DEF MayChange
        <3>2. \A u \in Caller : ~Changing(u)
            BY <1>5, <3>1 DEF OneChanges, MayChange
        <3> QED BY <1>3, <3>2 DEF QuietInv
    <2>4. Changing(t)' => ChangeOf(t)'
        BY <2>1, <2>3 DEF ChangeOf, Change, LookingUp
    <2>5. ChangeInv'
        <3>1. ASSUME NEW u \in Caller, Changing(u)'
              PROVE  ChangeOf(u)'
            <4>1. CASE u = t
                BY <2>4, <3>1, <4>1
            <4>2. CASE u # t
                BY <2>2, <3>1, <4>2 DEF ChangeInv, ChangeOf
            <4> QED BY <4>1, <4>2
        <3> QED BY <3>1 DEF ChangeInv, ChangeOf
    <2>6. QuietInv'
        <3>1. ASSUME \A u \in Caller : ~Changing(u)'
              PROVE  Settled(header, directory, freeMap)
            <4>1. \A u \in Caller : ~Changing(u)
                BY <1>5, <2>2, <3>1
            <4> QED BY <1>3, <4>1 DEF QuietInv
        <3> QED BY <2>1, <3>1 DEF QuietInv
    <2> QED BY <1>1, <1>2, <2>5, <2>6
<1> QED BY <1>4, <1>5

LEMMA CrashInv ==
    ASSUME FilesInv, Crash
    PROVE  FilesInv'
<1> USE DEF FilesInv
<1>1. /\ running' = FALSE /\ script' = script
      /\ header' = header /\ directory' = directory /\ freeMap' = freeMap
      /\ lost' = (lost \/ ~Sound)
      /\ \A t \in Caller : phase'[t] = "idle" /\ pending'[t] = <<>>
    BY DEF Crash, disk
<1>2. FilesTypeOK'
    BY CrashTyped
<1>3. MergeInv' /\ OthersHarmless' /\ ChangeInv' /\ StopInv'
    BY <1>1 DEF MergeInv, OthersHarmless, ChangeInv, Changing, StopInv
<1>4. OneChanges'
    BY <1>1 DEF OneChanges, MayChange, Changing
<1>5. QuietInv'
    <2>1. ASSUME ~lost'
          PROVE  Settled(header, directory, freeMap)
        <3>1. ~lost /\ Sound
            BY <1>1, <2>1, Zenon
        <3>2. MarkedIn(header, directory) \subseteq freeMap
            BY <3>1, WithHeaders DEF Sound
        <3>3. CASE \A t \in Caller : ~Changing(t)
            BY <3>1, <3>3 DEF QuietInv
        <3>4. ASSUME NEW t \in Caller, Changing(t)
              PROVE  Settled(header, directory, freeMap)
            <4>1. ChangeOf(t)
                BY <3>4 DEF ChangeInv, ChangeOf
            <4> QED BY <3>2, <3>4, <4>1, StoppedChange
        <3> QED BY <3>3, <3>4
    <2> QED BY <1>1, <2>1 DEF QuietInv
<1> QED BY <1>2, <1>3, <1>4, <1>5

LEMMA BootInv ==
    ASSUME FilesInv, Boot
    PROVE  FilesInv'
<1> USE DEF FilesInv
<1>1. /\ ~lost /\ lost' = lost /\ UNCHANGED <<script, op, phase, pending, file>>
      /\ header' = header /\ directory' = directory /\ freeMap' = freeMap
      /\ dirBuf' = dirBuf /\ mapBuf' = mapBuf /\ hdrBuf' = hdrBuf
    BY DEF Boot, disk, control, buffers
<1>2. FilesTypeOK'
    BY BootTyped
<1>3. MergeInv' /\ OneChanges' /\ OthersHarmless'
    BY <1>1 DEF MergeInv, OneChanges, OthersHarmless, MayChange, Changing, Amount
<1>4. \A t \in Caller : phase'[t] = "idle" /\ pending'[t] = <<>>
    BY <1>1 DEF StopInv, Boot
<1>5. ChangeInv' /\ QuietInv'
    <2>1. Settled(header, directory, freeMap)
        BY <1>1, <1>4 DEF QuietInv, Changing
    <2> QED BY <1>1, <1>4, <2>1 DEF ChangeInv, QuietInv, Changing
<1>6. StopInv'
    BY <1>1, <1>4 DEF StopInv
<1> QED BY <1>2, <1>3, <1>5, <1>6

LEMMA FormatInv ==
    ASSUME FilesInv, Format
    PROVE  FilesInv'
<1> USE DEF FilesInv
<1>1. /\ ~running /\ lost' = FALSE /\ UNCHANGED <<script, op, phase, pending, file>>
      /\ freeMap' = System
    BY DEF Format, control
<1>2. FilesTypeOK'
    BY FormatTyped
<1>3. MergeInv' /\ OneChanges' /\ OthersHarmless'
    BY <1>1 DEF MergeInv, OneChanges, OthersHarmless, MayChange, Changing, Amount
<1>4. \A t \in Caller : phase'[t] = "idle"
    BY <1>1 DEF StopInv
<1>5. ChangeInv' /\ StopInv'
    BY <1>1, <1>4 DEF ChangeInv, StopInv, Changing
<1>6. \A e \in Entry : directory'[e].inUse = FALSE
    BY DEF Format, NoEntry
<1>7. InUse(directory') = {}
    BY <1>6 DEF InUse
<1>8. Settled(header', directory', freeMap')
    BY <1>1, <1>7 DEF Settled, ApartIn, MarkedIn, Named
<1>9. QuietInv'
    BY <1>8 DEF QuietInv
<1> QED BY <1>2, <1>3, <1>5, <1>9

LEMMA FilesStutter ==
    ASSUME FilesInv, UNCHANGED filesVars
    PROVE  FilesInv'
BY DEF FilesInv, FilesTypeOK, DiskTyped, BuffersTyped, ControlTyped, MachineTyped, MergeInv,
       Amount, OneChanges, MayChange, Changing, OthersHarmless, ChangeInv, QuietInv, StopInv,
       filesVars, disk, control, buffers, machine

\* The invariant holds: one thread at a time changes files, and headers, directory and map
\* are those of the stage it has reached.
THEOREM FilesInvariant == FilesSpec => []FilesInv
<1>1. FilesInit => FilesInv
    BY FilesInitInv
<1>2. FilesInv /\ [FilesNext]_filesVars => FilesInv'
    <2>1. ASSUME FilesInv, FilesNext
          PROVE  FilesInv'
        BY <2>1, StepInv, CrashInv, BootInv, FormatInv DEF FilesNext
    <2> QED BY <2>1, FilesStutter
<1> QED BY <1>1, <1>2, PTL DEF FilesSpec

\* Disk, buffers and threads hold what they should: what is fetched from a sector is what
\* a sector of its kind holds, and every list of sectors names sectors of the disk.
THEOREM FilesTypeCorrect == FilesSpec => []FilesTypeOK
BY FilesInvariant, PTL DEF FilesInv

-----------------------------------------------------------------------------
(* No two files share a sector                                             *)

\* The files of a directory are apart, and what is marked is theirs.
Good(h, dir, map) ==
    ApartIn(h, dir) /\ Named(dir) /\ map \subseteq MarkedIn(h, dir)
StoresDir(p) == \E i \in DOMAIN p : p[i].io = "store" /\ p[i].what = "directory"

\* What is shown of a create: the old directory until both sectors of it are stored.
LEMMA ShownCreating ==
    ASSUME NEW h, NEW dir, NEW map, NEW n \in Name, NEW p, NEW db \in Directories, NEW mb,
           Creating(h, dir, map, n, p, db, mb)
    PROVE  IF StoresDir(p) THEN Good(h, db, map) ELSE Good(h, dir, map)
<1>1. PICK s \in Sector : \E hdr \in GoodHeader :
              NewFile(h, n, db, mb, s, hdr) /\ CreateStage(h, dir, map, n, p, db, mb, s, hdr)
    BY DEF Creating
<1>2. PICK hdr \in GoodHeader :
              NewFile(h, n, db, mb, s, hdr) /\ CreateStage(h, dir, map, n, p, db, mb, s, hdr)
    BY <1>1
<1>3. map \subseteq mb => Good(h, db, map)
    BY <1>2 DEF NewFile, Settled, Good
<1>4. PICK x : x = Store_("header", s, hdr)
    OBVIOUS
<1>5. PICK d1 : d1 = StoreNew(n, db, s, 1)
    OBVIOUS
<1>6. PICK d2 : d2 = StoreNew(n, db, s, 2)
    OBVIOUS
<1>7. PICK m : m = StoreNewMap(mb, s, hdr)
    OBVIOUS
<1>8. /\ d2.io = "store" /\ d2.what = "directory" /\ m.what # "directory"
    BY <1>6, <1>7 DEF StoreNew, StoreNewMap, Store_
<1>9. CASE p = <<x, d1, d2, m>> /\ map = mb
    <2>1. 3 \in DOMAIN p /\ p[3] = d2
        BY <1>9
    <2> QED BY <1>3, <1>8, <1>9, <2>1 DEF StoresDir
<1>10. CASE p = <<d1, d2, m>> /\ map = mb
    <2>1. 2 \in DOMAIN p /\ p[2] = d2
        BY <1>10
    <2> QED BY <1>3, <1>8, <1>10, <2>1 DEF StoresDir
<1>11. CASE p = <<d2, m>> /\ map = mb
    <2>1. 1 \in DOMAIN p /\ p[1] = d2
        BY <1>11
    <2> QED BY <1>3, <1>8, <1>11, <2>1 DEF StoresDir
<1>12. CASE p = <<m>> /\ h[s] = hdr /\ dir = Add(db, n, s) /\ map = mb
    <2>1. ~StoresDir(p)
        BY <1>8, <1>12 DEF StoresDir
    <2>2. Settled(h, Add(db, n, s), mb \cup {s} \cup SectorsOf(h[s]))
        BY <1>2, <1>12, AddApart DEF NewFile
    <2> QED BY <1>12, <2>1, <2>2 DEF Settled, Good
<1>13. CASE p = <<>>
    <2>1. ~StoresDir(p)
        BY <1>13 DEF StoresDir
    <2>2. Settled(h, dir, map)
        BY <1>13, Created
    <2> QED BY <2>1, <2>2 DEF Settled, Good
<1> QED BY <1>2, <1>4, <1>5, <1>6, <1>7, <1>9, <1>10, <1>11, <1>12, <1>13 DEF CreateStage

LEMMA ShownRemoving ==
    ASSUME NEW h, NEW dir, NEW map, NEW n, NEW p, NEW db \in Directories, NEW mb, NEW hb,
           Removing(h, dir, map, n, p, db, mb, hb)
    PROVE  IF StoresDir(p) THEN Good(h, db, map) ELSE Good(h, dir, map)
<1>1. PICK d1 : d1 = StoreOld(n, db, 1)
    OBVIOUS
<1>2. PICK d2 : d2 = StoreOld(n, db, 2)
    OBVIOUS
<1>3. PICK m : m = StoreOldMap(n, db, mb, hb)
    OBVIOUS
<1>4. d2.io = "store" /\ d2.what = "directory"
    BY <1>2 DEF StoreOld, Store_
<1>5. map \subseteq mb => Good(h, db, map)
    BY DEF Removing, OldFile, Settled, Good
<1>10. OldMap(n, db, mb, hb) \subseteq mb
    BY DEF OldMap, Deallocate, Clear
<1>6. CASE p = <<m, d1, d2>> /\ map = mb
    <2>1. 3 \in DOMAIN p /\ p[3] = d2
        BY <1>6
    <2> QED BY <1>4, <1>5, <1>6, <2>1 DEF StoresDir
<1>7. CASE p = <<d1, d2>> /\ map = OldMap(n, db, mb, hb)
    <2>1. 2 \in DOMAIN p /\ p[2] = d2
        BY <1>7
    <2> QED BY <1>4, <1>5, <1>7, <1>10, <2>1 DEF StoresDir
<1>8. CASE p = <<d2>> /\ map = OldMap(n, db, mb, hb)
    <2>1. 1 \in DOMAIN p /\ p[1] = d2
        BY <1>8
    <2> QED BY <1>4, <1>5, <1>8, <1>10, <2>1 DEF StoresDir
<1>9. CASE p = <<>>
    <2>1. ~StoresDir(p)
        BY <1>9 DEF StoresDir
    <2>2. Settled(h, dir, map)
        BY <1>9, Removed
    <2> QED BY <2>1, <2>2 DEF Settled, Good
<1> QED BY <1>1, <1>2, <1>3, <1>6, <1>7, <1>8, <1>9 DEF Removing

LEMMA ShownChange ==
    ASSUME FilesTypeOK, NEW t \in Caller, Changing(t), ChangeOf(t)
    PROVE  IF StoresDir(pending[t]) THEN Good(header, dirBuf[t], freeMap)
           ELSE Good(header, directory, freeMap)
<1>1. ASSUME Settled(header, directory, freeMap), ~StoresDir(pending[t])
      PROVE  Good(header, directory, freeMap)
    BY <1>1 DEF Settled, Good
<1>2. CASE LookingUp(header, directory, freeMap, pending[t], dirBuf[t])
    <2>1. ~StoresDir(pending[t])
        BY <1>2 DEF LookingUp, FetchDirectory, Fetch_, StoresDir
    <2> QED BY <1>1, <1>2, <2>1 DEF LookingUp
<1>3. CASE Allocating(header, directory, freeMap, op[t].name, pending[t], dirBuf[t], mapBuf[t])
    <2>1. ~StoresDir(pending[t])
        BY <1>3 DEF Allocating, Fetch_, StoresDir
    <2> QED BY <1>1, <1>3, <2>1 DEF Allocating
<1>4. CASE Freeing(header, directory, freeMap, op[t].name, pending[t], dirBuf[t], mapBuf[t],
                   hdrBuf[t])
    <2>1. ~StoresDir(pending[t])
        BY <1>4 DEF Freeing, Fetch_, StoresDir
    <2> QED BY <1>1, <1>4, <2>1 DEF Freeing
<1>5. CASE Creating(header, directory, freeMap, op[t].name, pending[t], dirBuf[t], mapBuf[t])
    BY <1>5, ChangingHas, ShownCreating
<1>6. CASE Removing(header, directory, freeMap, op[t].name, pending[t], dirBuf[t], mapBuf[t],
                    hdrBuf[t])
    BY <1>6, ChangingHas, ShownRemoving
<1> QED BY <1>2, <1>3, <1>4, <1>5, <1>6 DEF ChangeOf, Change

\* Only the thread that creates or removes stores a directory.
LEMMA StoresDirectoryChanges ==
    ASSUME FilesInv, NEW t \in Caller, StoresDirectory(t)
    PROVE  /\ Changing(t) /\ StoresDir(pending[t])
           /\ \A u \in Caller : StoresDirectory(u) => u = t
<1>1. \A u \in Caller : StoresDirectory(u) => Changing(u)
    BY DEF FilesInv, OthersHarmless, StoresDirectory
<1> QED BY <1>1 DEF FilesInv, OneChanges, MayChange, StoresDirectory, StoresDir

LEMMA ShownIs ==
    ASSUME FilesInv
    PROVE  /\ \A t \in Caller : StoresDirectory(t) => Shown = dirBuf[t]
           /\ (\A t \in Caller : ~StoresDirectory(t)) => Shown = directory
<1>1. ASSUME NEW t \in Caller, StoresDirectory(t)
      PROVE  Shown = dirBuf[t]
    <2>1. \A u \in Caller : StoresDirectory(u) => u = t
        BY <1>1, StoresDirectoryChanges
    <2> HIDE DEF StoresDirectory
    <2>2. (CHOOSE u \in Caller : StoresDirectory(u)) = t
        BY <1>1, <2>1
    <2> QED BY <1>1, <2>2 DEF Shown
<1>2. (\A t \in Caller : ~StoresDirectory(t)) => Shown = directory
    BY DEF Shown
<1> QED BY <1>1, <1>2

\* The files that the disk shows.
LEMMA ShownGoodFiles ==
    ASSUME FilesInv, ~lost
    PROVE  /\ ApartIn(header, Shown) /\ Named(Shown) /\ Shown \in Directories
           /\ freeMap \subseteq MarkedIn(header, Shown) \cup MarkedIn(header, directory)
<1>1. \A t \in Caller : dirBuf[t] \in Directories /\ directory \in Directories
    BY DEF FilesInv, FilesTypeOK, DiskTyped, BuffersTyped
<1>2. directory \in Directories
    BY DEF FilesInv, FilesTypeOK, DiskTyped
<1>3. CASE \A t \in Caller : ~Changing(t)
    <2>1. \A t \in Caller : ~StoresDirectory(t)
        BY <1>3, StoresDirectoryChanges
    <2>2. Settled(header, directory, freeMap)
        BY <1>3 DEF FilesInv, QuietInv
    <2> QED BY <1>2, <2>1, <2>2, ShownIs DEF Settled
<1>4. ASSUME NEW t \in Caller, Changing(t)
      PROVE  /\ ApartIn(header, Shown) /\ Named(Shown) /\ Shown \in Directories
             /\ freeMap \subseteq MarkedIn(header, Shown) \cup MarkedIn(header, directory)
    <2>1. ChangeOf(t)
        BY <1>4 DEF FilesInv, ChangeInv, ChangeOf
    <2>2. IF StoresDir(pending[t]) THEN Good(header, dirBuf[t], freeMap)
          ELSE Good(header, directory, freeMap)
        BY <1>4, <2>1, ShownChange DEF FilesInv
    <2>3. CASE StoresDir(pending[t])
        <3>1. StoresDirectory(t)
            BY <2>3 DEF StoresDir, StoresDirectory
        <3> QED BY <1>1, <2>2, <2>3, <3>1, ShownIs DEF Good
    <2>4. CASE ~StoresDir(pending[t])
        <3>1. ASSUME NEW u \in Caller, StoresDirectory(u)
              PROVE  FALSE
            <4>1. u = t
                BY <1>4, <3>1, StoresDirectoryChanges DEF FilesInv, OneChanges, MayChange
            <4> QED BY <2>4, <3>1, <4>1 DEF StoresDir, StoresDirectory
        <3> QED BY <1>2, <2>2, <2>4, <3>1, ShownIs DEF Good
    <2> QED BY <2>3, <2>4
<1> QED BY <1>3, <1>4

LEMMA ApartFromInv ==
    ASSUME FilesInv
    PROVE  FilesApart
<1>1. directory \in [Entry -> DirectoryEntry] /\ header \in [Sector -> FileHeader]
    BY DEF FilesInv, FilesTypeOK, DiskTyped, Directories, GoodHeader
<1> QED BY <1>1, WithHeaders, ShownGoodFiles DEF FilesApart

\* No two files share a sector, and none has one of the system, whatever the threads do
\* and wherever the machine stops; a marked sector belongs to a file that is shown.
THEOREM FilesStayApart == FilesSpec => []FilesApart
BY FilesInvariant, ApartFromInv, PTL

\* FileHeader::Deallocate asserts that each sector it clears is marked.
DeallocateFindsMarked ==
    \A t \in Caller :
        In(t, {"remove"}, "free") => SectorsOf(hdrBuf[t]) \subseteq mapBuf[t]

\* That assertion never fires: what Remove fetched of header and map fits together, though
\* other threads wrote in between.
THEOREM DeallocateAsserts == FilesSpec => []DeallocateFindsMarked
<1>1. FilesInv => DeallocateFindsMarked
    <2> SUFFICES ASSUME FilesInv, NEW t \in Caller, In(t, {"remove"}, "free")
                 PROVE  SectorsOf(hdrBuf[t]) \subseteq mapBuf[t]
        BY DEF DeallocateFindsMarked
    <2>1. Changing(t) /\ phase[t] = "free" /\ pending[t] = <<>>
        BY DEF In, Changing
    <2>2. Freeing(header, directory, freeMap, op[t].name, pending[t], dirBuf[t], mapBuf[t],
                  hdrBuf[t])
        BY <2>1 DEF FilesInv, ChangeInv, Change
    <2>3. directory \in Directories
        BY DEF FilesInv, FilesTypeOK, DiskTyped
    <2> QED BY <2>1, <2>2, <2>3, RemoveFindsMarked
<1> QED BY <1>1, FilesInvariant, PTL

-----------------------------------------------------------------------------
(* What the files hold                                                     *)

\* The units of the file that has its header in sector s.
Holds(h, dt, s) ==
    [p \in 1..h[s].numBytes |->
        dt[h[s].dataSectors[1 + (p - 1) \div SectorSize]][1 + ((p - 1) % SectorSize)]]
NamesOf(dir) == {dir[e].name : e \in InUse(dir)}
FilesIn(h, dir, dt) == [n \in NamesOf(dir) |-> Holds(h, dt, DirFind(dir, n))]

\* One file more, one less, one written; the others are the same.
SameBut(F, G, n) == \A m \in DOMAIN F \ {n} : m \in DOMAIN G /\ G[m] = F[m]
Adds(F, G, n) ==
    /\ n \notin DOMAIN F /\ DOMAIN G = DOMAIN F \cup {n}
    /\ \E k \in 0..MaxUnits : G[n] \in [1..k -> Value]
    /\ SameBut(F, G, n)
Drops(F, G, n) ==
    n \in DOMAIN F /\ DOMAIN G = DOMAIN F \ {n} /\ SameBut(F, G, n)
Writes(F, G, n) ==
    /\ n \in DOMAIN F /\ DOMAIN G = DOMAIN F
    /\ G[n] \in [1..Len(F[n]) -> Value]
    /\ SameBut(F, G, n)

LEMMA NamesHas ==
    ASSUME NEW dir
    PROVE  \A n : n \in NamesOf(dir) <=> FindIndex(dir, n) # {}
BY DEF NamesOf, FindIndex, InUse

\* Each unit of a file is in one of its sectors.
LEMMA UnitInSector ==
    ASSUME NEW hdr \in GoodHeader, NEW p \in 1..hdr.numBytes
    PROVE  /\ hdr.dataSectors[1 + (p - 1) \div SectorSize] \in SectorsOf(hdr)
           /\ hdr.dataSectors[1 + (p - 1) \div SectorSize] \in Sector
           /\ 1 + ((p - 1) % SectorSize) \in Units
<1>1. PICK total \in Nat : total = hdr.numBytes
    BY HeaderIs, SizesOfFiles
<1>2. /\ hdr.dataSectors \in Seq(Sector)
      /\ Len(hdr.dataSectors) = divRoundUp(total, SectorSize)
    BY <1>1, HeaderIs
<1>3. PICK q \in Nat : q = p - 1 /\ q < total
    BY <1>1
<1>4. q \div SectorSize \in Nat /\ q \div SectorSize < divRoundUp(total, SectorSize)
    BY <1>3, SizesOfFiles, RoundUp
<1>5. divRoundUp(total, SectorSize) \in Nat
    BY SizesOfFiles, RoundUp
<1>6. 1 + (q \div SectorSize) \in 1..Len(hdr.dataSectors)
    BY <1>2, <1>4, <1>5
<1>7. q % SectorSize \in 0..(SectorSize - 1)
    BY SizesOfFiles, Division
<1>8. 1 + (q % SectorSize) \in Units
    BY <1>7, SizesOfFiles DEF Units
<1>9. /\ hdr.dataSectors[1 + (q \div SectorSize)] \in SectorsOf(hdr)
      /\ hdr.dataSectors[1 + (q \div SectorSize)] \in Sector
    BY <1>2, <1>6 DEF SectorsOf, ToSet
<1> QED BY <1>3, <1>8, <1>9

LEMMA HoldsTyped ==
    ASSUME NEW h \in [Sector -> GoodHeader], NEW dt \in [Sector -> Contents],
           NEW s \in Sector
    PROVE  /\ h[s].numBytes \in 0..MaxUnits
           /\ Holds(h, dt, s) \in [1..h[s].numBytes -> Value]
<1>1. PICK hdr \in GoodHeader : hdr = h[s]
    OBVIOUS
<1>2. hdr.numBytes \in 0..MaxUnits
    BY HeaderIs
<1>3. ASSUME NEW p \in 1..hdr.numBytes
      PROVE  dt[hdr.dataSectors[1 + (p - 1) \div SectorSize]][1 + ((p - 1) % SectorSize)]
                \in Value
    <2>1. dt[hdr.dataSectors[1 + (p - 1) \div SectorSize]] \in Contents
        BY UnitInSector
    <2> QED BY <2>1, UnitInSector DEF Contents
<1> QED BY <1>1, <1>2, <1>3 DEF Holds

\* A sector that is not of the file does not count.
LEMMA HoldsSame ==
    ASSUME NEW h \in [Sector -> GoodHeader], NEW dt \in [Sector -> Contents],
           NEW du \in [Sector -> Contents], NEW s \in Sector, NEW x \in Sector,
           \A y \in Sector : y # x => du[y] = dt[y], x \notin SectorsOf(h[s])
    PROVE  Holds(h, du, s) = Holds(h, dt, s)
<1>1. PICK hdr \in GoodHeader : hdr = h[s]
    OBVIOUS
<1>2. ASSUME NEW p \in 1..hdr.numBytes
      PROVE  du[hdr.dataSectors[1 + (p - 1) \div SectorSize]]
                = dt[hdr.dataSectors[1 + (p - 1) \div SectorSize]]
    BY <1>1, UnitInSector
<1> QED BY <1>1, <1>2 DEF Holds

\* The header of a file that the directory has is in a sector.
LEMMA NamedFile ==
    ASSUME NEW dir \in Directories, NEW n \in NamesOf(dir)
    PROVE  /\ EntryOf(dir, n) \in InUse(dir) /\ dir[EntryOf(dir, n)].name = n
           /\ DirFind(dir, n) = dir[EntryOf(dir, n)].sector
           /\ DirFind(dir, n) \in Sector
<1>1. FindIndex(dir, n) # {}
    BY NamesHas
<1>2. /\ EntryOf(dir, n) \in InUse(dir) /\ dir[EntryOf(dir, n)].name = n
      /\ DirFind(dir, n) = dir[EntryOf(dir, n)].sector
    BY <1>1, FindIndexIs
<1> QED BY <1>2, InUseIs

LEMMA FilesHeader ==
    ASSUME NEW dir \in Directories, NEW h, NEW g, NEW dt,
           \A e \in InUse(dir) : g[dir[e].sector] = h[dir[e].sector]
    PROVE  FilesIn(g, dir, dt) = FilesIn(h, dir, dt)
<1>1. ASSUME NEW n \in NamesOf(dir)
      PROVE  Holds(g, dt, DirFind(dir, n)) = Holds(h, dt, DirFind(dir, n))
    <2>1. g[DirFind(dir, n)] = h[DirFind(dir, n)]
        BY NamedFile
    <2> QED BY <2>1 DEF Holds
<1> QED BY <1>1 DEF FilesIn

LEMMA FilesAdds ==
    ASSUME NEW h \in [Sector -> GoodHeader], NEW dt \in [Sector -> Contents],
           NEW old \in Directories, Unused(old) # {}, NEW n \in Name, NEW s \in Sector,
           FindIndex(old, n) = {}
    PROVE  Adds(FilesIn(h, old, dt), FilesIn(h, Add(old, n, s), dt), n)
<1>1. PICK e \in Entry :
          /\ ~old[e].inUse /\ Add(old, n, s) \in Directories
          /\ Add(old, n, s)[e] = [inUse |-> TRUE, sector |-> s, name |-> n]
          /\ \A f \in Entry : f # e => Add(old, n, s)[f] = old[f]
    BY AddIs
<1>2. PICK new \in Directories : new = Add(old, n, s)
    BY <1>1
<1>3. /\ new[e].inUse = TRUE /\ new[e].name = n
      /\ \A f \in Entry : f # e => new[f] = old[f]
    BY <1>1, <1>2
<1>4. \A m : m # n => FindIndex(new, m) = FindIndex(old, m)
    BY <1>1, <1>3 DEF FindIndex
<1>5. n \notin NamesOf(old)
    BY NamesHas
<1>6. FindIndex(new, n) # {}
    BY <1>3 DEF FindIndex
<1>7. \A m : m \in NamesOf(new) <=> m \in NamesOf(old) \/ m = n
    BY <1>4, <1>6, NamesHas
<1>8. ASSUME NEW m \in NamesOf(old), m # n
      PROVE  DirFind(new, m) = DirFind(old, m)
    <2>1. FindIndex(new, m) = FindIndex(old, m)
        BY <1>4, <1>8
    <2>2. EntryOf(old, m) \in Entry /\ EntryOf(old, m) # e
        BY <1>1, NamedFile DEF InUse
    <2>3. new[EntryOf(old, m)] = old[EntryOf(old, m)]
        BY <1>3, <2>2
    <2> QED BY <2>1, <2>3 DEF DirFind, EntryOf
<1>9. DirFind(new, n) \in Sector
    BY <1>6, FindTyped
<1>10. PICK k \in 0..MaxUnits : Holds(h, dt, DirFind(new, n)) \in [1..k -> Value]
    BY <1>9, HoldsTyped
<1>11. NamesOf(new) = NamesOf(old) \cup {n}
    BY <1>7
<1>12. /\ DOMAIN FilesIn(h, new, dt) = NamesOf(new)
       /\ DOMAIN FilesIn(h, old, dt) = NamesOf(old)
       /\ \A m \in NamesOf(new) : FilesIn(h, new, dt)[m] = Holds(h, dt, DirFind(new, m))
       /\ \A m \in NamesOf(old) : FilesIn(h, old, dt)[m] = Holds(h, dt, DirFind(old, m))
    BY DEF FilesIn
<1>13. SameBut(FilesIn(h, old, dt), FilesIn(h, new, dt), n)
    BY <1>8, <1>11, <1>12 DEF SameBut
<1>14. \E i \in 0..MaxUnits : FilesIn(h, new, dt)[n] \in [1..i -> Value]
    BY <1>10, <1>11, <1>12
<1> QED BY <1>2, <1>5, <1>11, <1>12, <1>13, <1>14 DEF Adds

\* The names of a directory whose files are apart are different.
LEMMA OnePlace ==
    ASSUME NEW h, NEW dir, ApartIn(h, dir), NEW e \in InUse(dir), NEW f \in InUse(dir),
           dir[e].name = dir[f].name
    PROVE  e = f
BY DEF ApartIn

LEMMA FilesDrops ==
    ASSUME NEW h, NEW dt, NEW old \in Directories, ApartIn(h, old),
           NEW n, FindIndex(old, n) # {}
    PROVE  Drops(FilesIn(h, old, dt), FilesIn(h, DirRemove(old, n), dt), n)
<1>1. PICK new \in Directories : new = DirRemove(old, n)
    BY DirRemoveIs
<1>2. PICK e : e = EntryOf(old, n)
    OBVIOUS
<1>3. /\ e \in InUse(old) /\ old[e].name = n /\ new[e].inUse = FALSE
      /\ \A f \in Entry : f # e => new[f] = old[f]
    <2>1. e \in InUse(old) /\ old[e].name = n
        BY <1>2, FindIndexIs
    <2>2. DirRemove(old, n)[EntryOf(old, n)].inUse = FALSE
        BY DirRemoveIs
    <2>3. \A f \in Entry : f # EntryOf(old, n) => DirRemove(old, n)[f] = old[f]
        BY DirRemoveIs
    <2> QED BY <1>1, <1>2, <2>1, <2>2, <2>3
<1>4. e \in Entry
    BY <1>3 DEF InUse
<1>5. \A m : m # n => FindIndex(new, m) = FindIndex(old, m)
    BY <1>3, <1>4 DEF FindIndex
<1>6. FindIndex(new, n) = {}
    <2>1. ASSUME NEW f \in FindIndex(new, n)
          PROVE  FALSE
        <3>1. f \in Entry /\ new[f].inUse /\ new[f].name = n
            BY <2>1 DEF FindIndex
        <3>2. f # e
            BY <1>3, <3>1
        <3>3. f \in InUse(old) /\ old[f].name = n
            BY <1>3, <3>1, <3>2 DEF InUse
        <3> QED BY <1>3, <3>2, <3>3, OnePlace
    <2> QED BY <2>1
<1>7. \A m : m \in NamesOf(new) <=> m \in NamesOf(old) /\ m # n
    BY <1>5, <1>6, NamesHas
<1>8. n \in NamesOf(old)
    BY NamesHas
<1>9. ASSUME NEW m \in NamesOf(old), m # n
      PROVE  DirFind(new, m) = DirFind(old, m)
    <2>1. FindIndex(new, m) = FindIndex(old, m)
        BY <1>5, <1>9
    <2>2. EntryOf(old, m) \in Entry /\ EntryOf(old, m) # e
        BY <1>3, <1>9, NamedFile DEF InUse
    <2>3. new[EntryOf(old, m)] = old[EntryOf(old, m)]
        BY <1>3, <2>2
    <2> QED BY <2>1, <2>3 DEF DirFind, EntryOf
<1>10. NamesOf(new) = NamesOf(old) \ {n}
    BY <1>7
<1>11. /\ DOMAIN FilesIn(h, new, dt) = NamesOf(new)
       /\ DOMAIN FilesIn(h, old, dt) = NamesOf(old)
       /\ \A m \in NamesOf(new) : FilesIn(h, new, dt)[m] = Holds(h, dt, DirFind(new, m))
       /\ \A m \in NamesOf(old) : FilesIn(h, old, dt)[m] = Holds(h, dt, DirFind(old, m))
    BY DEF FilesIn
<1>12. SameBut(FilesIn(h, old, dt), FilesIn(h, new, dt), n)
    BY <1>9, <1>10, <1>11 DEF SameBut
<1> QED BY <1>1, <1>8, <1>10, <1>11, <1>12 DEF Drops

\* A sector that is written belongs to one file, or to none.
LEMMA FilesWrites ==
    ASSUME NEW h \in [Sector -> GoodHeader], NEW dt \in [Sector -> Contents],
           NEW dir \in Directories, ApartIn(h, dir), NEW x \in Sector, NEW d \in Contents
    PROVE  \/ FilesIn(h, dir, [dt EXCEPT ![x] = d]) = FilesIn(h, dir, dt)
           \/ \E n \in NamesOf(dir) :
                Writes(FilesIn(h, dir, dt), FilesIn(h, dir, [dt EXCEPT ![x] = d]), n)
<1>1. PICK du \in [Sector -> Contents] : du = [dt EXCEPT ![x] = d]
    OBVIOUS
<1>2. /\ DOMAIN FilesIn(h, dir, du) = NamesOf(dir)
      /\ DOMAIN FilesIn(h, dir, dt) = NamesOf(dir)
      /\ \A m \in NamesOf(dir) :
            /\ FilesIn(h, dir, du)[m] = Holds(h, du, DirFind(dir, m))
            /\ FilesIn(h, dir, dt)[m] = Holds(h, dt, DirFind(dir, m))
    BY DEF FilesIn
<1>3. ASSUME NEW m \in NamesOf(dir), x \notin SectorsOf(h[DirFind(dir, m)])
      PROVE  Holds(h, du, DirFind(dir, m)) = Holds(h, dt, DirFind(dir, m))
    <2>1. PICK s \in Sector : s = DirFind(dir, m)
        BY NamedFile
    <2>2. x \notin SectorsOf(h[s])
        BY <1>3, <2>1
    <2>3. \A y \in Sector : y # x => du[y] = dt[y]
        BY <1>1
    <2>4. Holds(h, du, s) = Holds(h, dt, s)
        BY <2>2, <2>3, HoldsSame
    <2> QED BY <2>1, <2>4
<1>4. CASE \A m \in NamesOf(dir) : x \notin SectorsOf(h[DirFind(dir, m)])
    <2>1. FilesIn(h, dir, du) = FilesIn(h, dir, dt)
        BY <1>3, <1>4 DEF FilesIn
    <2> QED BY <1>1, <2>1
<1>5. ASSUME NEW n \in NamesOf(dir), x \in SectorsOf(h[DirFind(dir, n)])
      PROVE  Writes(FilesIn(h, dir, dt), FilesIn(h, dir, du), n)
    <2>1. ASSUME NEW m \in NamesOf(dir), m # n
          PROVE  x \notin SectorsOf(h[DirFind(dir, m)])
        <3>1. EntryOf(dir, m) \in InUse(dir) /\ EntryOf(dir, n) \in InUse(dir)
            BY NamedFile
        <3>2. EntryOf(dir, m) # EntryOf(dir, n)
            BY <2>1, NamedFile
        <3>3. SectorsIn(h, dir, EntryOf(dir, m)) \cap SectorsIn(h, dir, EntryOf(dir, n)) = {}
            BY <3>1, <3>2 DEF ApartIn
        <3>4. x \in SectorsIn(h, dir, EntryOf(dir, n))
            BY <1>5, NamedFile DEF SectorsIn
        <3>5. SectorsOf(h[DirFind(dir, m)]) \subseteq SectorsIn(h, dir, EntryOf(dir, m))
            BY NamedFile DEF SectorsIn
        <3> QED BY <3>3, <3>4, <3>5
    <2>2. SameBut(FilesIn(h, dir, dt), FilesIn(h, dir, du), n)
        BY <1>2, <1>3, <2>1 DEF SameBut
    <2>3. PICK s \in Sector : s = DirFind(dir, n)
        BY NamedFile
    <2>4. PICK k \in Nat : k = h[s].numBytes
        <3>1. h[s].numBytes \in 0..MaxUnits
            BY HoldsTyped
        <3> QED BY <3>1, SizesOfFiles
    <2>5. Holds(h, du, s) \in [1..k -> Value] /\ Holds(h, dt, s) \in [1..k -> Value]
        BY <2>4, HoldsTyped
    <2>6. Len(Holds(h, dt, s)) = k
        BY <2>5
    <2> QED BY <1>2, <2>2, <2>3, <2>5, <2>6 DEF Writes
<1> QED BY <1>1, <1>4, <1>5

-----------------------------------------------------------------------------
(* The promise is kept                                                     *)

\* What the disk shows: the directory of a thread that has one to store, or its own.
ShownGood ==
    /\ \A t \in Caller : Changing(t) =>
          Shown = IF StoresDir(pending[t]) THEN dirBuf[t] ELSE directory
    /\ (\A t \in Caller : ~Changing(t)) => Shown = directory

LEMMA ShownGoodInv == FilesInv => ShownGood
<1>1. ASSUME FilesInv, NEW t \in Caller, Changing(t)
      PROVE  Shown = IF StoresDir(pending[t]) THEN dirBuf[t] ELSE directory
    <2>1. CASE StoresDir(pending[t])
        <3>1. StoresDirectory(t)
            BY <2>1 DEF StoresDir, StoresDirectory
        <3> QED BY <1>1, <2>1, <3>1, ShownIs
    <2>2. CASE ~StoresDir(pending[t])
        <3>1. ASSUME NEW u \in Caller, StoresDirectory(u)
              PROVE  FALSE
            <4>1. u = t
                BY <1>1, <3>1, StoresDirectoryChanges DEF FilesInv, OneChanges, MayChange
            <4> QED BY <2>2, <3>1, <4>1 DEF StoresDir, StoresDirectory
        <3> QED BY <1>1, <2>2, <3>1, ShownIs
    <2> QED BY <2>1, <2>2
<1>2. ASSUME FilesInv, \A t \in Caller : ~Changing(t)
      PROVE  Shown = directory
    <2>1. \A t \in Caller : ~StoresDirectory(t)
        BY <1>2, StoresDirectoryChanges
    <2> QED BY <1>2, <2>1, ShownIs
<1> QED BY <1>1, <1>2 DEF ShownGood

LEMMA ShownGoodNext == FilesInv' => ShownGood'
BY ShownGoodInv, PTL

LEMMA ShownFilesIs ==
    /\ ShownFiles = IF lost THEN <<>> ELSE FilesIn(header, Shown, data)
    /\ ShownFiles' = IF lost' THEN <<>> ELSE FilesIn(header', Shown', data')
BY DEF ShownFiles, FilesIn, NamesOf, Holds, UnitsOf, FileOf

\* A step that adds, drops or writes one file, or does nothing that is seen.
Seen(F, G) ==
    \/ F = G
    \/ \E n \in Name : Adds(F, G, n) \/ Drops(F, G, n) \/ Writes(F, G, n)

LEMMA SeenPromised ==
    ASSUME ~lost, lost' = lost, Seen(ShownFiles, ShownFiles')
    PROVE  [Promise!PNext]_(Promise!pvars)
<1>1. CASE ShownFiles = ShownFiles'
    BY <1>1 DEF Promise!pvars
<1>2. ASSUME NEW n \in Name, Adds(ShownFiles, ShownFiles', n)
      PROVE  Promise!PNext
    <2>1. Promise!PCreate(n)
        BY <1>2 DEF Adds, SameBut, Promise!PCreate, Promise!KeepsOthers, Promise!Others
    <2> QED BY <2>1 DEF Promise!PNext
<1>3. ASSUME NEW n \in Name, Drops(ShownFiles, ShownFiles', n)
      PROVE  Promise!PNext
    <2>1. Promise!PRemove(n)
        BY <1>3 DEF Drops, SameBut, Promise!PRemove, Promise!KeepsOthers, Promise!Others
    <2> QED BY <2>1 DEF Promise!PNext
<1>4. ASSUME NEW n \in Name, Writes(ShownFiles, ShownFiles', n)
      PROVE  Promise!PNext
    <2>1. Promise!PWrite(n)
        BY <1>4 DEF Writes, SameBut, Promise!PWrite, Promise!KeepsOthers, Promise!Others
    <2> QED BY <2>1 DEF Promise!PNext
<1> QED BY <1>1, <1>2, <1>3, <1>4 DEF Seen

\* Create: with the second sector of the directory, the file is there.
LEMMA CreatingShows ==
    ASSUME NEW h \in [Sector -> GoodHeader], NEW dt \in [Sector -> Contents],
           NEW dir \in Directories, NEW map, NEW n \in Name, NEW p,
           NEW db \in Directories, NEW mb, Creating(h, dir, map, n, p, db, mb), p # <<>>
    PROVE  \/ \E s \in Sector : \E hdr \in GoodHeader :
                 /\ Head(p) = Store_("header", s, hdr)
                 /\ StoresDir(p) /\ StoresDir(Tail(p))
                 /\ FilesIn([h EXCEPT ![s] = hdr], db, dt) = FilesIn(h, db, dt)
           \/ \E new \in Directories :
                 /\ Head(p) = Store_("directory", 1, new)
                 /\ StoresDir(p) /\ StoresDir(Tail(p))
           \/ \E new \in Directories :
                 /\ Head(p) = Store_("directory", 2, new)
                 /\ StoresDir(p) /\ ~StoresDir(Tail(p))
                 /\ Adds(FilesIn(h, db, dt), FilesIn(h, Copied(new, dir, 2), dt), n)
           \/ \E new \in SUBSET Sector :
                 /\ Head(p) = Store_("map", 0, new)
                 /\ ~StoresDir(p) /\ ~StoresDir(Tail(p))
<1>1. PICK s \in Sector : \E hdr \in GoodHeader :
              NewFile(h, n, db, mb, s, hdr) /\ CreateStage(h, dir, map, n, p, db, mb, s, hdr)
    BY DEF Creating
<1>2. PICK hdr \in GoodHeader :
              NewFile(h, n, db, mb, s, hdr) /\ CreateStage(h, dir, map, n, p, db, mb, s, hdr)
    BY <1>1
<1>3. PICK x : x = Store_("header", s, hdr)
    OBVIOUS
<1>4. PICK d1 : d1 = StoreNew(n, db, s, 1)
    OBVIOUS
<1>5. PICK d2 : d2 = StoreNew(n, db, s, 2)
    OBVIOUS
<1>6. PICK m : m = StoreNewMap(mb, s, hdr)
    OBVIOUS
<1>7. PICK new \in Directories : new = Add(db, n, s)
    BY <1>2, AddIs DEF NewFile
<1>8. /\ d2.io = "store" /\ d2.what = "directory" /\ m.what # "directory"
    BY <1>5, <1>6 DEF StoreNew, StoreNewMap, Store_
<1>9. /\ StoresDir(<<x, d1, d2, m>>) /\ StoresDir(<<d1, d2, m>>) /\ StoresDir(<<d2, m>>)
      /\ ~StoresDir(<<m>>) /\ ~StoresDir(<<>>)
    <2>1. 3 \in DOMAIN <<x, d1, d2, m>> /\ <<x, d1, d2, m>>[3] = d2
        OBVIOUS
    <2>2. 2 \in DOMAIN <<d1, d2, m>> /\ <<d1, d2, m>>[2] = d2
        OBVIOUS
    <2>3. 1 \in DOMAIN <<d2, m>> /\ <<d2, m>>[1] = d2
        OBVIOUS
    <2>4. StoresDir(<<x, d1, d2, m>>)
        BY <1>8, <2>1 DEF StoresDir
    <2>5. StoresDir(<<d1, d2, m>>)
        BY <1>8, <2>2 DEF StoresDir
    <2>6. StoresDir(<<d2, m>>)
        BY <1>8, <2>3 DEF StoresDir
    <2>7. ~StoresDir(<<m>>) /\ ~StoresDir(<<>>)
        BY <1>8 DEF StoresDir
    <2> QED BY <2>4, <2>5, <2>6, <2>7
<1>10. CASE p = <<x, d1, d2, m>>
    <2>1. Head(p) = x /\ Tail(p) = <<d1, d2, m>>
        BY <1>10, Rest
    <2>2. \A e \in InUse(db) : db[e].sector # s
        <3>1. \A e \in InUse(db) : db[e].sector \in SectorsIn(h, db, e)
            BY DEF SectorsIn
        <3>2. \A e \in InUse(db) : db[e].sector \in mb
            BY <1>2, <3>1, MarkedHas DEF NewFile, Settled
        <3> QED BY <1>2, <3>2 DEF NewFile
    <2>3. PICK g : g = [h EXCEPT ![s] = hdr]
        OBVIOUS
    <2>4. \A e \in InUse(db) : g[db[e].sector] = h[db[e].sector]
        BY <2>2, <2>3
    <2>5. FilesIn(g, db, dt) = FilesIn(h, db, dt)
        BY <2>4, FilesHeader
    <2>6. StoresDir(p) /\ StoresDir(Tail(p))
        BY <1>9, <1>10, <2>1
    <2> QED BY <1>3, <2>1, <2>3, <2>5, <2>6
<1>11. CASE p = <<d1, d2, m>>
    <2>1. Head(p) = d1 /\ Tail(p) = <<d2, m>>
        BY <1>11, Rest
    <2>2. StoresDir(p) /\ StoresDir(Tail(p))
        BY <1>9, <1>11, <2>1
    <2>3. Head(p) = Store_("directory", 1, new)
        BY <1>4, <1>7, <2>1 DEF StoreNew
    <2> QED BY <2>2, <2>3
<1>12. CASE p = <<d2, m>> /\ dir = Copied(Add(db, n, s), db, 1)
    <2>1. Head(p) = d2 /\ Tail(p) = <<m>>
        BY <1>12, Rest
    <2>2. StoresDir(p) /\ ~StoresDir(Tail(p))
        BY <1>9, <1>12, <2>1
    <2>3. Head(p) = Store_("directory", 2, new)
        BY <1>5, <1>7, <2>1 DEF StoreNew
    <2>4. Copied(new, dir, 2) = Add(db, n, s)
        BY <1>7, <1>12, BothCopied
    <2>5. Adds(FilesIn(h, db, dt), FilesIn(h, Add(db, n, s), dt), n)
        BY <1>2, FilesAdds DEF NewFile
    <2> QED BY <2>2, <2>3, <2>4, <2>5
<1>13. CASE p = <<m>>
    <2>1. Head(p) = m /\ Tail(p) = <<>>
        BY <1>13, Rest
    <2>2. ~StoresDir(p) /\ ~StoresDir(Tail(p))
        BY <1>9, <1>13, <2>1
    <2>3. \E all \in SUBSET Sector : Head(p) = Store_("map", 0, all)
        <3>1. \/ \E k \in Sector : \E other \in GoodHeader :
                    Head(p) = Store_("header", k, other)
              \/ \E k \in {1, 2} : \E other \in Directories :
                    Head(p) = Store_("directory", k, other)
              \/ \E all \in SUBSET Sector : Head(p) = Store_("map", 0, all)
            <4>1. \/ \E k \in Sector : \E other \in GoodHeader :
                        /\ Head(p) = Store_("header", k, other)
                        /\ Creating([h EXCEPT ![k] = other], dir, map, n, Tail(p), db, mb)
                  \/ \E k \in {1, 2} : \E other \in Directories :
                        /\ Head(p) = Store_("directory", k, other)
                        /\ Creating(h, Copied(other, dir, k), map, n, Tail(p), db, mb)
                  \/ \E all \in SUBSET Sector :
                        /\ Head(p) = Store_("map", 0, all)
                        /\ Creating(h, dir, all, n, Tail(p), db, mb)
                BY CreatingStores
            <4> QED BY <4>1, Zenon
        <3>2. m.what = "map" /\ (\A at, d : Store_("header", at, d).what = "header")
              /\ (\A at, d : Store_("directory", at, d).what = "directory")
            BY <1>6 DEF StoreNewMap, Store_
        <3> QED BY <2>1, <3>1, <3>2
    <2> QED BY <2>2, <2>3
<1> QED BY <1>2, <1>3, <1>4, <1>5, <1>6, <1>10, <1>11, <1>12, <1>13 DEF CreateStage

\* Remove: with the second sector of the directory, the file is gone.
LEMMA RemovingShows ==
    ASSUME NEW h \in [Sector -> GoodHeader], NEW dt, NEW dir \in Directories, NEW map,
           NEW n, NEW p, NEW db \in Directories, NEW mb \in SUBSET Sector, NEW hb,
           Removing(h, dir, map, n, p, db, mb, hb), p # <<>>
    PROVE  \/ \E new \in Directories :
                 /\ Head(p) = Store_("directory", 1, new)
                 /\ StoresDir(p) /\ StoresDir(Tail(p))
           \/ \E new \in Directories :
                 /\ Head(p) = Store_("directory", 2, new)
                 /\ StoresDir(p) /\ ~StoresDir(Tail(p))
                 /\ Drops(FilesIn(h, db, dt), FilesIn(h, Copied(new, dir, 2), dt), n)
           \/ \E new \in SUBSET Sector :
                 /\ Head(p) = Store_("map", 0, new)
                 /\ StoresDir(p) /\ StoresDir(Tail(p))
<1>1. PICK d1 : d1 = StoreOld(n, db, 1)
    OBVIOUS
<1>2. PICK d2 : d2 = StoreOld(n, db, 2)
    OBVIOUS
<1>3. PICK m : m = StoreOldMap(n, db, mb, hb)
    OBVIOUS
<1>4. OldFile(h, n, db, mb, hb)
    BY DEF Removing
<1>5. PICK new \in Directories : new = DirRemove(db, n)
    BY <1>4, DirRemoveIs DEF OldFile
<1>6. d2.io = "store" /\ d2.what = "directory"
    BY <1>2 DEF StoreOld, Store_
<1>7. /\ StoresDir(<<m, d1, d2>>) /\ StoresDir(<<d1, d2>>) /\ StoresDir(<<d2>>)
      /\ ~StoresDir(<<>>)
    <2>1. 3 \in DOMAIN <<m, d1, d2>> /\ <<m, d1, d2>>[3] = d2
        OBVIOUS
    <2>2. 2 \in DOMAIN <<d1, d2>> /\ <<d1, d2>>[2] = d2
        OBVIOUS
    <2>3. 1 \in DOMAIN <<d2>> /\ <<d2>>[1] = d2
        OBVIOUS
    <2>4. StoresDir(<<m, d1, d2>>)
        BY <1>6, <2>1 DEF StoresDir
    <2>5. StoresDir(<<d1, d2>>)
        BY <1>6, <2>2 DEF StoresDir
    <2>6. StoresDir(<<d2>>)
        BY <1>6, <2>3 DEF StoresDir
    <2>7. ~StoresDir(<<>>)
        BY DEF StoresDir
    <2> QED BY <2>4, <2>5, <2>6, <2>7
<1>8. CASE p = <<m, d1, d2>>
    <2>1. Head(p) = m /\ Tail(p) = <<d1, d2>>
        BY <1>8, Rest
    <2>2. StoresDir(p) /\ StoresDir(Tail(p))
        BY <1>7, <1>8, <2>1
    <2>3. PICK all \in SUBSET Sector : all = OldMap(n, db, mb, hb)
        BY DEF OldMap, Deallocate, Clear
    <2>4. Head(p) = Store_("map", 0, all)
        BY <1>3, <2>1, <2>3 DEF StoreOldMap
    <2> QED BY <2>2, <2>4
<1>9. CASE p = <<d1, d2>>
    <2>1. Head(p) = d1 /\ Tail(p) = <<d2>>
        BY <1>9, Rest
    <2>2. StoresDir(p) /\ StoresDir(Tail(p))
        BY <1>7, <1>9, <2>1
    <2>3. Head(p) = Store_("directory", 1, new)
        BY <1>1, <1>5, <2>1 DEF StoreOld
    <2> QED BY <2>2, <2>3
<1>10. CASE p = <<d2>> /\ dir = Copied(DirRemove(db, n), db, 1)
    <2>1. Head(p) = d2 /\ Tail(p) = <<>>
        BY <1>10, Rest
    <2>2. StoresDir(p) /\ ~StoresDir(Tail(p))
        BY <1>7, <1>10, <2>1
    <2>3. Head(p) = Store_("directory", 2, new)
        BY <1>2, <1>5, <2>1 DEF StoreOld
    <2>4. Copied(new, dir, 2) = DirRemove(db, n)
        BY <1>5, <1>10, BothCopied
    <2>5. Drops(FilesIn(h, db, dt), FilesIn(h, DirRemove(db, n), dt), n)
        BY <1>4, FilesDrops DEF OldFile, Settled
    <2> QED BY <2>2, <2>3, <2>4, <2>5
<1> QED BY <1>1, <1>2, <1>3, <1>8, <1>9, <1>10 DEF Removing

\* A list with a store of the directory left, when its first is done.
LEMMA StoresDirTail ==
    ASSUME NEW p \in Seq(SectorIO), p # <<>>, ~StoresDir(p)
    PROVE  ~StoresDir(Tail(p))
BY NextIO DEF StoresDir

LEMMA StoresNoDirectory ==
    /\ ~StoresDir(<<>>) /\ ~StoresDir(FetchDirectory)
    /\ \A w, a : ~StoresDir(<<Fetch_(w, a)>>)
    /\ \A w, a, v, b : ~StoresDir(<<Fetch_(w, a), Fetch_(v, b)>>)
BY DEF StoresDir, FetchDirectory, Fetch_

\* The disk changes with a sector that is stored.
LEMMA OnlyStores ==
    ASSUME NEW t \in Caller, Step(t)
    PROVE  Store(t) \/ UNCHANGED disk
<1>1. Fetch(t) \/ Look(t) \/ NotFound(t) \/ Found(t) => UNCHANGED disk
    BY DEF Fetch, Look, NotFound, Found
<1>2. CreateStores(t) \/ CreateFails(t) \/ Removes(t) \/ Opens(t) => UNCHANGED disk
    BY DEF CreateStores, CreateFails, Removes, Opens
<1>3. ReadAt(t) \/ WriteAt(t) \/ WriteMerges(t) => UNCHANGED disk
    BY DEF ReadAt, WriteAt, WriteMerges
<1>4. Nothing(t) \/ Seek(t) \/ Closes(t) \/ Ends(t) => UNCHANGED disk
    BY DEF Nothing, Seek, Closes, Ends
<1> QED BY <1>1, <1>2, <1>3, <1>4 DEF Step

\* No other thread creates or removes while one does.
LEMMA OnlyOne ==
    ASSUME FilesInv, NEW t \in Caller, Changing(t), Step(t)
    PROVE  \A u \in Caller : Changing(u)' => u = t
<1>1. \A u \in Caller : MayChange(u)' => MayChange(u)
    BY StepMay DEF FilesInv
<1> QED BY <1>1 DEF FilesInv, OneChanges, MayChange

\* What is shown stays when the disk and the thread that changes it do.
LEMMA SameShown ==
    ASSUME FilesInv, FilesInv', directory' = directory,
           \A u \in Caller : /\ Changing(u)' <=> Changing(u)
                             /\ Changing(u) => pending'[u] = pending[u] /\ dirBuf'[u] = dirBuf[u]
    PROVE  Shown' = Shown
<1>1. ShownGood /\ ShownGood'
    BY ShownGoodInv, ShownGoodNext
<1>2. CASE \A u \in Caller : ~Changing(u)
    BY <1>1, <1>2 DEF ShownGood
<1>3. ASSUME NEW u \in Caller, Changing(u)
      PROVE  Shown' = Shown
    <2>1. Shown = IF StoresDir(pending[u]) THEN dirBuf[u] ELSE directory
        BY <1>1, <1>3 DEF ShownGood
    <2>2. Shown' = IF StoresDir(pending'[u]) THEN dirBuf'[u] ELSE directory'
        BY <1>1, <1>3 DEF ShownGood
    <2> QED BY <1>3, <2>1, <2>2
<1> QED BY <1>2, <1>3

\* Until it stores, Create or Remove shows nothing.
LEMMA UnseenStep ==
    ASSUME FilesInv, NEW t \in Caller, Changing(t), Step(t), ~Store(t)
    PROVE  ~StoresDir(pending[t]) /\ (StoresDir(pending'[t]) => dirBuf'[t] = directory)
<1>1. FilesTypeOK /\ ChangeOf(t)
    BY DEF FilesInv, ChangeInv, ChangeOf
<1>2. ASSUME NEW where, NEW io, Then(t, where, io)
      PROVE  pending'[t] = io
    BY <1>1, <1>2 DEF Then, FilesTypeOK, ControlTyped
<1>3. CASE Fetch(t)
    <2>1. /\ pending[t] # <<>> /\ Head(pending[t]).io = "fetch"
          /\ pending'[t] = Tail(pending[t])
        BY <1>1, <1>3, FetchDoes
    <2>2. ~StoresDir(pending[t])
        <3>1. CASE LookingUp(header, directory, freeMap, pending[t], dirBuf[t])
            BY <3>1, StoresNoDirectory DEF LookingUp
        <3>2. CASE Allocating(header, directory, freeMap, op[t].name, pending[t], dirBuf[t],
                              mapBuf[t])
            BY <3>2, StoresNoDirectory DEF Allocating
        <3>3. CASE Freeing(header, directory, freeMap, op[t].name, pending[t], dirBuf[t],
                           mapBuf[t], hdrBuf[t])
            BY <3>3, StoresNoDirectory DEF Freeing
        <3>4. ~Creating(header, directory, freeMap, op[t].name, pending[t], dirBuf[t],
                        mapBuf[t])
            BY <1>1, <2>1, ChangingHas, StagesStore
        <3>5. ~Removing(header, directory, freeMap, op[t].name, pending[t], dirBuf[t],
                        mapBuf[t], hdrBuf[t])
            BY <1>1, <2>1, ChangingHas, StagesStore
        <3> QED BY <1>1, <3>1, <3>2, <3>3, <3>4, <3>5 DEF ChangeOf, Change
    <2>3. pending[t] \in Seq(SectorIO)
        BY <1>1, ChangingHas
    <2> QED BY <2>1, <2>2, <2>3, StoresDirTail
<1>4. CASE NotFound(t) \/ CreateFails(t) \/ Ends(t)
    <2>1. pending[t] = <<>> /\ Then(t, "idle", <<>>)
        BY <1>4 DEF NotFound, CreateFails, Ends, In
    <2> QED BY <1>2, <2>1, StoresNoDirectory
<1>5. CASE Found(t)
    <2>1. /\ pending[t] = <<>>
          /\ \/ \E where, w, a : Then(t, where, <<Fetch_(w, a)>>)
             \/ \E where, w, a, v, b : Then(t, where, <<Fetch_(w, a), Fetch_(v, b)>>)
        BY <1>5 DEF Found, In
    <2> QED BY <1>2, <2>1, StoresNoDirectory
<1>6. CASE CreateStores(t)
    <2>1. phase[t] = "allocate" /\ pending[t] = <<>> /\ dirBuf' = dirBuf
        BY <1>6 DEF CreateStores, In, buffers
    <2>2. Allocating(header, directory, freeMap, op[t].name, pending[t], dirBuf[t], mapBuf[t])
        BY <1>1, <2>1 DEF ChangeOf, Change
    <2> QED BY <2>1, <2>2, StoresNoDirectory DEF Allocating
<1>7. CASE Removes(t)
    <2>1. phase[t] = "free" /\ pending[t] = <<>> /\ dirBuf' = dirBuf
        BY <1>7 DEF Removes, In, buffers
    <2>2. Freeing(header, directory, freeMap, op[t].name, pending[t], dirBuf[t], mapBuf[t],
                  hdrBuf[t])
        BY <1>1, <2>1 DEF ChangeOf, Change
    <2> QED BY <2>1, <2>2, StoresNoDirectory DEF Freeing
<1>8. ~(Look(t) \/ ReadAt(t) \/ WriteAt(t) \/ Nothing(t) \/ Seek(t) \/ Closes(t))
    BY DEF Look, ReadAt, WriteAt, Nothing, Seek, Closes, Begins, Changing
<1>9. ~(Opens(t) \/ WriteMerges(t))
    BY DEF Opens, WriteMerges, In, Changing
<1> QED BY <1>3, <1>4, <1>5, <1>6, <1>7, <1>8, <1>9 DEF Step

\* The thread that creates or removes: one of its stores is the one that is seen.
LEMMA ChangePromised ==
    ASSUME FilesInv, NEW t \in Caller, Changing(t), Step(t), ~lost, lost' = lost
    PROVE  Seen(ShownFiles, ShownFiles')
<1>1. FilesTypeOK /\ ChangeOf(t) /\ FilesInv'
    BY StepInv DEF FilesInv, ChangeInv, ChangeOf
<1>2. ShownGood /\ ShownGood'
    BY <1>1, ShownGoodInv, ShownGoodNext
<1>3. /\ ShownFiles = FilesIn(header, Shown, data)
      /\ ShownFiles' = FilesIn(header', Shown', data')
    BY ShownFilesIs
<1>4. Shown = IF StoresDir(pending[t]) THEN dirBuf[t] ELSE directory
    BY <1>2 DEF ShownGood
<1>5. \A u \in Caller : Changing(u)' => u = t
    BY OnlyOne
<1>6. CASE ~Store(t)
    <2>1. header' = header /\ data' = data /\ directory' = directory
        BY <1>6, OnlyStores DEF disk
    <2>2. ~StoresDir(pending[t]) /\ (StoresDir(pending'[t]) => dirBuf'[t] = directory)
        BY <1>6, UnseenStep
    <2>3. CASE Changing(t)'
        <3>1. Shown' = IF StoresDir(pending'[t]) THEN dirBuf'[t] ELSE directory'
            BY <1>2, <2>3 DEF ShownGood
        <3> QED BY <1>3, <1>4, <2>1, <2>2, <3>1 DEF Seen
    <2>4. CASE ~Changing(t)'
        <3>1. Shown' = directory'
            BY <1>2, <1>5, <2>4 DEF ShownGood
        <3> QED BY <1>3, <1>4, <2>1, <2>2, <3>1 DEF Seen
    <2> QED BY <2>3, <2>4
<1>7. CASE Store(t)
    <2>1. /\ pending[t] # <<>> /\ Head(pending[t]).io = "store"
          /\ pending'[t] = Tail(pending[t])
          /\ phase' = phase /\ op' = op /\ dirBuf' = dirBuf
        BY <1>1, <1>7, StoreDoes
    <2>2. Changing(t)'
        BY <2>1 DEF Changing
    <2>3. Shown' = IF StoresDir(Tail(pending[t])) THEN dirBuf[t] ELSE directory'
        BY <1>2, <2>1, <2>2 DEF ShownGood
    <2>4. ASSUME NEW new, Head(pending[t]) = Store_("directory", 1, new),
                 StoresDir(pending[t]), StoresDir(Tail(pending[t]))
          PROVE  Seen(ShownFiles, ShownFiles')
        <3>1. header' = header /\ data' = data
            BY <1>1, <1>7, <2>4, StoreDoes DEF Store_
        <3> QED BY <1>3, <1>4, <2>3, <2>4, <3>1 DEF Seen
    <2>5. ASSUME NEW new, Head(pending[t]) = Store_("directory", 2, new),
                 StoresDir(pending[t]), ~StoresDir(Tail(pending[t]))
          PROVE  /\ ShownFiles = FilesIn(header, dirBuf[t], data)
                 /\ ShownFiles' = FilesIn(header, Copied(new, directory, 2), data)
        <3>1. /\ header' = header /\ data' = data
              /\ directory' = Copied(new, directory, 2)
            BY <1>1, <1>7, <2>5, StoreDoes DEF Store_
        <3> QED BY <1>3, <1>4, <2>3, <2>5, <3>1
    <2>6. ASSUME NEW new, Head(pending[t]) = Store_("map", 0, new),
                 StoresDir(pending[t]) <=> StoresDir(Tail(pending[t]))
          PROVE  Seen(ShownFiles, ShownFiles')
        <3>1. header' = header /\ data' = data /\ directory' = directory
            BY <1>1, <1>7, <2>6, StoreDoes DEF Store_
        <3> QED BY <1>3, <1>4, <2>3, <2>6, <3>1 DEF Seen
    <2>7. PICK h \in [Sector -> GoodHeader], dt \in [Sector -> Contents],
               dir \in Directories, n \in Name, db \in Directories :
             h = header /\ dt = data /\ dir = directory /\ n = op[t].name /\ db = dirBuf[t]
        BY <1>1, ChangingHas DEF FilesTypeOK, DiskTyped
    <2>8. CASE Creating(header, directory, freeMap, op[t].name, pending[t], dirBuf[t],
                        mapBuf[t])
        <3>1. PICK p : p = pending[t]
            OBVIOUS
        <3>2. Creating(h, dir, freeMap, n, p, db, mapBuf[t]) /\ p # <<>>
            BY <2>1, <2>7, <2>8, <3>1
        <3>3. \/ \E s \in Sector : \E hdr \in GoodHeader :
                 /\ Head(p) = Store_("header", s, hdr)
                 /\ StoresDir(p) /\ StoresDir(Tail(p))
                 /\ FilesIn([h EXCEPT ![s] = hdr], db, dt) = FilesIn(h, db, dt)
              \/ \E new \in Directories :
                 /\ Head(p) = Store_("directory", 1, new)
                 /\ StoresDir(p) /\ StoresDir(Tail(p))
              \/ \E new \in Directories :
                 /\ Head(p) = Store_("directory", 2, new)
                 /\ StoresDir(p) /\ ~StoresDir(Tail(p))
                 /\ Adds(FilesIn(h, db, dt), FilesIn(h, Copied(new, dir, 2), dt), n)
              \/ \E new \in SUBSET Sector :
                 /\ Head(p) = Store_("map", 0, new)
                 /\ ~StoresDir(p) /\ ~StoresDir(Tail(p))
            BY <3>2, CreatingShows
        <3>4. ASSUME NEW s \in Sector, NEW hdr \in GoodHeader,
                     Head(p) = Store_("header", s, hdr),
                     StoresDir(p), StoresDir(Tail(p)),
                     FilesIn([h EXCEPT ![s] = hdr], db, dt) = FilesIn(h, db, dt)
              PROVE  Seen(ShownFiles, ShownFiles')
            <4>1. header' = [h EXCEPT ![s] = hdr] /\ data' = data
                BY <1>1, <1>7, <2>7, <3>1, <3>4, StoreDoes DEF Store_
            <4>2. Shown = db /\ Shown' = db
                BY <1>4, <2>3, <2>7, <3>1, <3>4
            <4> QED BY <1>3, <2>7, <3>4, <4>1, <4>2 DEF Seen
        <3>5. ASSUME NEW new \in Directories, Head(p) = Store_("directory", 2, new),
                     StoresDir(p), ~StoresDir(Tail(p)),
                     Adds(FilesIn(h, db, dt), FilesIn(h, Copied(new, dir, 2), dt), n)
              PROVE  Seen(ShownFiles, ShownFiles')
            <4>1. Adds(ShownFiles, ShownFiles', n)
                BY <2>5, <2>7, <3>1, <3>5
            <4> QED BY <4>1 DEF Seen
        <3> QED BY <2>4, <2>6, <3>1, <3>3, <3>4, <3>5
    <2>9. CASE Removing(header, directory, freeMap, op[t].name, pending[t], dirBuf[t],
                        mapBuf[t], hdrBuf[t])
        <3>1. PICK p : p = pending[t]
            OBVIOUS
        <3>2. /\ Removing(h, dir, freeMap, n, p, db, mapBuf[t], hdrBuf[t]) /\ p # <<>>
              /\ mapBuf[t] \in SUBSET Sector
            BY <1>1, <2>1, <2>7, <2>9, <3>1, ChangingHas
        <3>3. \/ \E new \in Directories :
                 /\ Head(p) = Store_("directory", 1, new)
                 /\ StoresDir(p) /\ StoresDir(Tail(p))
              \/ \E new \in Directories :
                 /\ Head(p) = Store_("directory", 2, new)
                 /\ StoresDir(p) /\ ~StoresDir(Tail(p))
                 /\ Drops(FilesIn(h, db, dt), FilesIn(h, Copied(new, dir, 2), dt), n)
              \/ \E new \in SUBSET Sector :
                 /\ Head(p) = Store_("map", 0, new)
                 /\ StoresDir(p) /\ StoresDir(Tail(p))
            BY <3>2, RemovingShows
        <3>4. ASSUME NEW new \in Directories, Head(p) = Store_("directory", 2, new),
                     StoresDir(p), ~StoresDir(Tail(p)),
                     Drops(FilesIn(h, db, dt), FilesIn(h, Copied(new, dir, 2), dt), n)
              PROVE  Seen(ShownFiles, ShownFiles')
            <4>1. Drops(ShownFiles, ShownFiles', n)
                BY <2>5, <2>7, <3>1, <3>4
            <4> QED BY <4>1 DEF Seen
        <3> QED BY <2>4, <2>6, <3>1, <3>3, <3>4
    <2>10. ~(\/ LookingUp(header, directory, freeMap, pending[t], dirBuf[t])
             \/ Allocating(header, directory, freeMap, op[t].name, pending[t], dirBuf[t],
                           mapBuf[t])
             \/ Freeing(header, directory, freeMap, op[t].name, pending[t], dirBuf[t],
                        mapBuf[t], hdrBuf[t]))
        BY <1>1, <2>1, ChangingHas, StagesFetch
    <2> QED BY <1>1, <2>8, <2>9, <2>10 DEF ChangeOf, Change
<1> QED BY <1>6, <1>7

\* The other threads write one file, or nothing.
LEMMA OthersPromised ==
    ASSUME FilesInv, NEW t \in Caller, ~Changing(t), Step(t), ~lost, lost' = lost
    PROVE  Seen(ShownFiles, ShownFiles')
<1>1. FilesTypeOK /\ OthersHarmless /\ FilesInv'
    BY StepInv DEF FilesInv
<1>2. ShownGood /\ ShownGood'
    BY <1>1, ShownGoodInv, ShownGoodNext
<1>3. /\ ShownFiles = FilesIn(header, Shown, data)
      /\ ShownFiles' = FilesIn(header', Shown', data')
    BY ShownFilesIs
<1>4. /\ header' = header /\ directory' = directory
      /\ Changing(t)' => pending'[t] = FetchDirectory
    BY <1>1, StepOfOthers
<1>5. \A u \in Caller : u # t =>
         /\ Changing(u)' <=> Changing(u)
         /\ pending'[u] = pending[u] /\ dirBuf'[u] = dirBuf[u]
    BY <1>1, StepOwn DEF OwnStep, Changing
<1>6. Shown' = Shown
    <2>1. CASE ~Changing(t)'
        BY <1>1, <1>4, <1>5, <2>1, SameShown
    <2>2. CASE Changing(t)'
        <3>1. \A u \in Caller : ~Changing(u)
            <4>1. MayChange(t)
                BY <1>1, <2>2, StepMay DEF MayChange
            <4> QED BY <4>1 DEF FilesInv, OneChanges, MayChange
        <3>2. Shown' = IF StoresDir(pending'[t]) THEN dirBuf'[t] ELSE directory'
            BY <1>2, <2>2 DEF ShownGood
        <3>3. ~StoresDir(pending'[t])
            BY <1>4, <2>2, StoresNoDirectory
        <3> QED BY <1>2, <1>4, <3>1, <3>2, <3>3 DEF ShownGood
    <2> QED BY <2>1, <2>2
<1>7. CASE ~Store(t)
    <2>1. data' = data
        BY <1>7, OnlyStores DEF disk
    <2> QED BY <1>3, <1>4, <1>6, <2>1 DEF Seen
<1>8. CASE Store(t)
    <2>1. pending[t] \in Seq(SectorIO) /\ pending[t] # <<>>
        BY <1>1, <1>8, StoreDoes DEF FilesTypeOK, ControlTyped
    <2>2. PICK x \in SectorIO : x = Head(pending[t])
        BY <2>1, NextIO
    <2>3. x.io = "store" /\ x.what = "data"
        <3>1. 1 \in DOMAIN pending[t] /\ Head(pending[t]) = pending[t][1]
            BY <2>1
        <3> QED BY <1>1, <1>8, <2>2, <3>1, StoreDoes DEF OthersHarmless
    <2>4. x.at \in Sector /\ x.data \in Contents
        BY <2>3, StoreIs
    <2>5. data' = [data EXCEPT ![x.at] = x.data]
        BY <1>1, <1>8, <2>2, <2>3, StoreDoes
    <2>6. PICK h \in [Sector -> GoodHeader], dt \in [Sector -> Contents],
               dir \in Directories, at \in Sector, d \in Contents :
             h = header /\ dt = data /\ dir = Shown /\ at = x.at /\ d = x.data
        BY <1>1, <2>4, ShownGoodFiles DEF FilesTypeOK, DiskTyped
    <2>7. ApartIn(h, dir) /\ \A n \in NamesOf(dir) : n \in Name
        BY <2>6, ShownGoodFiles DEF Named, NamesOf
    <2>8. \/ FilesIn(h, dir, [dt EXCEPT ![at] = d]) = FilesIn(h, dir, dt)
          \/ \E n \in NamesOf(dir) :
               Writes(FilesIn(h, dir, dt), FilesIn(h, dir, [dt EXCEPT ![at] = d]), n)
        BY <2>7, FilesWrites
    <2>9. /\ ShownFiles = FilesIn(h, dir, dt)
          /\ ShownFiles' = FilesIn(h, dir, [dt EXCEPT ![at] = d])
        BY <1>3, <1>4, <1>6, <2>5, <2>6
    <2> QED BY <2>7, <2>8, <2>9 DEF Seen
<1> QED BY <1>7, <1>8

LEMMA StepPromised ==
    ASSUME FilesInv, NEW t \in Caller, Step(t)
    PROVE  [Promise!PNext]_(Promise!pvars)
<1>1. ~lost /\ lost \in BOOLEAN /\ lost' \in BOOLEAN
    BY StepOwn DEF FilesInv, FilesTypeOK, MachineTyped, OwnStep
<1>2. CASE lost' = lost
    BY <1>1, <1>2, ChangePromised, OthersPromised, SeenPromised
<1>3. CASE lost' # lost
    <2>1. lost' = TRUE /\ ShownFiles' = <<>>
        BY <1>1, <1>3, ShownFilesIs
    <2>2. Promise!PLose
        BY <2>1 DEF Promise!PLose, Promise!NoFiles
    <2> QED BY <2>2 DEF Promise!PNext
<1> QED BY <1>2, <1>3

\* The machine stops where the map still covers the directory: the old file is there, or
\* it is gone, whatever the operation would have done.
LEMMA StoppedShows ==
    ASSUME FilesInv, NEW t \in Caller, Changing(t),
           MarkedIn(header, directory) \subseteq freeMap
    PROVE  Seen(FilesIn(header, Shown, data), FilesIn(header, directory, data))
<1>1. FilesTypeOK /\ ChangeOf(t)
    BY DEF FilesInv, ChangeInv, ChangeOf
<1>2. Shown = IF StoresDir(pending[t]) THEN dirBuf[t] ELSE directory
    BY ShownGoodInv DEF ShownGood
<1>3. CASE ~StoresDir(pending[t])
    BY <1>2, <1>3 DEF Seen
<1>4. CASE StoresDir(pending[t])
    <2>1. Shown = dirBuf[t] /\ pending[t] # <<>>
        BY <1>2, <1>4, StoresNoDirectory
    <2>2. CASE Creating(header, directory, freeMap, op[t].name, pending[t], dirBuf[t],
                        mapBuf[t])
        <3>1. /\ op[t].name \in Name /\ dirBuf[t] \in Directories
              /\ pending[t] \in Seq(SectorIO)
            BY <1>1, ChangingHas
        <3>2. PICK n \in Name, db \in Directories, p \in Seq(SectorIO) :
                 n = op[t].name /\ db = dirBuf[t] /\ p = pending[t]
            BY <3>1
        <3>3. Creating(header, directory, freeMap, n, p, db, mapBuf[t]) /\ p # <<>>
            BY <2>1, <2>2, <3>2
        <3>4. Settled(header, directory, freeMap) /\ (p # <<>> => directory = db)
            BY <3>3, StoppedCreating
        <3> QED BY <2>1, <3>2, <3>3, <3>4 DEF Seen
    <2>3. CASE Removing(header, directory, freeMap, op[t].name, pending[t], dirBuf[t],
                        mapBuf[t], hdrBuf[t])
        <3>1. directory = dirBuf[t] \/ directory = DirRemove(dirBuf[t], op[t].name)
            BY <1>1, <2>3, ChangingHas, StoppedRemoving
        <3>2. OldFile(header, op[t].name, dirBuf[t], mapBuf[t], hdrBuf[t])
            BY <2>3 DEF Removing
        <3>3. ApartIn(header, dirBuf[t]) /\ FindIndex(dirBuf[t], op[t].name) # {}
            BY <3>2 DEF OldFile, Settled
        <3>4. op[t].name \in Name /\ dirBuf[t] \in Directories
            BY <1>1, ChangingHas
        <3>5. Drops(FilesIn(header, dirBuf[t], data),
                    FilesIn(header, DirRemove(dirBuf[t], op[t].name), data), op[t].name)
            BY <3>3, <3>4, FilesDrops
        <3> QED BY <2>1, <3>1, <3>4, <3>5 DEF Seen
    <2>4. CASE LookingUp(header, directory, freeMap, pending[t], dirBuf[t])
        BY <1>4, <2>4, StoresNoDirectory DEF LookingUp
    <2>5. CASE Allocating(header, directory, freeMap, op[t].name, pending[t], dirBuf[t],
                          mapBuf[t])
        BY <1>4, <2>5, StoresNoDirectory DEF Allocating
    <2>6. CASE Freeing(header, directory, freeMap, op[t].name, pending[t], dirBuf[t],
                       mapBuf[t], hdrBuf[t])
        BY <1>4, <2>6, StoresNoDirectory DEF Freeing
    <2> QED BY <1>1, <2>2, <2>3, <2>4, <2>5, <2>6 DEF ChangeOf, Change
<1> QED BY <1>3, <1>4

LEMMA CrashPromised ==
    ASSUME FilesInv, Crash
    PROVE  [Promise!PNext]_(Promise!pvars)
<1>1. /\ header' = header /\ directory' = directory /\ data' = data
      /\ lost' = (lost \/ ~Sound)
      /\ \A t \in Caller : phase'[t] = "idle"
    BY DEF Crash, disk
<1>2. lost \in BOOLEAN
    BY DEF FilesInv, FilesTypeOK, MachineTyped
<1>3. lost' <=> lost \/ ~Sound
    BY <1>1, Zenon
<1>4. lost' \in BOOLEAN
    BY CrashInv DEF FilesInv, FilesTypeOK, MachineTyped
<1>5. CASE lost'
    <2>1. lost' = TRUE /\ ShownFiles' = <<>>
        BY <1>4, <1>5, ShownFilesIs
    <2>2. Promise!PLose
        BY <2>1 DEF Promise!PLose, Promise!NoFiles
    <2> QED BY <2>2 DEF Promise!PNext
<1>6. CASE ~lost'
    <2>1. ~lost /\ Sound /\ lost' = lost
        BY <1>2, <1>3, <1>4, <1>6
    <2>2. MarkedIn(header, directory) \subseteq freeMap
        BY <2>1, WithHeaders DEF Sound
    <2>3. Shown' = directory
        <3>1. ShownGood'
            BY CrashInv, ShownGoodNext
        <3>2. \A t \in Caller : ~Changing(t)'
            BY <1>1 DEF Changing
        <3> QED BY <1>1, <3>1, <3>2 DEF ShownGood
    <2>4. /\ ShownFiles = FilesIn(header, Shown, data)
          /\ ShownFiles' = FilesIn(header, directory, data)
        BY <1>1, <1>6, <2>1, <2>3, ShownFilesIs
    <2>5. CASE \A t \in Caller : ~Changing(t)
        <3>1. Shown = directory
            BY <2>5, ShownGoodInv DEF ShownGood
        <3>2. Seen(ShownFiles, ShownFiles')
            BY <2>4, <3>1 DEF Seen
        <3> QED BY <2>1, <3>2, SeenPromised
    <2>6. ASSUME NEW t \in Caller, Changing(t)
          PROVE  Seen(ShownFiles, ShownFiles')
        BY <2>2, <2>4, <2>6, StoppedShows
    <2> QED BY <2>1, <2>5, <2>6, SeenPromised
<1> QED BY <1>5, <1>6

LEMMA BootPromised ==
    ASSUME FilesInv, Boot
    PROVE  [Promise!PNext]_(Promise!pvars)
<1>1. /\ header' = header /\ directory' = directory /\ data' = data /\ lost' = lost
      /\ phase' = phase /\ op' = op /\ pending' = pending /\ dirBuf' = dirBuf
    BY DEF Boot, disk, control, buffers
<1>2. Shown' = Shown
    BY <1>1, BootInv, SameShown DEF Changing
<1>3. ShownFiles' = ShownFiles
    BY <1>1, <1>2, ShownFilesIs
<1> QED BY <1>1, <1>3 DEF Promise!pvars

LEMMA FormatPromised ==
    ASSUME FilesInv, Format
    PROVE  [Promise!PNext]_(Promise!pvars)
<1>1. lost' = FALSE /\ phase' = phase /\ ~running
    BY DEF Format, control
<1>2. \A e \in Entry : directory'[e].inUse = FALSE
    BY DEF Format, NoEntry
<1>3. \A t \in Caller : ~Changing(t)'
    BY <1>1 DEF FilesInv, StopInv, Changing
<1>4. Shown' = directory'
    BY <1>3, FormatInv, ShownGoodNext DEF ShownGood
<1>5. NamesOf(Shown') = {}
    BY <1>2, <1>4 DEF NamesOf, InUse
<1>6. ShownFiles' = FilesIn(header', Shown', data')
    BY <1>1, ShownFilesIs
<1>7. ShownFiles' = <<>>
    BY <1>5, <1>6 DEF FilesIn
<1>8. Promise!PFormat
    BY <1>1, <1>7 DEF Promise!PFormat, Promise!NoFiles
<1> QED BY <1>8 DEF Promise!PNext

LEMMA StutterPromised ==
    ASSUME FilesInv, UNCHANGED filesVars
    PROVE  [Promise!PNext]_(Promise!pvars)
<1>1. /\ header' = header /\ directory' = directory /\ data' = data /\ lost' = lost
      /\ phase' = phase /\ op' = op /\ pending' = pending /\ dirBuf' = dirBuf
    BY DEF filesVars, disk, control, buffers, machine
<1>2. Shown' = Shown
    BY <1>1, FilesStutter, SameShown DEF Changing
<1>3. ShownFiles' = ShownFiles
    BY <1>1, <1>2, ShownFilesIs
<1> QED BY <1>1, <1>3 DEF Promise!pvars

\* The file system keeps what NachosFilePromise says: sector by sector, with other threads
\* in between and the machine stopping anywhere, files come, go and are written one at a
\* time and as a whole.
THEOREM PromiseKept == FilesSpec => RefinesPromise
<1>1. FilesInit => Promise!PInit
    <2>1. FilesInit => lost = TRUE
        BY DEF FilesInit
    <2>2. lost = TRUE => ShownFiles = <<>>
        BY ShownFilesIs
    <2> QED BY <2>1, <2>2 DEF Promise!PInit, Promise!NoFiles
<1>2. FilesInv /\ [FilesNext]_filesVars => [Promise!PNext]_(Promise!pvars)
    <2>1. ASSUME FilesInv, FilesNext
          PROVE  [Promise!PNext]_(Promise!pvars)
        BY <2>1, StepPromised, CrashPromised, BootPromised, FormatPromised DEF FilesNext
    <2> QED BY <2>1, StutterPromised
<1> QED BY <1>1, <1>2, FilesInvariant, PTL DEF FilesSpec, RefinesPromise, Promise!PSpec

-----------------------------------------------------------------------------
(* Writes to files that are there spoil nothing                            *)

\* Data in a sector of a file that is shown is in the place of no header, of none that a
\* create has stored ahead of its directory either, and of no sector of the system.
WritesSpoilNothing ==
    ~lost => \A e \in InUse(Shown) : \A s \in SectorsOf(header[Shown[e].sector]) : ~Spoils(s)

\* A header is not one of the sectors of its own file.
NoLoops == \A s \in Sector : s \notin SectorsOf(header[s])

HeadersOf(dir) == {dir[e].sector : e \in InUse(dir)}
\* The headers of dir are those that are shown, or new.
Follows(h, dir, shown) ==
    \A x \in HeadersOf(dir) : x \in HeadersOf(shown) \/ x \notin MarkedIn(h, shown)
\* The directory of the disk, and those that are on their way.
AllFollow(h, dir, p, shown) ==
    /\ Follows(h, dir, shown)
    /\ \A i \in DOMAIN p :
          p[i].io = "store" /\ p[i].what = "directory" => Follows(h, p[i].data, shown)

LEMMA FollowsSelf ==
    ASSUME NEW h, NEW dir, NEW p, ~StoresDir(p)
    PROVE  AllFollow(h, dir, p, dir)
BY DEF AllFollow, Follows, StoresDir

LEMMA CopiedFollows ==
    ASSUME NEW h, NEW new \in Directories, NEW db \in Directories, Follows(h, new, db)
    PROVE  Follows(h, Copied(new, db, 1), db)
<1> DEFINE c == Copied(new, db, 1)
<1>1. c \in Directories
    BY CopiedIs
<1>2. ASSUME NEW e \in InUse(c)
      PROVE  \/ e \in InUse(new) /\ c[e].sector = new[e].sector
             \/ e \in InUse(db) /\ c[e].sector = db[e].sector
    <2>1. e \in Entry /\ c[e].inUse
        BY <1>2 DEF InUse
    <2>2. \/ c[e].inUse = new[e].inUse /\ c[e].sector = new[e].sector
          \/ c[e].inUse = db[e].inUse /\ c[e].sector = db[e].sector
        BY <2>1, CopiedIs
    <2> QED BY <2>1, <2>2 DEF InUse
<1> HIDE DEF c
<1>3. \A x \in HeadersOf(c) : x \in HeadersOf(new) \/ x \in HeadersOf(db)
    BY <1>2 DEF HeadersOf
<1>4. Follows(h, c, db)
    BY <1>3 DEF Follows
<1> QED BY <1>4 DEF c

LEMMA AddFollows ==
    ASSUME NEW h, NEW n \in Name, NEW db \in Directories, NEW mb, NEW s \in Sector, NEW hdr,
           NewFile(h, n, db, mb, s, hdr)
    PROVE  Add(db, n, s) \in Directories /\ Follows(h, Add(db, n, s), db)
<1>1. Unused(db) # {} /\ s \notin MarkedIn(h, db)
    BY DEF NewFile, Settled
<1>2. PICK e \in Entry :
          /\ ~db[e].inUse /\ Add(db, n, s) \in Directories
          /\ Add(db, n, s)[e] = [inUse |-> TRUE, sector |-> s, name |-> n]
          /\ \A f \in Entry : f # e => Add(db, n, s)[f] = db[f]
    BY <1>1, AddIs
<1>3. PICK new : new = Add(db, n, s)
    OBVIOUS
<1>4. ASSUME NEW f \in InUse(new)
      PROVE  \/ new[f].sector = s
             \/ f \in InUse(db) /\ new[f].sector = db[f].sector
    <2>1. f \in Entry /\ new[f].inUse
        BY <1>4 DEF InUse
    <2>2. CASE f = e
        BY <1>2, <1>3, <2>2
    <2>3. CASE f # e
        <3>1. new[f] = db[f]
            BY <1>2, <1>3, <2>1, <2>3
        <3> QED BY <2>1, <3>1 DEF InUse
    <2> QED BY <2>2, <2>3
<1>5. \A x \in HeadersOf(new) : x = s \/ x \in HeadersOf(db)
    BY <1>4 DEF HeadersOf
<1> QED BY <1>1, <1>2, <1>3, <1>5 DEF Follows

LEMMA RemoveFollows ==
    ASSUME NEW h, NEW n, NEW db \in Directories, FindIndex(db, n) # {}
    PROVE  DirRemove(db, n) \in Directories /\ Follows(h, DirRemove(db, n), db)
<1>1. PICK new : new = DirRemove(db, n)
    OBVIOUS
<1>2. PICK e : e = EntryOf(db, n)
    OBVIOUS
<1>3. /\ new \in Directories /\ new[e].inUse = FALSE
      /\ \A f \in Entry : f # e => new[f] = db[f]
    BY <1>1, <1>2, DirRemoveIs
<1>4. \A f \in InUse(new) : f \in InUse(db) /\ new[f].sector = db[f].sector
    BY <1>3 DEF InUse
<1>5. \A x \in HeadersOf(new) : x \in HeadersOf(db)
    BY <1>4 DEF HeadersOf
<1> QED BY <1>1, <1>3, <1>5 DEF Follows

\* While a create has a directory to store, the old one is shown.
LEMMA CreatingFollows ==
    ASSUME NEW h, NEW dir, NEW map, NEW n \in Name, NEW p, NEW db \in Directories, NEW mb,
           Creating(h, dir, map, n, p, db, mb), StoresDir(p)
    PROVE  AllFollow(h, dir, p, db)
<1>1. PICK s \in Sector : \E hdr \in GoodHeader :
              NewFile(h, n, db, mb, s, hdr) /\ CreateStage(h, dir, map, n, p, db, mb, s, hdr)
    BY DEF Creating
<1>2. PICK hdr \in GoodHeader :
              NewFile(h, n, db, mb, s, hdr) /\ CreateStage(h, dir, map, n, p, db, mb, s, hdr)
    BY <1>1
<1>3. PICK new : new = Add(db, n, s)
    OBVIOUS
<1>4. new \in Directories /\ Follows(h, new, db)
    BY <1>2, <1>3, AddFollows
<1>5. Follows(h, db, db) /\ Follows(h, Copied(new, db, 1), db)
    BY <1>4, CopiedFollows DEF Follows
<1>6. PICK x : x = Store_("header", s, hdr)
    OBVIOUS
<1>7. PICK d1 : d1 = StoreNew(n, db, s, 1)
    OBVIOUS
<1>8. PICK d2 : d2 = StoreNew(n, db, s, 2)
    OBVIOUS
<1>9. PICK m : m = StoreNewMap(mb, s, hdr)
    OBVIOUS
<1>10. x.what # "directory" /\ m.what # "directory" /\ d1.data = new /\ d2.data = new
    BY <1>3, <1>6, <1>7, <1>8, <1>9 DEF StoreNew, StoreNewMap, Store_
<1>11. p \in {<<x, d1, d2, m>>, <<d1, d2, m>>, <<d2, m>>, <<m>>, <<>>}
    BY <1>2, <1>6, <1>7, <1>8, <1>9 DEF CreateStage
<1>12. \A i \in DOMAIN p : p[i] \in {x, d1, d2, m}
    BY <1>11
<1>13. ~(p = <<m>> \/ p = <<>>)
    BY <1>10 DEF StoresDir
<1>14. dir = db \/ dir = Copied(new, db, 1)
    <2>1. p # <<StoreNewMap(mb, s, hdr)>> /\ p # <<>>
        BY <1>9, <1>13
    <2> QED BY <1>2, <1>3, <2>1 DEF CreateStage
<1>15. Follows(h, dir, db)
    BY <1>5, <1>14
<1>16. ASSUME NEW i \in DOMAIN p, p[i].what = "directory"
       PROVE  Follows(h, p[i].data, db)
    <2>1. p[i].data = new
        BY <1>10, <1>12, <1>16
    <2> QED BY <1>4, <2>1
<1> QED BY <1>15, <1>16 DEF AllFollow

LEMMA RemovingFollows ==
    ASSUME NEW h, NEW dir, NEW map, NEW n, NEW p, NEW db \in Directories, NEW mb, NEW hb,
           Removing(h, dir, map, n, p, db, mb, hb), StoresDir(p)
    PROVE  AllFollow(h, dir, p, db)
<1>1. PICK new : new = DirRemove(db, n)
    OBVIOUS
<1>2. new \in Directories /\ Follows(h, new, db)
    BY <1>1, RemoveFollows DEF Removing, OldFile
<1>3. Follows(h, db, db) /\ Follows(h, Copied(new, db, 1), db)
    BY <1>2, CopiedFollows DEF Follows
<1>4. PICK d1 : d1 = StoreOld(n, db, 1)
    OBVIOUS
<1>5. PICK d2 : d2 = StoreOld(n, db, 2)
    OBVIOUS
<1>6. PICK m : m = StoreOldMap(n, db, mb, hb)
    OBVIOUS
<1>7. m.what # "directory" /\ d1.data = new /\ d2.data = new
    BY <1>1, <1>4, <1>5, <1>6 DEF StoreOld, StoreOldMap, Store_
<1>8. p \in {<<m, d1, d2>>, <<d1, d2>>, <<d2>>, <<>>}
    BY <1>4, <1>5, <1>6 DEF Removing
<1>9. \A i \in DOMAIN p : p[i] \in {m, d1, d2}
    BY <1>8
<1>10. p # <<>>
    BY StoresNoDirectory
<1>11. dir = db \/ dir = Copied(new, db, 1)
    BY <1>1, <1>10 DEF Removing
<1>12. Follows(h, dir, db)
    BY <1>3, <1>11
<1>13. ASSUME NEW i \in DOMAIN p, p[i].what = "directory"
       PROVE  Follows(h, p[i].data, db)
    <2>1. p[i].data = new
        BY <1>7, <1>9, <1>13
    <2> QED BY <1>2, <2>1
<1> QED BY <1>12, <1>13 DEF AllFollow

\* So does all that a thread has on its way while it has a directory to store.
LEMMA ChangeFollows ==
    ASSUME FilesInv, NEW t \in Caller, Changing(t), StoresDir(pending[t])
    PROVE  AllFollow(header, directory, pending[t], Shown)
<1>1. FilesTypeOK /\ ChangeOf(t)
    BY DEF FilesInv, ChangeInv, ChangeOf
<1>2. Shown = dirBuf[t]
    BY ShownGoodInv DEF ShownGood
<1>3. op[t].name \in Name /\ dirBuf[t] \in Directories
    BY <1>1, ChangingHas
<1>4. CASE Creating(header, directory, freeMap, op[t].name, pending[t], dirBuf[t], mapBuf[t])
    BY <1>2, <1>3, <1>4, CreatingFollows
<1>5. CASE Removing(header, directory, freeMap, op[t].name, pending[t], dirBuf[t], mapBuf[t],
                    hdrBuf[t])
    BY <1>2, <1>3, <1>5, RemovingFollows
<1>6. CASE LookingUp(header, directory, freeMap, pending[t], dirBuf[t])
    BY <1>6, StoresNoDirectory DEF LookingUp
<1>7. CASE Allocating(header, directory, freeMap, op[t].name, pending[t], dirBuf[t], mapBuf[t])
    BY <1>7, StoresNoDirectory DEF Allocating
<1>8. CASE Freeing(header, directory, freeMap, op[t].name, pending[t], dirBuf[t], mapBuf[t],
                   hdrBuf[t])
    BY <1>8, StoresNoDirectory DEF Freeing
<1> QED BY <1>1, <1>4, <1>5, <1>6, <1>7, <1>8 DEF ChangeOf, Change

LEMMA DirectoryFollows ==
    ASSUME FilesInv
    PROVE  Follows(header, directory, Shown)
<1>1. ASSUME NEW t \in Caller, StoresDirectory(t)
      PROVE  Follows(header, directory, Shown)
    BY <1>1, StoresDirectoryChanges, ChangeFollows DEF AllFollow
<1>2. CASE \A t \in Caller : ~StoresDirectory(t)
    BY <1>2, ShownIs DEF Follows
<1> QED BY <1>1, <1>2

\* The other threads have no directory on their way.
LEMMA ShownFollows ==
    ASSUME FilesInv, NEW t \in Caller
    PROVE  AllFollow(header, directory, pending[t], Shown)
<1>1. CASE StoresDirectory(t)
    BY <1>1, StoresDirectoryChanges, ChangeFollows
<1>2. CASE ~StoresDirectory(t)
    BY <1>2, DirectoryFollows DEF AllFollow, StoresDirectory
<1> QED BY <1>1, <1>2

LEMMA HeadersFollow ==
    ASSUME FilesInv, NEW x \in HeaderSectors
    PROVE  x \in HeadersOf(Shown) \/ x \notin MarkedIn(header, Shown)
<1>1. \/ x \in HeadersOf(Shown) \/ x \in HeadersOf(directory)
      \/ \E t \in Caller : \E dir \in DirectoriesOf(t) : x \in HeadersOf(dir)
    BY DEF HeaderSectors, HeadersOf
<1>2. CASE x \in HeadersOf(directory)
    BY <1>2, DirectoryFollows DEF Follows
<1>3. ASSUME NEW t \in Caller, NEW dir \in DirectoriesOf(t), x \in HeadersOf(dir)
      PROVE  x \in HeadersOf(Shown) \/ x \notin MarkedIn(header, Shown)
    <2>1. PICK i \in DOMAIN pending[t] :
             /\ pending[t][i].io = "store" /\ pending[t][i].what = "directory"
             /\ dir = pending[t][i].data
        BY <1>3 DEF DirectoriesOf
    <2>2. Follows(header, dir, Shown)
        BY <2>1, ShownFollows DEF AllFollow
    <2> QED BY <1>3, <2>2 DEF Follows
<1> QED BY <1>1, <1>2, <1>3

LEMMA ShownSpoilNothing ==
    ASSUME FilesInv, NoLoops, ~lost, NEW e \in InUse(Shown),
           NEW s \in SectorsOf(header[Shown[e].sector])
    PROVE  ~Spoils(s)
<1>1. ApartIn(header, Shown) /\ Shown \in Directories
    BY ShownGoodFiles
<1>2. s \in SectorsIn(header, Shown, e) /\ s \notin System /\ s \in MarkedIn(header, Shown)
    BY <1>1 DEF SectorsIn, ApartIn, MarkedIn
<1>3. ASSUME NEW f \in InUse(Shown)
      PROVE  s # Shown[f].sector
    <2>1. CASE f = e
        <3>1. Shown[e].sector \in Sector
            BY <1>1, InUseIs
        <3> QED BY <2>1, <3>1 DEF NoLoops
    <2>2. CASE f # e
        <3>1. Shown[f].sector \in SectorsIn(header, Shown, f)
            BY DEF SectorsIn
        <3>2. SectorsIn(header, Shown, e) \cap SectorsIn(header, Shown, f) = {}
            BY <1>1, <2>2 DEF ApartIn
        <3> QED BY <1>2, <3>1, <3>2
    <2> QED BY <2>1, <2>2
<1>4. s \notin HeadersOf(Shown)
    BY <1>3 DEF HeadersOf
<1>5. s \notin HeaderSectors
    BY <1>2, <1>4, HeadersFollow
<1> QED BY <1>2, <1>5 DEF Spoils

\* A create stores a header that does not have its own sector.
LEMMA CreatingHeader ==
    ASSUME NEW h, NEW dir, NEW map, NEW n, NEW p, NEW db, NEW mb,
           Creating(h, dir, map, n, p, db, mb), p # <<>>, Head(p).what = "header"
    PROVE  \E s \in Sector : \E hdr \in GoodHeader :
              Head(p) = Store_("header", s, hdr) /\ s \notin SectorsOf(hdr)
<1>1. PICK s \in Sector : \E hdr \in GoodHeader :
              NewFile(h, n, db, mb, s, hdr) /\ CreateStage(h, dir, map, n, p, db, mb, s, hdr)
    BY DEF Creating
<1>2. PICK hdr \in GoodHeader :
              NewFile(h, n, db, mb, s, hdr) /\ CreateStage(h, dir, map, n, p, db, mb, s, hdr)
    BY <1>1
<1>3. PICK x : x = Store_("header", s, hdr)
    OBVIOUS
<1>4. PICK d1 : d1 = StoreNew(n, db, s, 1)
    OBVIOUS
<1>5. PICK d2 : d2 = StoreNew(n, db, s, 2)
    OBVIOUS
<1>6. PICK m : m = StoreNewMap(mb, s, hdr)
    OBVIOUS
<1>7. d1.what = "directory" /\ d2.what = "directory" /\ m.what = "map"
    BY <1>4, <1>5, <1>6 DEF StoreNew, StoreNewMap, Store_
<1>8. p \in {<<x, d1, d2, m>>, <<d1, d2, m>>, <<d2, m>>, <<m>>, <<>>}
    BY <1>2, <1>3, <1>4, <1>5, <1>6 DEF CreateStage
<1>9. Head(p) = x
    BY <1>7, <1>8
<1> QED BY <1>2, <1>3, <1>9 DEF NewFile

LEMMA StoreNoLoops ==
    ASSUME FilesInv, NoLoops, NEW t \in Caller, Store(t)
    PROVE  NoLoops'
<1>1. FilesTypeOK /\ header \in [Sector -> GoodHeader]
    BY DEF FilesInv, FilesTypeOK, DiskTyped
<1>2. PICK x : x = Head(pending[t])
    OBVIOUS
<1>3. pending[t] \in Seq(SectorIO) /\ pending[t] # <<>> /\ x.io = "store"
    BY <1>1, <1>2, StoreDoes DEF FilesTypeOK, ControlTyped
<1>4. x.what \in {"directory", "map", "header", "data"}
    BY <1>2, <1>3, NextIO, StoreIs
<1>5. CASE x.what # "header"
    <2>1. header' = header
        BY <1>1, <1>2, <1>4, <1>5, StoreDoes
    <2> QED BY <2>1 DEF NoLoops
<1>6. CASE x.what = "header"
    <2>1. header' = [header EXCEPT ![x.at] = x.data]
        BY <1>1, <1>2, <1>6, StoreDoes
    <2>2. Changing(t) /\ ChangeOf(t)
        <3>1. 1 \in DOMAIN pending[t] /\ pending[t][1] = x
            BY <1>2, <1>3
        <3> QED BY <1>3, <1>6, <3>1 DEF FilesInv, OthersHarmless, ChangeInv, ChangeOf
    <2>3. ~(\/ LookingUp(header, directory, freeMap, pending[t], dirBuf[t])
            \/ Allocating(header, directory, freeMap, op[t].name, pending[t], dirBuf[t],
                          mapBuf[t])
            \/ Freeing(header, directory, freeMap, op[t].name, pending[t], dirBuf[t],
                       mapBuf[t], hdrBuf[t]))
        BY <1>1, <1>2, <1>3, <2>2, ChangingHas, StagesFetch
    <2>4. ~Removing(header, directory, freeMap, op[t].name, pending[t], dirBuf[t], mapBuf[t],
                    hdrBuf[t])
        BY <1>1, <1>2, <1>3, <1>6, <2>2, ChangingHas, RemovingStores DEF Store_
    <2>5. Creating(header, directory, freeMap, op[t].name, pending[t], dirBuf[t], mapBuf[t])
        BY <2>2, <2>3, <2>4 DEF ChangeOf, Change
    <2>6. PICK s \in Sector : \E hdr \in GoodHeader :
             x = Store_("header", s, hdr) /\ s \notin SectorsOf(hdr)
        BY <1>2, <1>3, <1>6, <2>5, CreatingHeader
    <2>7. x.at \in Sector /\ x.at \notin SectorsOf(x.data)
        BY <2>6 DEF Store_
    <2> QED BY <1>1, <2>1, <2>7 DEF NoLoops
<1> QED BY <1>5, <1>6

LEMMA FormatNoLoops ==
    ASSUME FilesInv, NoLoops, Format
    PROVE  NoLoops'
<1> DEFINE h0 == [numBytes |-> SectorSize, dataSectors |-> <<MapSector>>]
           h1 == [numBytes |-> 2 * SectorSize, dataSectors |-> DirSectors]
<1>1. header \in [Sector -> GoodHeader]
    BY DEF FilesInv, FilesTypeOK, DiskTyped
<1>2. header' = [header EXCEPT ![FreeMapSector] = h0, ![DirectorySector] = h1]
    BY DEF Format
<1>3. SectorsOf(h0) = {2} /\ SectorsOf(h1) = {3, 4}
    BY DEF SectorsOf, ToSet, MapSector, DirSectors
<1> HIDE DEF h0, h1
<1>4. FreeMapSector = 0 /\ DirectorySector = 1
    BY DEF FreeMapSector, DirectorySector
<1>5. /\ 0 \in Sector => header'[0] = h0
      /\ 1 \in Sector => header'[1] = h1
      /\ \A s \in Sector \ {0, 1} : header'[s] = header[s]
    BY <1>1, <1>2, <1>4
<1> QED BY <1>3, <1>5 DEF NoLoops

\* A write to a file that is there harms nothing else that the disk keeps, whoever creates
\* and removes meanwhile: while NachOS is up the disk is lost only by a store through the
\* handle of a file that was removed, or a header fetched after its file was.
THEOREM FileWritesHarmless == FilesSpec => []WritesSpoilNothing
<1>1. FilesInit => NoLoops
    BY DEF FilesInit, NoLoops, NoHeader, SectorsOf, ToSet
<1>2. FilesInv /\ NoLoops /\ [FilesNext]_filesVars => NoLoops'
    <2>1. ASSUME FilesInv, NoLoops, NEW t \in Caller, Step(t)
          PROVE  NoLoops'
        <3>1. CASE Store(t)
            BY <2>1, <3>1, StoreNoLoops
        <3>2. CASE UNCHANGED disk
            BY <2>1, <3>2 DEF disk, NoLoops
        <3> QED BY <2>1, <3>1, <3>2, OnlyStores
    <2>2. ASSUME FilesInv, NoLoops, Crash \/ Boot \/ UNCHANGED filesVars
          PROVE  NoLoops'
        <3>1. header' = header
            BY <2>2 DEF Crash, Boot, filesVars, disk
        <3> QED BY <2>2, <3>1 DEF NoLoops
    <2> QED BY <2>1, <2>2, FormatNoLoops DEF FilesNext
<1>3. FilesInv /\ NoLoops => WritesSpoilNothing
    BY ShownSpoilNothing DEF WritesSpoilNothing
<1> QED BY <1>1, <1>2, <1>3, FilesInvariant, PTL DEF FilesSpec
=============================================================================
