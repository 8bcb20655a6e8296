--------------------------- MODULE NachosThreads ---------------------------
(***************************************************************************)
(* The thread system of NachOS: scheduler, context switch, interrupt level *)
(* and the synchronization primitives of synch.cc, as operators on the     *)
(* state of the one simulated processor.                                   *)
(*                                                                         *)
(* Whatever runs with interrupts off is one step: only a thread that goes  *)
(* to sleep gives the processor away in between, and it goes on with       *)
(* interrupts still off when it runs again.  A thread that runs with       *)
(* interrupts on may be made to yield between any two of its steps, by the *)
(* timer or by the preemptive scheduler.                                   *)
(***************************************************************************)
EXTENDS Naturals, SequencesExt

CONSTANTS
    Thread,
    Main,           \* the thread that boots
    NoThread        \* NULL

ASSUME ThreadAssumption == Main \in Thread /\ NoThread \notin Thread

VARIABLES
    currentThread,
    readyList,
    status,
    level,          \* the interrupt level at which a thread runs or will go on:
                    \* "root" for one that ThreadRoot has still to start
    yieldOnReturn,
    threadToBeDestroyed,
    value,          \* of the semaphores
    queue,          \* of the semaphores and of the conditions
    owner,          \* of the locks
    halted          \* the machine has stopped

scheduling == <<currentThread, readyList, status, level>>
machine == <<yieldOnReturn, threadToBeDestroyed, halted>>
synch == <<value, queue, owner>>
kernel == <<scheduling, machine, synch>>

Status == {"JUST_CREATED", "RUNNING", "READY", "BLOCKED", "DELETED"}

\* The list of the first element of a queue, or no list, and what remains.
First(q) == IF q = <<>> THEN <<>> ELSE <<Head(q)>>
Rest(q) == IF q = <<>> THEN <<>> ELSE Tail(q)

-----------------------------------------------------------------------------
(* Scheduler and threads                                                   *)

\* The thread executes its next step: a pending yield comes before it.
Runs(t) ==
    /\ ~halted
    /\ currentThread = t /\ status[t] = "RUNNING"
    /\ level[t] = "on" => ~yieldOnReturn

\* Every thread was constructed; the one that boots needs no stack and runs.
ThreadInit ==
    /\ status = [t \in Thread |-> IF t = Main THEN "RUNNING" ELSE "JUST_CREATED"]
    /\ level = [t \in Thread |-> IF t = Main THEN "on" ELSE "off"]

SchedulerInit ==
    /\ currentThread = Main
    /\ readyList = <<>>
    /\ threadToBeDestroyed = NoThread

\* ReadyToRun, for each of a list of threads, while t itself may go to sleep.
ReadyToRun(woken) ==
    /\ readyList' = readyList \o woken
    /\ status' = [u \in Thread |-> IF u \in ToSet(woken) THEN "READY" ELSE status[u]]

\* Sleep, up to the search for another thread, which is Dispatch.
Sleep(t) ==
    /\ status' = [status EXCEPT ![t] = "BLOCKED"]
    /\ level' = [level EXCEPT ![t] = "off"]

SetLevelOn(t) == level' = [level EXCEPT ![t] = "on"]

\* Run: the thread that finished is deleted by the next one, unless that one is new
\* and starts in ThreadRoot instead of behind SWITCH.
Run(next, before) ==
    LET deletes == level[next] # "root" /\ threadToBeDestroyed # NoThread
    IN  /\ currentThread' = next
        /\ status' = [u \in Thread |->
              CASE u = next -> "RUNNING"
                [] deletes /\ u = threadToBeDestroyed -> "DELETED"
                [] OTHER -> before[u]]
        /\ threadToBeDestroyed' = IF deletes THEN NoThread ELSE threadToBeDestroyed
        /\ level' = [level EXCEPT ![next] = IF @ = "root" THEN "on" ELSE @]

\* Sleep finds a thread to run: perhaps the one that sleeps, if an interrupt woke it.
Dispatch ==
    /\ ~halted
    /\ status[currentThread] # "RUNNING"
    /\ readyList # <<>>
    /\ readyList' = Tail(readyList)
    /\ Run(Head(readyList), status)
    /\ UNCHANGED <<yieldOnReturn, halted, synch>>

\* The timer (-rs) expires where the running thread enables interrupts.
TimerInterruptHandler ==
    /\ ~halted /\ ~yieldOnReturn
    /\ status[currentThread] = "RUNNING" /\ level[currentThread] = "on"
    /\ yieldOnReturn' = TRUE
    /\ UNCHANGED <<scheduling, threadToBeDestroyed, halted, synch>>

Yield(t) ==
    IF readyList = <<>>
    THEN UNCHANGED <<currentThread, readyList, status, level, threadToBeDestroyed>>
    ELSE /\ readyList' = Append(Tail(readyList), t)
         /\ Run(Head(readyList), [status EXCEPT ![t] = "READY"])

\* The preemptive scheduler (-p) forces a call in front of any instruction: the thread
\* yields at once, or when it has enabled interrupts.  Its registers are kept.
ContextSwitch ==
    /\ ~halted /\ ~yieldOnReturn
    /\ status[currentThread] = "RUNNING"
    /\ IF level[currentThread] = "on"
       THEN Yield(currentThread) /\ UNCHANGED yieldOnReturn
       ELSE /\ yieldOnReturn' = TRUE
            /\ UNCHANGED <<scheduling, threadToBeDestroyed>>
    /\ UNCHANGED <<halted, synch>>

\* OneTick honours the flag.
YieldOnReturn ==
    /\ ~halted /\ yieldOnReturn
    /\ status[currentThread] = "RUNNING" /\ level[currentThread] = "on"
    /\ yieldOnReturn' = FALSE
    /\ Yield(currentThread)
    /\ UNCHANGED <<halted, synch>>

\* The first SWITCH to the thread goes to ThreadRoot, which enables interrupts, calls
\* the function and then Finish.
StackAllocate(u) == level' = [level EXCEPT ![u] = "root"]

\* The new thread is put on the ready list.
Fork(u) ==
    /\ status[u] = "JUST_CREATED"
    /\ StackAllocate(u)
    /\ ReadyToRun(<<u>>)
    /\ UNCHANGED <<currentThread, machine, synch>>

\* The carcass is left to Run; a second one overwrites the first.
Finish(t) ==
    /\ threadToBeDestroyed' = t
    /\ Sleep(t)
    /\ UNCHANGED <<currentThread, readyList, yieldOnReturn, halted, synch>>

\* Nothing is ready and no device will interrupt.
Idle(devicesPending) ==
    /\ ~halted
    /\ status[currentThread] # "RUNNING" /\ readyList = <<>>
    /\ ~devicesPending
    /\ halted' = TRUE
    /\ UNCHANGED <<scheduling, yieldOnReturn, threadToBeDestroyed, synch>>

\* A device interrupts at a tick of the running thread, or when the processor idles.
Interruptible ==
    /\ ~halted
    /\ \/ status[currentThread] = "RUNNING" /\ level[currentThread] = "on"
       \/ status[currentThread] # "RUNNING" /\ readyList = <<>>

-----------------------------------------------------------------------------
(* Semaphore                                                               *)

\* P: the value is looked at again after each sleep.
PWaits(t, s) ==
    /\ value[s] = 0
    /\ queue' = [queue EXCEPT ![s] = Append(@, t)]
    /\ Sleep(t)
    /\ UNCHANGED <<currentThread, readyList, machine, value, owner>>

\* Mutant: whoever was woken takes the semaphore without looking again.
PTakes_Unchecked(t, s) ==
    /\ value[s] > 0 \/ level[t] = "off"
    /\ value' = [value EXCEPT ![s] = @ - 1]
    /\ SetLevelOn(t)
    /\ UNCHANGED <<currentThread, readyList, status, machine, queue>>

PTakes(t, s) ==
    /\ value[s] > 0
    /\ value' = [value EXCEPT ![s] = @ - 1]
    /\ SetLevelOn(t)
    /\ UNCHANGED <<currentThread, readyList, status, machine, queue>>

\* Mutant: V hands the semaphore over to nobody when somebody waits.
V_KeepsValue(s) ==
    /\ value' = [value EXCEPT ![s] = IF queue[s] = <<>> THEN @ + 1 ELSE @]
    /\ queue' = [queue EXCEPT ![s] = Rest(@)]
    /\ ReadyToRun(First(queue[s]))
V(s) ==
    /\ value' = [value EXCEPT ![s] = @ + 1]
    /\ queue' = [queue EXCEPT ![s] = Rest(@)]
    /\ ReadyToRun(First(queue[s]))

-----------------------------------------------------------------------------
(* Lock and Condition                                                      *)

AcquireWaits(t, l) == PWaits(t, l)

\* Mutant: the new owner is entered and the semaphore is left as it is.
AcquireTakes_NoP(t, l) ==
    /\ value[l] > 0
    /\ owner' = [owner EXCEPT ![l] = t]
    /\ SetLevelOn(t)
    /\ UNCHANGED <<currentThread, readyList, status, machine, value, queue>>

AcquireTakes(t, l) == PTakes(t, l) /\ owner' = [owner EXCEPT ![l] = t]

Release(l) ==
    /\ owner' = [owner EXCEPT ![l] = NoThread]
    /\ V(l)
    /\ UNCHANGED <<currentThread, level, machine>>

\* The lock is released and the thread sleeps in one step; Acquire follows.
Wait(t, c, l) ==
    LET woken == First(queue[l])
    IN  /\ owner' = [owner EXCEPT ![l] = NoThread]
        /\ value' = [value EXCEPT ![l] = @ + 1]
        /\ queue' = [queue EXCEPT ![l] = Rest(@), ![c] = Append(@, t)]
        /\ readyList' = readyList \o woken
        /\ status' = [u \in Thread |->
              CASE u = t -> "BLOCKED"
                [] u \in ToSet(woken) -> "READY"
                [] OTHER -> status[u]]
        /\ level' = [level EXCEPT ![t] = "off"]
        /\ UNCHANGED <<currentThread, machine>>

Signal(c) ==
    /\ queue' = [queue EXCEPT ![c] = Rest(@)]
    /\ ReadyToRun(First(queue[c]))
    /\ UNCHANGED <<currentThread, level, machine, value, owner>>

\* Mutant: one waiter only.
Broadcast_One(c) == Signal(c)
Broadcast(c) ==
    /\ queue' = [queue EXCEPT ![c] = <<>>]
    /\ ReadyToRun(queue[c])
    /\ UNCHANGED <<currentThread, level, machine, value, owner>>
=============================================================================
