--------------------------- MODULE NachosProcess ---------------------------
(***************************************************************************)
(* The user threads of NachOS and the system calls they make               *)
(* (exception.cc), with what the calls share: the semaphore Console, the   *)
(* physical pages and the address spaces (addrspace.cc, bitmap.cc), the    *)
(* open-file table (nachostabla.cc) beside the descriptors of the host,    *)
(* and the semaphores of the programs.                                     *)
(*                                                                         *)
(* The first thread is the one StartProcess started; every other is forked *)
(* from it or from its descendants.  A program is a list of system calls,  *)
(* each one of a set; Exit follows the last.  Which thread runs next is    *)
(* left open: a switch may happen in user code and wherever a semaphore    *)
(* enables interrupts, and a call is otherwise one step.                   *)
(***************************************************************************)
EXTENDS Integers, Sequences, FiniteSets

CONSTANTS
    Thread, Main,
    NumPhysPages,   \* the pages of the machine
    SharedPages,    \* pages of code and data of the program
    StackPages,     \* pages of a stack
    MaxOpenFiles,   \* of the open-file table
    MaxSemaphores,  \* of the table of semaphores
    Programs        \* the programs: functions from threads to lists of sets of calls

Handle == 0..(MaxOpenFiles - 1)
Standard == 0..2
SemId == 0..(MaxSemaphores - 1)
Console == -1
Page == 0..(NumPhysPages - 1)
NoPage == -1
NumPages == SharedPages + StackPages
Stack == (SharedPages + 1)..NumPages

ConsoleCall == {"read", "write", "fork", "socket", "connect"}
\* The system calls whose body is empty.
Unimplemented == {"exec", "join", "create", "yield", "lock", "condition", "bind",
                  "listen", "accept", "shutdown"}
Operation == ConsoleCall \cup Unimplemented \cup
    {"halt", "exit", "open", "close",
     "semcreate", "semdestroy", "semsignal", "semwait"}
\* "arg": the handle, semaphore or child; "size": of a read, or an initial value.
NoCall == [op |-> "none", arg |-> 0, size |-> 0]
\* No program starts a semaphore with a negative value; the child of a fork is a thread.
Call ==
    {c \in [op : Operation, arg : Thread \cup Nat, size : Int] :
        /\ c.op = "fork" => c.arg \in Thread
        /\ c.op = "semcreate" => c.size \in Nat
        /\ c.op \in {"semwait", "semdestroy", "semsignal"} => c.arg \in Nat}

ASSUME ProcessAssumption ==
    /\ Main \in Thread /\ IsFiniteSet(Thread)
    /\ Programs \subseteq [Thread -> Seq(SUBSET Call)]
    /\ SharedPages \in Nat \ {0} /\ StackPages \in Nat \ {0}
    /\ NumPhysPages \in Nat /\ NumPages <= NumPhysPages
    /\ MaxOpenFiles \in Nat /\ MaxOpenFiles > 3
    /\ MaxSemaphores \in Nat \ {0}

VARIABLES
    todo,       \* what remains of the programs
    pc,         \* where a thread is
    call,       \* the call it is in
    value,      \* of the semaphores, Console included
    queue,      \* their queues
    semTable,   \* the semaphores that exist
    mapa,       \* MiMapa: the pages in use
    space,      \* the page tables
    openMap,    \* the handles in use
    openFiles,  \* the host's descriptors behind them
    unix,       \* the host's open descriptors, and what they are
    aborted     \* an ASSERT failed

threads == <<todo, pc, call>>
synch == <<value, queue, semTable>>
memory == <<mapa, space>>
files == <<openMap, openFiles, unix>>
vars == <<threads, synch, memory, files, aborted>>

Semaphore == SemId \cup {Console}

Least(S) == CHOOSE x \in S : \A y \in S : x <= y

\* The constructor of AddrSpace finds the first pages; they are zeroed and loaded.
LoadedSpace == [i \in 1..NumPages |-> i - 1]

\* StartProcess.
Init ==
    /\ todo \in Programs
    /\ pc = [t \in Thread |-> IF t = Main THEN "user" ELSE "unborn"]
    /\ call = [t \in Thread |-> NoCall]
    /\ value = [s \in Semaphore |-> IF s = Console THEN 1 ELSE 0]
    /\ queue = [s \in Semaphore |-> <<>>]
    /\ semTable = {}
    /\ mapa = 0..(NumPages - 1)
    /\ space = [t \in Thread |-> IF t = Main THEN LoadedSpace ELSE <<>>]
    /\ openMap = Standard
    /\ openFiles = [h \in Handle |-> IF h \in Standard THEN h ELSE -1]
    /\ unix = [d \in Standard |-> "file"]
    /\ aborted = FALSE

-----------------------------------------------------------------------------
(* The open-file table and the page map                                    *)

IsOpened(h) == h \in openMap /\ openFiles[h] # -1
\* BitMap::Test asserts that the handle is one of the table.
InTable(h) == h \in Handle

\* The descriptor the host hands out is the least one free.
NewDescriptor == Least(0..Cardinality(DOMAIN unix) \ DOMAIN unix)
TableOpen(d) ==
    IF Handle \ openMap = {} THEN UNCHANGED <<openMap, openFiles>>
    ELSE LET h == Least(Handle \ openMap)
         IN  /\ openMap' = openMap \cup {h}
             /\ openFiles' = [openFiles EXCEPT ![h] = d]
HostOpen(kind) ==
    LET d == NewDescriptor
    IN  /\ unix' = [e \in DOMAIN unix \cup {d} |-> IF e = d THEN kind ELSE unix[e]]
        /\ TableOpen(d)

\* Close of the table clears the entry that has the number of the descriptor.
TableClose(h) ==
    /\ openMap' = openMap \ {h}
    /\ openFiles' = [openFiles EXCEPT ![openFiles[h]] = -1]
\* Mutant: the table alone is told.
HostClose_TableOnly(h) == TableClose(h) /\ unix' = unix
HostClose(h) ==
    /\ unix' = [e \in DOMAIN unix \ {openFiles[h]} |-> unix[e]]
    /\ TableClose(h)

\* BitMap::Find, as often as there are pages of a stack.
Find(marks, n) ==
    LET free == Page \ marks
        Before(p) == {q \in free : q < p}
    IN  [i \in 1..n |->
           IF i > Cardinality(free) THEN NoPage
           ELSE CHOOSE p \in free : Cardinality(Before(p)) = i - 1]

\* The copy constructor of AddrSpace: all is shared but the stack.
\* Mutant: the stack too.
CopySpace_All(t) == space[t]
CopySpace(t) == SubSeq(space[t], 1, SharedPages) \o Find(mapa, StackPages)

-----------------------------------------------------------------------------
(* Entering and leaving the kernel                                         *)

NextCalls(t) == IF todo[t] = <<>> THEN {} ELSE Head(todo[t])

\* The thread makes the call c, the next of its program.
Makes(t, c) ==
    /\ ~aborted /\ pc[t] = "user"
    /\ c \in NextCalls(t)
    /\ todo' = [todo EXCEPT ![t] = Tail(@)]
    /\ call' = [call EXCEPT ![t] = c]

At(t, s) ==
    \/ call[t].op \in ConsoleCall /\ s = Console
    \/ call[t].op = "semwait" /\ s = call[t].arg

Abort ==
    /\ aborted' = TRUE
    /\ UNCHANGED <<pc, synch, memory, files>>

\* A call that gets by without Console returns at once.
Returns == UNCHANGED <<pc, aborted>>

\* The first step of a console call, and of SemWait on a semaphore that exists.
Enter(t) ==
    \E c \in NextCalls(t) :
        /\ Makes(t, c)
        /\ \/ c.op \in ConsoleCall
           \/ c.op = "semwait" /\ c.arg \in semTable
        /\ pc' = [pc EXCEPT ![t] = "P"]
        /\ UNCHANGED <<synch, memory, files, aborted>>

\* Semaphore::P: the value is looked at again after each sleep.
PWaits(t, s) ==
    /\ ~aborted /\ pc[t] = "P" /\ At(t, s)
    /\ value[s] = 0
    /\ queue' = [queue EXCEPT ![s] = Append(@, t)]
    /\ pc' = [pc EXCEPT ![t] = "asleep"]
    /\ UNCHANGED <<todo, call, value, semTable, memory, files, aborted>>

\* Mutant: Console is not taken.
PTakes_Free(t, s) ==
    /\ ~aborted /\ pc[t] = "P" /\ At(t, s)
    /\ value[s] > 0
    /\ value' = IF s = Console THEN value ELSE [value EXCEPT ![s] = @ - 1]
    /\ pc' = [pc EXCEPT ![t] = IF s = Console THEN "inside" ELSE "user"]
    /\ UNCHANGED <<todo, call, queue, semTable, memory, files, aborted>>

PTakes(t, s) ==
    /\ ~aborted /\ pc[t] = "P" /\ At(t, s)
    /\ value[s] > 0
    /\ value' = [value EXCEPT ![s] = @ - 1]
    /\ pc' = [pc EXCEPT ![t] = IF s = Console THEN "inside" ELSE "user"]
    /\ UNCHANGED <<todo, call, queue, semTable, memory, files, aborted>>

\* Semaphore::V by the thread t, which goes on in user code.
\* Mutant: nobody is woken.
V_NoWakeup(t, s) ==
    /\ value' = [value EXCEPT ![s] = @ + 1]
    /\ pc' = [pc EXCEPT ![t] = "user"]
    /\ UNCHANGED <<queue, semTable>>
V(t, s) ==
    /\ value' = [value EXCEPT ![s] = @ + 1]
    /\ queue' = [queue EXCEPT ![s] = IF @ = <<>> THEN @ ELSE Tail(@)]
    /\ pc' = [u \in Thread |->
          CASE u = t -> "user"
            [] queue[s] # <<>> /\ u = queue[s][1] -> "P"
            [] OTHER -> pc[u]]
    /\ UNCHANGED semTable

\* The body of a console call that ends with V and the return.
Leave(t) == V(t, Console) /\ UNCHANGED <<todo, call, aborted>>

Inside(t, op) == ~aborted /\ pc[t] = "inside" /\ call[t].op = op

-----------------------------------------------------------------------------
(* Files and sockets                                                       *)

\* The file exists; OpenForReadWrite asserts that it does.
Open(t) ==
    \E c \in NextCalls(t) :
        /\ Makes(t, c) /\ c.op = "open"
        /\ HostOpen("file")
        /\ Returns
        /\ UNCHANGED <<synch, memory>>

Close(t) ==
    \E c \in NextCalls(t) :
        /\ Makes(t, c) /\ c.op = "close" /\ InTable(c.arg)
        /\ IF IsOpened(c.arg) THEN HostClose(c.arg) ELSE UNCHANGED files
        /\ Returns
        /\ UNCHANGED <<synch, memory>>

Read(t) ==
    /\ Inside(t, "read")
    /\ call[t].size > 0 /\ InTable(call[t].arg) /\ IsOpened(call[t].arg)
    /\ Leave(t)
    /\ UNCHANGED <<memory, files>>

\* Read returns early: without V, and without advancing the program counter.
ReadRefused(t) ==
    /\ Inside(t, "read")
    /\ \/ call[t].size <= 0
       \/ InTable(call[t].arg) /\ ~IsOpened(call[t].arg)
    /\ pc' = [pc EXCEPT ![t] = "again"]
    /\ UNCHANGED <<todo, call, synch, memory, files, aborted>>

\* The same instruction is executed again, with the answer in r2 for the number of
\* a call: the 0 of an empty Read is that of Halt, which finishes the thread; -1 is
\* that of no call, for which an ASSERT fails.
CallAgain(t) ==
    /\ ~aborted /\ pc[t] = "again"
    /\ IF call[t].size = 0
       THEN pc' = [pc EXCEPT ![t] = "lost"] /\ UNCHANGED aborted
       ELSE aborted' = TRUE /\ UNCHANGED pc
    /\ UNCHANGED <<todo, call, synch, memory, files>>

\* To the console, to an open descriptor that takes the bytes, or to nothing.
Write(t) ==
    /\ Inside(t, "write")
    /\ InTable(call[t].arg)
    /\ call[t].arg \notin Standard /\ IsOpened(call[t].arg) =>
          unix[openFiles[call[t].arg]] # "socket"
    /\ Leave(t)
    /\ UNCHANGED <<memory, files>>

\* socket answers the descriptor of the host, not the handle.
Socket(t) ==
    /\ Inside(t, "socket")
    /\ HostOpen("socket")
    /\ Leave(t)
    /\ UNCHANGED memory

\* The number is taken for a descriptor of the host; connect may fail.
Connect(t) ==
    /\ Inside(t, "connect")
    /\ \/ UNCHANGED unix
       \/ /\ call[t].arg \in DOMAIN unix /\ unix[call[t].arg] = "socket"
          /\ unix' = [unix EXCEPT ![call[t].arg] = "connected"]
    /\ Leave(t)
    /\ UNCHANGED <<memory, openMap, openFiles>>

\* A handle beyond the table, or bytes that the host does not take.
FailedAssert(t) ==
    \/ \E c \in NextCalls(t) :
          Makes(t, c) /\ c.op = "close" /\ ~InTable(c.arg) /\ Abort
    \/ /\ \/ Inside(t, "read") /\ call[t].size > 0 /\ ~InTable(call[t].arg)
          \/ Inside(t, "write") /\ ~InTable(call[t].arg)
          \/ /\ Inside(t, "write") /\ call[t].arg \in Handle \ Standard
             /\ IsOpened(call[t].arg) /\ unix[openFiles[call[t].arg]] = "socket"
       /\ Abort /\ UNCHANGED <<todo, call>>

-----------------------------------------------------------------------------
(* Threads and memory                                                      *)

\* Fork, up to the point where the new thread may run.
Fork(t) ==
    /\ Inside(t, "fork") /\ pc[call[t].arg] = "unborn"
    /\ LET u == call[t].arg
           copy == CopySpace(t)
       IN  /\ space' = [space EXCEPT ![u] = copy]
           /\ mapa' = mapa \cup ({copy[i] : i \in DOMAIN copy} \ {NoPage})
           /\ pc' = [pc EXCEPT ![u] = "born", ![t] = "forked"]
    /\ UNCHANGED <<todo, call, synch, files, aborted>>

ForkReturns(t) ==
    /\ ~aborted /\ pc[t] = "forked"
    /\ Leave(t)
    /\ UNCHANGED <<memory, files>>

\* NachosForkThread.  A stack without a page raises a bus error when it is used.
Start(t) ==
    /\ ~aborted /\ pc[t] = "born"
    /\ \/ pc' = [pc EXCEPT ![t] = "user"] /\ UNCHANGED aborted
       \/ NoPage \in {space[t][i] : i \in Stack} /\ aborted' = TRUE /\ UNCHANGED pc
    /\ UNCHANGED <<todo, call, synch, memory, files>>

\* The destructor of AddrSpace frees every page, those that others share included; to
\* clear a page that was never there fails an ASSERT.
PagesOf(t) == {space[t][i] : i \in 1..NumPages}
DeleteSpace(t) ==
    /\ mapa' = mapa \ PagesOf(t)
    /\ space' = [space EXCEPT ![t] = <<>>]

Exit(t) ==
    /\ ~aborted /\ pc[t] = "user"
    /\ \/ todo[t] = <<>> \/ \E c \in NextCalls(t) : c.op = "exit"
    /\ todo' = [todo EXCEPT ![t] = <<>>]
    /\ IF NoPage \in PagesOf(t)
       THEN aborted' = TRUE /\ UNCHANGED <<pc, memory>>
       ELSE /\ DeleteSpace(t)
            /\ pc' = [pc EXCEPT ![t] = "done"]
            /\ UNCHANGED aborted
    /\ UNCHANGED <<call, synch, files>>

\* Halt finishes the thread that calls it, and never comes to halt the machine.
Halt(t) ==
    \E c \in NextCalls(t) :
        /\ Makes(t, c) /\ c.op = "halt"
        /\ pc' = [pc EXCEPT ![t] = "done"]
        /\ UNCHANGED <<synch, memory, files, aborted>>

\* An empty body does not advance the program counter.
CallForever(t) ==
    \E c \in NextCalls(t) :
        /\ Makes(t, c) /\ c.op \in Unimplemented
        /\ pc' = [pc EXCEPT ![t] = "loop"]
        /\ UNCHANGED <<synch, memory, files, aborted>>

-----------------------------------------------------------------------------
(* Semaphores of the programs                                              *)

SemCreate(t) ==
    \E c \in NextCalls(t) :
        /\ Makes(t, c) /\ c.op = "semcreate"
        /\ IF SemId \subseteq semTable THEN UNCHANGED synch
           ELSE LET s == Least(SemId \ semTable)
                IN  /\ semTable' = semTable \cup {s}
                    /\ value' = [value EXCEPT ![s] = c.size]
                    /\ queue' = queue
        /\ Returns
        /\ UNCHANGED <<memory, files>>

\* Who sleeps on the semaphore is never woken; who was woken and has not looked at
\* its value yet will look at memory that was freed.
SemDestroy(t) ==
    \E c \in NextCalls(t) :
        /\ Makes(t, c) /\ c.op = "semdestroy" /\ c.arg \in semTable
        /\ semTable' = semTable \ {c.arg}
        /\ value' = [value EXCEPT ![c.arg] = 0]
        /\ queue' = [queue EXCEPT ![c.arg] = <<>>]
        /\ pc' = [u \in Thread |->
              CASE pc[u] = "asleep" /\ call[u].op = "semwait" /\ At(u, c.arg) -> "orphan"
                [] pc[u] = "P" /\ call[u].op = "semwait" /\ At(u, c.arg) -> "freed"
                [] OTHER -> pc[u]]
        /\ UNCHANGED <<memory, files, aborted>>

ReadsFreed(t) ==
    /\ ~aborted /\ pc[t] = "freed"
    /\ \E next \in {"user", "orphan"} : pc' = [pc EXCEPT ![t] = next]
    /\ UNCHANGED <<todo, call, synch, memory, files, aborted>>

SemSignal(t) ==
    \E c \in NextCalls(t) :
        /\ Makes(t, c) /\ c.op = "semsignal" /\ c.arg \in semTable
        /\ V(t, c.arg)
        /\ UNCHANGED <<memory, files, aborted>>

\* A semaphore that does not exist: the call answers -1.
SemRefused(t) ==
    \E c \in NextCalls(t) :
        /\ Makes(t, c)
        /\ c.op \in {"semdestroy", "semsignal", "semwait"} /\ c.arg \notin semTable
        /\ Returns
        /\ UNCHANGED <<synch, memory, files>>

-----------------------------------------------------------------------------
ThreadStep(t) ==
    \/ Start(t) \/ Exit(t)
    \/ Enter(t) \/ Open(t) \/ Close(t) \/ Halt(t) \/ CallForever(t)
    \/ SemCreate(t) \/ SemDestroy(t) \/ SemSignal(t) \/ SemRefused(t)
    \/ \E s \in Semaphore : PWaits(t, s) \/ PTakes(t, s)
    \/ Read(t) \/ ReadRefused(t) \/ CallAgain(t) \/ Write(t) \/ Socket(t) \/ Connect(t)
    \/ Fork(t) \/ ForkReturns(t) \/ ReadsFreed(t)
    \/ FailedAssert(t)

Next == \E t \in Thread : ThreadStep(t)
Spec == Init /\ [][Next]_vars
\* Time slices give every thread its turn.
FairSpec == Spec /\ \A t \in Thread : WF_vars(ThreadStep(t))

-----------------------------------------------------------------------------
(* Properties                                                              *)

Live(t) == space[t] # <<>>

\* Console is free, or held by one thread in a console call, or gone for good with a
\* thread whose Read returned early (P and V of NachOS_Read, Write, Fork, Socket,
\* Connect).  No wakeup is lost: where a thread sleeps, each unit of the value has a
\* thread on its way to it.
ConsoleHeld ==
    /\ value[Console]
         + Cardinality({t \in Thread : pc[t] \in {"inside", "forked", "again", "lost"}}) = 1
    /\ \A s \in Semaphore :
          queue[s] # <<>> =>
             value[s] <= Cardinality({t \in Thread : pc[t] = "P" /\ At(t, s)})

\* While nobody has exited, the pages in use are those of the address spaces, the
\* threads share code and data, and no stack is anybody else's (the constructors of
\* AddrSpace, called by StartProcess and NachOS_Fork).
MemoryShared ==
    (\A t \in Thread : pc[t] # "done") =>
        /\ mapa = (UNION {{space[t][i] : i \in DOMAIN space[t]} : t \in Thread}) \ {NoPage}
        /\ \A t, u \in Thread : Live(t) /\ Live(u) /\ t # u =>
             /\ \A i \in 1..SharedPages : space[t][i] = space[u][i]
             /\ \A i \in Stack, j \in 1..NumPages :
                   space[t][i] # NoPage => space[t][i] # space[u][j]

\* A handle is the number of the descriptor behind it, and that descriptor is open:
\* Close of the table clears the right entry and Connect of a socket gets the right
\* descriptor only because both numberings stay in step (NachosOpenFilesTable).
HandlesInStep ==
    \A h \in openMap :
        IsOpened(h) /\ openFiles[h] = h /\ h \in DOMAIN unix

\* A console call returns unless an empty Read has ended its thread by Halt, with
\* Console taken, or the machine aborted (calls of ConsoleCall, under the time slices
\* of the scheduler).
CallsReturn ==
    \A t \in Thread :
        (pc[t] \in {"P", "inside", "forked", "again"} /\ call[t].op \in ConsoleCall)
            ~> (\/ pc[t] \in {"user", "done", "loop"}
                \/ \E u \in Thread : pc[u] = "lost"
                \/ aborted)
=============================================================================
