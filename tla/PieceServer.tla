----------------------------- MODULE PieceServer -----------------------------
(***************************************************************************)
(* The HTTP piece server (Integrated_Networks_OS_Project/Server): it mounts *)
(* its file system, writes its figures into it, listens, and serves each   *)
(* connection in a thread of its own (task) or, in the other mode, in a    *)
(* process of its own that only echoes.  With it, the sockets it uses      *)
(* (VSocket.cpp, Socket.cpp), the read side of its file system             *)
(* (FileSystem/FileSystem.c) and the clients of the network.               *)
(*                                                                         *)
(* A request reaches the server in Fragments parts, an answer leaves in    *)
(* parts: a status and the pieces of the body.  The server can be killed   *)
(* and started again; it finds its disk as it left it.  The disk is large  *)
(* enough for the figures: FigureFS models what happens when it is not, and*)
(* an entry of the directory torn by a crash.                              *)
(***************************************************************************)
EXTENDS Integers, Sequences, FiniteSets, SequencesExt

CONSTANTS
  Conn,        \* connections, one request each
  Asks,        \* the requests of each connection
  Names,       \* names of figures that are asked for
  MountOrder,  \* the figures MountSystem writes, in order
  Size,        \* how many blocks each of them takes
  Before,      \* how many blocks the disk has for the figures before each one
  Fragments,   \* parts of a request
  MaxFd,       \* descriptors a process may have open
  MaxProc,     \* child processes, dead ones included, it may have
  Backlog,     \* connections that wait for accept
  MaxStarts    \* how often the server is started

Blocks == 1..Before[Len(MountOrder) + 1]

Last255 == 255     \* the next byte of the last block of a figure

(* What a block holds and what an answer is made of.                        *)
Part(what, name, n) == [what |-> what, name |-> name, n |-> n]
Blank == Part("blank", "none", 0)
Piece(f, n) == Part("piece", f, n)

Mounted == Range(MountOrder)

ASSUME ServerAssumption ==
  /\ IsFiniteSet(Conn)
  /\ MountOrder \in Seq(Names) /\ IsInjective(MountOrder)
  /\ Size \in [Mounted -> Nat \ {0}]
  /\ {Fragments, MaxFd, MaxProc, Backlog, MaxStarts} \subseteq Nat \ {0}

(* Every figure finds room after those before it, and no block has the      *)
(* number that ends a figure.                                               *)
ASSUME RoomAssumption ==
  /\ Before \in [1..(Len(MountOrder) + 1) -> Nat]
  /\ \A i \in 1..Len(MountOrder) : \A j \in (i + 1)..(Len(MountOrder) + 1) :
       Before[i] + Size[MountOrder[i]] <= Before[j]
  /\ Before[Len(MountOrder) + 1] < Last255

(* Requests, as translateHttpToAscii makes them from the text.              *)
Request == [kind : {"OBJECTS", "ON", "OFF", "ERROR"}, name : {"none"}]
             \cup [kind : {"GET"}, name : Names]

VARIABLES
  threads,   \* serves with threads, not with processes
  life,      \* down, mounting, serving, or dead
  starts,    \* how often it has been started
  dir,       \* the directory: first block of each figure, 0 when it has none
  next,      \* the last byte of each block
  piece,     \* what each block holds: figure and number of the piece
  counter,   \* the last byte of the directory: the block to give out next
  step,      \* where MountSystem is: figure, piece and block
  torn,      \* figures that were being written when the server was killed
  fds,       \* open descriptors of the server
  found,     \* GETs of existing figures since the start
  zombies,   \* ended child processes
  queue,     \* connections that wait for accept
  task,      \* each connection: what serves it and how far it is
  client     \* each connection: its other end

diskVars == <<dir, next, piece, counter>>
vars == <<threads, life, starts, diskVars, step, torn, fds, found, zombies,
          queue, task, client>>

(* A request the translation does not know; processes do not look at theirs.*)
NoRequest == [kind |-> "ERROR", name |-> "none"]

NoTask == [at |-> "none", got |-> 0, number |-> 0, art |-> <<>>, out |-> <<>>]

(* Server.h: usarHilos is true for threads; run tests it the other way.     *)
RunsThreads(usarHilos) == ~usarHilos

Init ==
  /\ \E usarHilos \in BOOLEAN : threads = RunsThreads(usarHilos)
  /\ life = "down" /\ starts = 0
  /\ dir = [f \in Names |-> 0]
  /\ next = [b \in Blocks |-> 0]
  /\ piece = [b \in Blocks |-> Blank]
  /\ counter = 1
  /\ step = [figure |-> 1, part |-> 0, block |-> 0]
  /\ torn = {}
  /\ fds = 0 /\ found = 0 /\ zombies = 0
  /\ queue = <<>>
  /\ task = [c \in Conn |-> NoTask]
  /\ \E r \in [Conn -> IF threads THEN Request ELSE {NoRequest}] :
       (\A c \in Conn : threads => r[c] \in Asks[c]) /\
       client = [c \in Conn |-> [at |-> "idle", request |-> r[c], sent |-> 0,
                                got |-> <<>>]]

-----------------------------------------------------------------------------
(* The start, and MountSystem.                                              *)

Start ==
  /\ life \in {"down", "dead"} /\ starts < MaxStarts
  /\ life' = "mounting" /\ starts' = starts + 1
  /\ step' = [figure |-> 1, part |-> 0, block |-> 0]
  /\ UNCHANGED <<threads, diskVars, torn, fds, found, zombies, queue, task, client>>

(* checkBlockAvaible takes a block whose last byte is 0, if one lies before *)
(* the end of disk.dat, or else the one the directory counts.               *)
Extent == {b \in Blocks : \E d \in Blocks : d >= b /\ next[d] # 0}

Holes == {b \in Extent : next[b] = 0}

NewBlock == IF Holes # {} THEN CHOOSE b \in Holes : \A d \in Holes : b <= d
            ELSE counter

CountUp == counter' = IF Holes # {} THEN counter ELSE counter + 1

(* A hole is reserved before it is written.                                 *)
Reserved_Not == next

Reserved == IF Holes # {} THEN [next EXCEPT ![NewBlock] = Last255] ELSE next

Figure == MountOrder[step.figure]

NextFigure == [figure |-> step.figure + 1, part |-> 0, block |-> 0]

Mounting == life = "mounting" /\ step.figure \in DOMAIN MountOrder

(* writeFile leaves a figure alone that the directory knows.                *)
SkipFigure ==
  /\ Mounting /\ step.part = 0 /\ dir[Figure] # 0
  /\ step' = NextFigure
  /\ UNCHANGED <<threads, life, starts, diskVars, torn, fds, found, zombies,
                 queue, task, client>>

WriteEntry ==
  /\ Mounting /\ step.part = 0 /\ dir[Figure] = 0
  /\ dir' = [dir EXCEPT ![Figure] = NewBlock]
  /\ next' = Reserved
  /\ CountUp
  /\ step' = [step EXCEPT !.part = 1, !.block = NewBlock]
  /\ UNCHANGED <<threads, life, starts, piece, torn, fds, found, zombies,
                 queue, task, client>>

WriteBlock ==
  /\ Mounting /\ step.part > 0
  /\ piece' = [piece EXCEPT ![step.block] = Piece(Figure, step.part)]
  /\ \/ /\ step.part = Size[Figure]
        /\ next' = [next EXCEPT ![step.block] = Last255]
        /\ step' = NextFigure
        /\ UNCHANGED counter
     \/ /\ step.part < Size[Figure]
        /\ next' = [Reserved EXCEPT ![step.block] = NewBlock]
        /\ CountUp
        /\ step' = [step EXCEPT !.part = @ + 1, !.block = NewBlock]
  /\ UNCHANGED <<threads, life, starts, dir, torn, fds, found, zombies, queue,
                 task, client>>

(* With its figures written the server makes its socket, binds it and       *)
(* listens.  Bind throws when the port is taken, and main ends.             *)
MountDone == life = "mounting" /\ step.figure = Len(MountOrder) + 1

AfterMount(part) ==
  /\ step' = [step EXCEPT !.part = part]
  /\ UNCHANGED <<threads, starts, diskVars, torn, found, zombies, queue, task,
                 client>>

BuildSocket == /\ MountDone /\ step.part = 0
               /\ fds' = fds + 1
               /\ AfterMount(1) /\ UNCHANGED life

Bind == /\ MountDone /\ step.part = 1
        /\ AfterMount(2) /\ UNCHANGED <<life, fds>>

MarkPassive == /\ MountDone /\ step.part = 2
               /\ life' = "serving"
               /\ AfterMount(3) /\ UNCHANGED fds

-----------------------------------------------------------------------------
(* The server ends: its descriptors and connections are gone with it.       *)

Connected(c) == client[c].at \in {"connecting", "open"}

Dies ==
  /\ life' = "dead"
  /\ fds' = 0 /\ found' = 0 /\ zombies' = 0 /\ queue' = <<>>
  /\ task' = [c \in Conn |-> NoTask]
  /\ client' = [c \in Conn |->
                  IF Connected(c) THEN [client[c] EXCEPT !.at = "reset"] ELSE client[c]]

BindFails == /\ MountDone /\ step.part = 1
             /\ Dies
             /\ UNCHANGED <<threads, starts, diskVars, step, torn>>

Kill ==
  /\ life \in {"mounting", "serving"} /\ starts < MaxStarts
  /\ torn' = IF Mounting /\ step.part > 0 THEN torn \cup {Figure} ELSE torn
  /\ Dies
  /\ UNCHANGED <<threads, starts, diskVars, step>>

-----------------------------------------------------------------------------
(* Clients.                                                                 *)

NetUnchanged == UNCHANGED <<threads, life, starts, diskVars, step, torn>>

Connect(c) ==
  /\ life = "serving" /\ client[c].at = "idle" /\ Len(queue) < Backlog
  /\ client' = [client EXCEPT ![c].at = "connecting"]
  /\ queue' = Append(queue, c)
  /\ NetUnchanged /\ UNCHANGED <<fds, found, zombies, task>>

SendFragment(c) ==
  /\ Connected(c) /\ client[c].sent < Fragments
  /\ client' = [client EXCEPT ![c].sent = @ + 1]
  /\ NetUnchanged /\ UNCHANGED <<fds, found, zombies, queue, task>>

Leave(c) ==
  /\ Connected(c)
  /\ client' = [client EXCEPT ![c].at = "gone"]
  /\ NetUnchanged /\ UNCHANGED <<fds, found, zombies, queue, task>>

Gone(c) == client[c].at = "gone"

-----------------------------------------------------------------------------
(* The loop of run.  When accept fails for want of a descriptor it starts a *)
(* thread on -1, which ends at once, and tries again: nothing changes.      *)

(* The descriptor of the new connection, and its end at the client.         *)
WaitForConnection == fds' = fds + 1

Opened(c) == IF client[c].at = "connecting"
             THEN [client EXCEPT ![c].at = "open"] ELSE client

AcceptThread ==
  /\ life = "serving" /\ threads /\ queue # <<>> /\ fds < MaxFd
  /\ WaitForConnection
  /\ queue' = Tail(queue)
  /\ task' = [task EXCEPT ![Head(queue)].at = "read"]
  /\ client' = Opened(Head(queue))
  /\ NetUnchanged /\ UNCHANGED <<found, zombies>>

Children == {c \in Conn : task[c].at \in {"hear", "echo"}}

(* The parent closes its end of the connection, whether fork succeeded or   *)
(* not.                                                                     *)
AcceptProcess ==
  LET c == Head(queue) IN
  /\ life = "serving" /\ ~threads /\ queue # <<>> /\ fds < MaxFd
  /\ queue' = Tail(queue)
  /\ IF Cardinality(Children) + zombies < MaxProc
     THEN /\ task' = [task EXCEPT ![c].at = "hear"]
          /\ client' = Opened(c)
     ELSE /\ task' = [task EXCEPT ![c].at = "closed"]
          /\ client' = [client EXCEPT ![c].at = IF Gone(c) THEN @ ELSE "reset"]
  /\ NetUnchanged /\ UNCHANGED <<fds, found, zombies>>

(* What a read may return: some of the parts that have arrived.             *)
Read(c) == (task[c].got + 1)..client[c].sent

(* The other mode: the child reads once, writes back what it has read.      *)
Hear(c) ==
  /\ task[c].at = "hear"
  /\ \/ \E n \in Read(c) : task' = [task EXCEPT ![c].at = "echo", ![c].got = n]
     \/ Gone(c) /\ client[c].sent = 0 /\ task' = [task EXCEPT ![c].at = "echo"]
  /\ NetUnchanged /\ UNCHANGED <<fds, found, zombies, queue, client>>

Echo(c) ==
  /\ task[c].at = "echo"
  /\ client' = IF Gone(c) THEN client
               ELSE [client EXCEPT ![c].at = "done", ![c].got = <<Part("echo", "none", task[c].got)>>]
  /\ task' = [task EXCEPT ![c].at = "closed"]
  /\ zombies' = zombies + 1
  /\ NetUnchanged /\ UNCHANGED <<fds, found, queue>>

-----------------------------------------------------------------------------
(* task: a thread reads until the header is whole or the client closes,     *)
(* makes the answer, writes it part by part and closes.                     *)

ReadSome_ToTheEnd(c) ==
  /\ task[c].at = "read"
  /\ \E n \in Read(c) : task' = [task EXCEPT ![c].got = n]
  /\ NetUnchanged /\ UNCHANGED <<fds, found, zombies, queue, client>>

ReadSome(c) ==
  /\ task[c].at = "read"
  /\ \E n \in Read(c) :
       task' = [task EXCEPT ![c].got = n,
                            ![c].at = IF n = Fragments THEN "handle" ELSE "read"]
  /\ NetUnchanged /\ UNCHANGED <<fds, found, zombies, queue, client>>

ReadEnd(c) ==
  /\ task[c].at = "read" /\ Gone(c) /\ task[c].got = client[c].sent
  /\ task' = [task EXCEPT ![c].at = "handle"]
  /\ NetUnchanged /\ UNCHANGED <<fds, found, zombies, queue, client>>

(* translateHttpToAscii: a request without its end is none it knows.        *)
Translated(c) == IF task[c].got = Fragments THEN client[c].request
                 ELSE NoRequest

Status(code) == Part(code, "none", 0)

(* validateRequest.  What is none of these, 400 of the translation too, is  *)
(* answered with 300.  The list of the figures is written in the code.      *)
Answer(r) == CASE r.kind = "OBJECTS" -> <<Status("200"), Part("list", "none", 0)>>
               [] r.kind \in {"ON", "OFF"} -> <<Status("200"), Part(r.kind, "none", 0)>>
               [] r.kind = "ERROR" -> <<Status("300")>>

Respond(c) ==
  /\ task[c].at = "handle" /\ Translated(c).kind # "GET"
  /\ task' = [task EXCEPT ![c].at = "write", ![c].out = Answer(Translated(c))]
  /\ NetUnchanged /\ UNCHANGED <<fds, found, zombies, queue, client>>

(* existASCII opens the disk, and leaves it open when it finds the figure.  *)
(* With no descriptor left fopen fails and fread reads through NULL.        *)
existASCII_Closes(c) ==
  /\ task[c].at = "handle" /\ Translated(c).kind = "GET"
  /\ LET f == Translated(c).name IN
     \/ /\ fds < MaxFd /\ dir[f] = 0
        /\ task' = [task EXCEPT ![c].at = "write", ![c].out = <<Status("201")>>]
        /\ UNCHANGED <<life, fds, found, zombies, queue, client>>
     \/ /\ fds < MaxFd /\ dir[f] # 0
        /\ found' = found + 1
        /\ task' = [task EXCEPT ![c].at = "block"]
        /\ UNCHANGED <<life, fds, zombies, queue, client>>
     \/ fds = MaxFd /\ Dies
  /\ UNCHANGED <<threads, starts, diskVars, step, torn>>

existASCII(c) ==
  /\ task[c].at = "handle" /\ Translated(c).kind = "GET"
  /\ LET f == Translated(c).name IN
     \/ /\ fds < MaxFd /\ dir[f] = 0
        /\ task' = [task EXCEPT ![c].at = "write", ![c].out = <<Status("201")>>]
        /\ UNCHANGED <<life, fds, found, zombies, queue, client>>
     \/ /\ fds < MaxFd /\ dir[f] # 0
        /\ fds' = fds + 1 /\ found' = found + 1
        /\ task' = [task EXCEPT ![c].at = "block"]
        /\ UNCHANGED <<life, zombies, queue, client>>
     \/ fds = MaxFd /\ Dies
  /\ UNCHANGED <<threads, starts, diskVars, step, torn>>

(* extractBlock reads the block number, or the first of the figure for 0;   *)
(* the loop of the GET goes on until the last byte of a block is 255.  A    *)
(* block that was never written reads as 0, and so the first block again,   *)
(* for ever: the task spins.                                                *)
BlockOf(c) == IF task[c].number = 0 THEN dir[Translated(c).name] ELSE task[c].number

extractBlock_Skips(c) ==
  /\ task[c].at = "block" /\ fds < MaxFd
  /\ LET b == BlockOf(c) IN
     task' = [task EXCEPT
       ![c].at = CASE next[b] = Last255 -> "write" [] next[b] = 0 -> "spins"
                   [] OTHER -> "block",
       ![c].out = IF next[b] = Last255
                  THEN <<Status("200")>> \o task[c].art ELSE <<>>,
       ![c].art = IF next[b] = Last255 THEN <<>> ELSE Append(@, piece[b]),
       ![c].number = IF next[b] = Last255 THEN 0 ELSE next[b]]
  /\ NetUnchanged /\ UNCHANGED <<fds, found, zombies, queue, client>>

extractBlock(c) ==
  /\ task[c].at = "block" /\ fds < MaxFd
  /\ LET b == BlockOf(c)
         art == Append(task[c].art, piece[b]) IN
     task' = [task EXCEPT
       ![c].at = CASE next[b] = Last255 -> "write" [] next[b] = 0 -> "spins"
                   [] OTHER -> "block",
       ![c].out = IF next[b] = Last255 THEN <<Status("200")>> \o art ELSE <<>>,
       ![c].art = IF next[b] = Last255 THEN <<>> ELSE art,
       ![c].number = IF next[b] = Last255 THEN 0 ELSE next[b]]
  /\ NetUnchanged /\ UNCHANGED <<fds, found, zombies, queue, client>>

extractFails(c) ==
  /\ task[c].at = "block" /\ fds = MaxFd
  /\ Dies
  /\ UNCHANGED <<threads, starts, diskVars, step, torn>>

(* Socket::Write ignores what write returns.  To a client that has gone the *)
(* part is lost, or the signal of the broken pipe ends the server.          *)
Write(c) ==
  /\ task[c].at = "write" /\ task[c].out # <<>>
  /\ \/ /\ task' = [task EXCEPT ![c].out = Tail(@)]
        /\ client' = IF Gone(c) THEN client
                     ELSE [client EXCEPT ![c].got = Append(@, Head(task[c].out))]
        /\ UNCHANGED <<life, fds, found, zombies, queue>>
     \/ Gone(c) /\ Dies
  /\ UNCHANGED <<threads, starts, diskVars, step, torn>>

Close(c) ==
  /\ task[c].at = "write" /\ task[c].out = <<>>
  /\ task' = [task EXCEPT ![c].at = "closed"]
  /\ fds' = fds - 1
  /\ client' = IF Gone(c) THEN client ELSE [client EXCEPT ![c].at = "done"]
  /\ NetUnchanged /\ UNCHANGED <<found, zombies, queue>>

Serve(c) == \/ ReadSome(c) \/ ReadEnd(c) \/ Respond(c) \/ existASCII(c)
            \/ extractBlock(c) \/ extractFails(c) \/ Write(c) \/ Close(c)
            \/ Hear(c) \/ Echo(c)

Mount == SkipFigure \/ WriteEntry \/ WriteBlock
         \/ BuildSocket \/ Bind \/ MarkPassive

Accept == AcceptThread \/ AcceptProcess

Next == \/ Start \/ Mount \/ BindFails \/ Kill \/ Accept
        \/ \E c \in Conn : Connect(c) \/ SendFragment(c) \/ Leave(c) \/ Serve(c)

(* The host runs every thread and process of the server; clients owe it     *)
(* nothing.                                                                 *)
Spec == /\ Init /\ [][Next]_vars
        /\ WF_vars(Mount) /\ WF_vars(Accept)
        /\ \A c \in Conn : WF_vars(Serve(c))

-----------------------------------------------------------------------------
(* Properties.                                                              *)

(* The types, and the account of the descriptors of a server with threads:  *)
(* the socket it listens on, one for each connection it serves, and one for *)
(* each GET that found its figure, which existASCII never closes            *)
(* (FileSystem.c:221).  Nothing else leaks, and the count never passes the  *)
(* limit of the process.                                                    *)
Stages == {"read", "handle", "block", "spins", "write"}

Serving == {c \in Conn : task[c].at \in Stages}

TypeOK ==
  /\ threads \in BOOLEAN
  /\ life \in {"down", "mounting", "serving", "dead"}
  /\ dir \in [Names -> {0} \cup Blocks]
  /\ next \in [Blocks -> {0, Last255} \cup Blocks]
  /\ counter \in 1..(Cardinality(Blocks) + 1)
  /\ torn \subseteq Mounted
  /\ zombies \in 0..MaxProc
  /\ IsInjective(queue) /\ Len(queue) <= Backlog
  /\ \A c \in Conn :
       /\ task[c].got <= client[c].sent
       /\ client[c].at \in {"idle", "connecting", "open", "done", "gone", "reset"}
  /\ fds <= MaxFd
  /\ life = "serving" => fds = 1 + Cardinality(Serving) + found

(* What the client of a request is owed.                                    *)
Whole(r) ==
  IF r.kind # "GET" THEN Answer(r)
  ELSE IF r.name \in Mounted
       THEN <<Status("200")>> \o [i \in 1..Size[r.name] |-> Piece(r.name, i)]
       ELSE <<Status("201")>>

Owed(r) ==
  IF threads THEN {Whole(r)} ELSE {<<Part("echo", "none", n)>> : n \in 0..Fragments}

(* Every client that stays gets what it asked for, whole and in order, from *)
(* whichever thread, after whatever kills and restarts in the middle of     *)
(* MountSystem: blocks of a figure that was being written then are lost or  *)
(* given to others, those of no other figure are (Server.cpp:180,           *)
(* FileSystem.c:232).                                                       *)
AnswersFit ==
  \A c \in Conn :
    client[c].request.name \notin torn =>
      /\ \E owed \in Owed(client[c].request) : IsPrefix(client[c].got, owed)
      /\ client[c].at = "done" => client[c].got \in Owed(client[c].request)

(* A server with threads answers every client that sends a whole request    *)
(* and waits, unless the server ends, the figure was torn by a kill, or the *)
(* descriptors that GETs leave open have reached the limit of the process.  *)
Waits(c) == client[c].at = "connecting" /\ client[c].sent = Fragments

RequestsEnd ==
  \A c \in Conn :
    Waits(c) ~> (\/ client[c].at \in {"done", "gone", "reset"}
                 \/ client[c].request.name \in torn
                 \/ found > 0 /\ fds = MaxFd)

-----------------------------------------------------------------------------
(* The inductive invariant of the start, of the disk, of the descriptors    *)
(* and of what each connection is at.                                       *)

Parts == [what : {"blank", "piece", "echo", "list", "ON", "OFF", "200", "201", "300"},
          name : Names \cup {"none"}, n : Nat]

Task == [at : {"none", "read", "handle", "block", "spins", "write", "hear", "echo",
               "closed"},
         got : 0..Fragments, number : {0} \cup Blocks, art : Seq(Parts), out : Seq(Parts)]

Client == [at : {"idle", "connecting", "open", "done", "gone", "reset"},
           request : Request, sent : 0..Fragments, got : Seq(Parts)]

Typed ==
  /\ threads \in BOOLEAN /\ life \in {"down", "mounting", "serving", "dead"}
  /\ dir \in [Names -> {0} \cup Blocks]
  /\ next \in [Blocks -> {0, Last255} \cup Blocks]
  /\ piece \in [Blocks -> Parts]
  /\ counter \in Nat \ {0}
  /\ step \in [figure : 1..(Len(MountOrder) + 1), part : Nat, block : {0} \cup Blocks]
  /\ torn \subseteq Mounted
  /\ fds \in Nat /\ found \in Nat /\ zombies \in Nat
  /\ queue \in Seq(Conn)
  /\ task \in [Conn -> Task] /\ client \in [Conn -> Client]

Writing == Mounting /\ step.part > 0

(* The blocks ch are those of the figure f, from its entry to the last.     *)
Leads(f, ch) ==
  /\ ch[1] = dir[f]
  /\ \A k \in 1..Size[f] :
       /\ piece[ch[k]] = Piece(f, k)
       /\ next[ch[k]] = IF k = Size[f] THEN Last255 ELSE ch[k + 1]

(* A figure that was written to its end.                                    *)
Stored(f) == dir[f] # 0 /\ f \notin torn /\ ~(Writing /\ f = Figure)

(* No figure that is stored uses the block that is being written.           *)
StoredLead ==
  \A f \in Mounted : Stored(f) =>
    \E ch \in [1..Size[f] -> Blocks] :
      Leads(f, ch) /\ (Writing => \A k \in 1..Size[f] : ch[k] # step.block)

CounterAhead == \A d \in Blocks : d >= counter => next[d] = 0

(* The blocks ch are those that have been written of the figure, and the    *)
(* one that is to be written.                                               *)
LeadsSoFar(ch) ==
  /\ ch[1] = dir[Figure] /\ ch[step.part] = step.block
  /\ \A k \in 1..(step.part - 1) :
       /\ ch[k] # step.block
       /\ piece[ch[k]] = Piece(Figure, k) /\ next[ch[k]] = ch[k + 1]

(* Nobody else is given the block that is being written: it is marked, or   *)
(* behind the counter with nothing in use after it.                         *)
InProgress ==
  Writing =>
    /\ Figure \notin torn /\ dir[Figure] # 0 /\ step.part <= Size[Figure]
    /\ step.block \in Blocks /\ step.block < counter
    /\ next[step.block] # 0 \/ \A d \in Blocks : d >= step.block => next[d] = 0
    /\ \E ch \in [1..step.part -> Blocks] : LeadsSoFar(ch)

(* The figures before the n-th have an entry, and only they; the counter is *)
(* within the room they have.                                               *)
UpTo(n) ==
  /\ \A i \in 1..Len(MountOrder) : dir[MountOrder[i]] # 0 <=> i < n
  /\ IF Writing
     THEN n = step.figure + 1 /\ counter <= Before[step.figure] + step.part + 1
     ELSE counter <= Before[n] + 1
  /\ life = "mounting" => step.figure <= n
  /\ life = "serving" => n = Len(MountOrder) + 1

InOrder ==
  /\ \E n \in 1..(Len(MountOrder) + 1) : UpTo(n)
  /\ \A f \in Names \ Mounted : dir[f] = 0
  /\ \A f \in torn : dir[f] # 0

DiskInv == CounterAhead /\ InProgress /\ StoredLead /\ InOrder

Account ==
  /\ fds <= MaxFd /\ Cardinality(Children) + zombies <= MaxProc
  /\ IF life = "serving" THEN fds = 1 + Cardinality(Serving) + found
     ELSE /\ found = 0 /\ zombies = 0
          /\ fds = IF MountDone /\ step.part > 0 THEN 1 ELSE 0

(* The parts got and then out are those of the answer.                      *)
Joined(got, out, answer) ==
  /\ Len(got) + Len(out) = Len(answer)
  /\ \A k \in 1..Len(got) : got[k] = answer[k]
  /\ \A k \in 1..Len(out) : out[k] = answer[Len(got) + k]

(* A GET has the first pieces of its figure and the block of the next.      *)
Halfway(t, f) ==
  \E ch \in [1..Size[f] -> Blocks] :
    /\ Leads(f, ch)
    /\ Len(t.art) < Size[f] /\ \A k \in 1..Len(t.art) : t.art[k] = Piece(f, k)
    /\ t.number = IF t.art = <<>> THEN 0 ELSE ch[Len(t.art) + 1]

(* The parts s are the first ones of the answer.                            *)
Begins(s, answer) ==
  Len(s) <= Len(answer) /\ \A k \in 1..Len(s) : s[k] = answer[k]

(* What the server makes of a request that has come as far as it has.       *)
Heard(t, k) == IF t.got = Fragments THEN k.request ELSE NoRequest

(* The two ends of a connection: t serves it, k is the client's.            *)
Talk(t, k) ==
  /\ t.got <= k.sent
  /\ t.at # "none" => life = "serving"
  /\ t.at \in Stages => threads
  /\ t.at \in {"hear", "echo"} => ~threads
  /\ t.at \in {"none", "hear", "read", "handle"} => t.number = 0 /\ t.art = <<>>
  /\ k.at \in {"idle", "connecting"} => t.at = "none"
  /\ t.at \notin {"none", "closed"} => k.at \in {"open", "gone"}
  /\ k.at \in {"idle", "connecting"} \/ (k.at = "open" /\ t.at # "write") => k.got = <<>>
  /\ t.at \in {"handle", "block", "spins", "write"} /\ k.at # "gone" => t.got = Fragments
  /\ t.at = "block" =>
       /\ Heard(t, k).kind = "GET" /\ dir[Heard(t, k).name] # 0
       /\ Heard(t, k).name \notin torn => Halfway(t, Heard(t, k).name)
  /\ k.request.name \notin torn =>
       /\ t.at = "write" /\ k.at # "gone" => Joined(k.got, t.out, Whole(k.request))
       /\ \E owed \in Owed(k.request) :
            Begins(k.got, owed) /\ (k.at = "done" => k.got = owed)

Queued ==
  /\ IsInjective(queue) /\ Len(queue) <= Backlog
  /\ \A i \in 1..Len(queue) :
       task[queue[i]].at = "none" /\ client[queue[i]].at \in {"connecting", "gone"}

PieceInv ==
  Typed /\ DiskInv /\ Account /\ Queued /\ \A c \in Conn : Talk(task[c], client[c])
=============================================================================
