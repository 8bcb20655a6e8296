---------------------------- MODULE FigureService ----------------------------
(***************************************************************************)
(* From a browser to a figure and back: the HTTP thread of the book-keeper *)
(* (forkServer::init), its requests to a figure server (requestFromServer),*)
(* the figure server with one thread for each connection (ASCIIServer), the*)
(* command line client, and the sockets they all use (VSocket.cc,          *)
(* Socket.cc).  BookKeeper models what the book-keeper knows; here the     *)
(* figure asked for may be listed or not.                                  *)
(*                                                                         *)
(* Answers travel in parts: a status, the pieces of a figure, an end mark. *)
(* The first write to a peer that has closed is lost, and from then on a   *)
(* write may kill: nobody handles SIGPIPE, and no one catches what Write   *)
(* throws.                                                                 *)
(***************************************************************************)
EXTENDS Integers, Sequences, FiniteSets, SequencesExt

CONSTANTS
  Browser,    \* clients of the book-keeper, one request each
  Visitor,    \* other book-keepers that ask the figure server, once each
  Casts,      \* which of them take part, and for each choice
  Held,       \* the descriptors that the figure server holds from its start
  Pages,      \* the requests of each browser
  Questions,  \* the requests of each visitor
  Figure,     \* the figures on the disk of the figure server
  Size,       \* how many blocks each of them takes
  EndWithin,  \* figures with the text "/END" in their first block
  Missing,    \* a name that is on no disk
  Fragments,  \* parts of a request of a browser
  MaxFd,      \* descriptors the figure server may have open
  MaxWaiting  \* connections that wait for accept, of each process

ASSUME SocketAssumption ==
  /\ Browser # {} /\ Browser \cap Visitor = {}
  /\ EndWithin \subseteq Figure /\ Missing \notin Figure /\ "none" \notin Figure
  /\ \A cast \in Casts : cast \subseteq Browser \cup Visitor
  /\ Size \in [Figure -> Nat \ {0}] /\ Held \in [Casts -> 0..MaxFd]
  /\ {Fragments, MaxFd, MaxWaiting} \subseteq Nat \ {0}

Process == {"server", "keeper"}
Peer == Browser \cup Visitor   \* who has a connection to the figure server

Part(what, name, n) == [what |-> what, name |-> name, n |-> n]
Status(code) == Part(code, "none", 0)
End == Part("END", "none", 0)
\* A part that lost its last characters.
Clipped == Part("clipped", "none", 0)
Piece(f, n) == Part("piece", f, n)
Pieces(f) == [n \in 1..Size[f] |-> Piece(f, n)]

\* Requests: of a browser, and of a visitor or the book-keeper to the server.
Page == [kind : {"index", "objects", "other"}, name : {"none"}]
          \cup [kind : {"get"}, name : Figure \cup {Missing}]
Ask == [kind : {"OBJECTS", "unknown", "none"}, name : {"none"}]
          \cup [kind : {"GET"}, name : Figure \cup {Missing}]
NoPage == [kind |-> "other", name |-> "none"]
NoQuestion == [kind |-> "none", name |-> "none"]

VARIABLES
  life,     \* each process: down, built, bound, up or dead
  waiting,  \* each process: the connections that wait for accept
  fds,      \* descriptors of the figure server in use
  handler,  \* each connection to the server: its thread
  wire,     \* each connection to the server: what it wrote, still unread
  asker,    \* each connection to the server: its other end
  http,     \* the HTTP thread of the book-keeper
  browser   \* each browser

vars == <<life, waiting, fds, handler, wire, asker, http, browser>>
serverVars == <<fds, handler, wire>>

NoHandler == [at |-> "none", block |-> 0, out |-> <<>>, broken |-> FALSE]
Accepting(h) == [at |-> "accept", client |-> h, got |-> 0, out |-> <<>>, broken |-> FALSE]

Init ==
  /\ life = [p \in Process |-> "down"] /\ waiting = [p \in Process |-> <<>>]
  /\ handler = [c \in Peer |-> NoHandler] /\ wire = [c \in Peer |-> <<>>]
  /\ http = Accepting(CHOOSE h \in Browser : TRUE)
  /\ \E cast \in Casts, page \in [Browser -> Page], ask \in [Visitor -> Ask] :
       LET Start(c) == IF c \in cast THEN "idle" ELSE "absent"
       IN /\ fds = Held[cast]
          /\ \A h \in Browser : page[h] \in IF h \in cast THEN Pages[h] ELSE {NoPage}
          /\ \A v \in Visitor : ask[v] \in IF v \in cast THEN Questions[v] ELSE {NoQuestion}
          /\ browser = [h \in Browser |->
                [at |-> Start(h), page |-> page[h], sent |-> 0, got |-> <<>>]]
          /\ asker = [c \in Peer |->
                [at |-> Start(c), sent |-> FALSE, got |-> <<>>,
                 ask |-> IF c \in Visitor THEN ask[c] ELSE NoQuestion]]

-----------------------------------------------------------------------------
(* A process starts, and ends.                                              *)

Becomes(p, from, to) ==
  /\ life[p] = from /\ life' = [life EXCEPT ![p] = to]
  /\ UNCHANGED <<waiting, serverVars, asker, http, browser>>

BuildSocket(p) == Becomes(p, "down", "built")
Bind(p) == Becomes(p, "built", "bound")
BindThrows(p) == Becomes(p, "built", "dead")   \* the port is taken
MarkPassive(p) == Becomes(p, "bound", "up")

\* Connections that were not accepted are reset, the others closed.
ServerEnds(h) ==
  /\ life' = [life EXCEPT !["server"] = "dead"]
  /\ waiting' = [waiting EXCEPT !["server"] = <<>>]
  /\ handler' = [c \in Peer |->
        [h[c] EXCEPT !.at = IF @ \in {"none", "refused"} THEN @ ELSE "end"]]
  /\ UNCHANGED <<fds, wire, asker, http, browser>>
ServerDies == ServerEnds(handler)

Served == http.at # "accept"
KeeperDies ==
  /\ life' = [life EXCEPT !["keeper"] = "dead"]
  /\ waiting' = [waiting EXCEPT !["keeper"] = <<>>]
  /\ browser' = [h \in Browser |->
        [browser[h] EXCEPT !.at = IF @ # "open" THEN @
                                  ELSE IF Served /\ h = http.client THEN "done" ELSE "reset"]]
  /\ asker' = [c \in Peer |-> IF c \in Browser /\ asker[c].at \in {"connected", "open"}
                              THEN [asker[c] EXCEPT !.at = "failed"] ELSE asker[c]]
  /\ UNCHANGED <<serverVars, http>>

-----------------------------------------------------------------------------
(* The figure server.                                                       *)

ServerUp == life["server"] = "up"
ServerKeeps == UNCHANGED <<life, waiting, asker, http, browser>>
Take(p) == waiting' = [waiting EXCEPT ![p] = Tail(@)]

\* Without a descriptor left accept fails, and what it throws ends the process.
WaitForConnection ==
  /\ ServerUp /\ waiting["server"] # <<>> /\ fds < MaxFd
  /\ LET c == Head(waiting["server"]) IN
     /\ Take("server")
     /\ fds' = fds + 1
     /\ handler' = [handler EXCEPT ![c].at = "read"]
  /\ UNCHANGED <<life, wire, asker, http, browser>>
AcceptThrows == ServerUp /\ waiting["server"] # <<>> /\ fds >= MaxFd /\ ServerDies

\* pthread_create fails: the connection is closed, and an identifier that was
\* never set, or that of a thread that has ended, is detached.
ThreadFails ==
  /\ ServerUp /\ waiting["server"] # <<>> /\ fds < MaxFd
  /\ LET c == Head(waiting["server"])
         refused == [handler EXCEPT ![c].at = "refused"]
     IN \/ /\ Take("server") /\ handler' = refused
           /\ UNCHANGED <<life, fds, wire, asker, http, browser>>
        \/ ServerEnds(refused)

Gone(c) == asker[c].at \in {"done", "failed"}
Handling(c, at) == ServerUp /\ handler[c].at = at
Goes(c, at) == handler' = [handler EXCEPT ![c].at = at]
Writes(c, parts) == handler' = [handler EXCEPT ![c].at = "write", ![c].out = parts]

\* handleRequest reads once: a request, or nothing when the peer has closed.
Read(c) ==
  /\ Handling(c, "read") /\ (asker[c].sent \/ Gone(c))
  /\ Goes(c, "handle")
  /\ UNCHANGED <<fds, wire>> /\ ServerKeeps

Requested(c) == IF asker[c].sent THEN asker[c].ask ELSE NoQuestion

\* validateRequest, but for the figures it finds.
Answer(r) ==
  CASE r.kind = "OBJECTS" -> <<Status("OK"), Part("list", "none", 0), End>>
    [] r.kind = "GET" -> <<Status("201"), End>>
    [] OTHER -> <<Status("300"), End>>
Found(c) == Requested(c).kind = "GET" /\ Requested(c).name \in Figure

\* With no descriptor left the disk cannot be opened: its readers go on through NULL.
UsesDisk(c) == handler[c].at = "block" \/ Requested(c).kind \in {"OBJECTS", "GET"}
OpenFails(c) ==
  /\ Handling(c, "handle") \/ Handling(c, "block")
  /\ UsesDisk(c) /\ fds >= MaxFd
  /\ ServerDies

validateRequest(c) ==
  /\ Handling(c, "handle") /\ ~Found(c) /\ (UsesDisk(c) => fds < MaxFd)
  /\ Writes(c, Answer(Requested(c)))
  /\ UNCHANGED <<fds, wire>> /\ ServerKeeps

\* existASCII leaves the disk open when it finds the figure.
existASCII(c) ==
  /\ Handling(c, "handle") /\ Found(c) /\ fds < MaxFd
  /\ fds' = fds + 1
  /\ handler' = [handler EXCEPT ![c].at = "block", ![c].block = 1, ![c].out = <<Status("OK")>>]
  /\ UNCHANGED wire /\ ServerKeeps

\* The loop over the blocks: the block with next 255 is the last one.
LastBlock_OneEarly(f, n) == n >= Size[f] - 1
LastBlock(f, n) == n = Size[f]
extractBlock(c) ==
  LET f == Requested(c).name
      n == handler[c].block
      out == Append(handler[c].out, Piece(f, n))
  IN /\ Handling(c, "block") /\ fds < MaxFd
     /\ IF LastBlock(f, n) THEN Writes(c, Append(out, End))
        ELSE handler' = [handler EXCEPT ![c].block = n + 1, ![c].out = out]
     /\ UNCHANGED <<fds, wire>> /\ ServerKeeps

\* Write: one part a call, lost when the peer has closed.
Write(c) ==
  /\ Handling(c, "write") /\ handler[c].out # <<>>
  /\ handler' = [handler EXCEPT ![c].out = Tail(@), ![c].broken = @ \/ Gone(c)]
  /\ wire' = IF Gone(c) THEN wire ELSE [wire EXCEPT ![c] = Append(@, Head(handler[c].out))]
  /\ UNCHANGED fds /\ ServerKeeps
WriteThrows(c) ==
  /\ Handling(c, "write") /\ handler[c].out # <<>> /\ handler[c].broken
  /\ ServerDies

\* handleRequestWrapper closes the connection of the thread.
Closes_Figures(c) == handler[c].out = <<>> /\ Found(c)
Closes(c) == handler[c].out = <<>>
Close(c) ==
  /\ Handling(c, "write") /\ Closes(c)
  /\ Goes(c, "end")
  /\ fds' = fds - 1
  /\ UNCHANGED wire /\ ServerKeeps

ServerStep ==
  \/ WaitForConnection \/ AcceptThrows \/ ThreadFails
  \/ \E c \in Peer : \/ Read(c) \/ validateRequest(c) \/ existASCII(c) \/ OpenFails(c)
                     \/ extractBlock(c) \/ Write(c) \/ WriteThrows(c) \/ Close(c)

-----------------------------------------------------------------------------
(* requestFromServer: the other end of a connection to the figure server.   *)

AskerKeeps == UNCHANGED <<life, fds, http, browser>>
AskerAt(c, at) == asker[c].at = at /\ (c \in Browser => life["keeper"] = "up")
Asks(c, at) == asker' = [asker EXCEPT ![c].at = at]

\* A visitor begins; the book-keeper begins in AskServer.
Visit(c) ==
  /\ c \in Visitor /\ asker[c].at = "idle" /\ Asks(c, "connecting")
  /\ AskerKeeps /\ UNCHANGED <<waiting, handler, wire>>

\* EstablishConnection throws when nobody listens.
EstablishConnection(c) ==
  /\ AskerAt(c, "connecting")
  /\ \/ /\ ServerUp /\ Len(waiting["server"]) < MaxWaiting
        /\ waiting' = [waiting EXCEPT !["server"] = Append(@, c)]
        /\ Asks(c, "connected")
     \/ ~ServerUp /\ Asks(c, "failed") /\ UNCHANGED waiting
  /\ AskerKeeps /\ UNCHANGED <<handler, wire>>

\* The server has closed the connection, or died before it accepted it.
Ended(c) == handler[c].at \in {"end", "refused"} \/ (handler[c].at = "none" /\ ~ServerUp)

WriteRequest(c) ==
  /\ AskerAt(c, "connected")
  /\ \/ ~Ended(c) /\ asker' = [asker EXCEPT ![c].at = "open", ![c].sent = TRUE]
     \/ Ended(c) /\ Asks(c, "failed")
  /\ AskerKeeps /\ UNCHANGED <<waiting, handler, wire>>

\* A text that ends the loop of requestFromServer.
HasEnd(part) == part = End \/ (part.what = "piece" /\ part.name \in EndWithin /\ part.n = 1)

ReadAnswer_Once(parts) == TRUE
\* The loop reads on until the answer has an end.
ReadAnswer(parts) == \E k \in DOMAIN parts : HasEnd(parts[k])

\* Leaving what has arrived unread resets the connection.
Receive(c) ==
  /\ AskerAt(c, "open") /\ wire[c] # <<>>
  /\ \E n \in 1..Len(wire[c]) :
       LET got == asker[c].got \o SubSeq(wire[c], 1, n)
           over == ReadAnswer(got)
       IN /\ asker' = [asker EXCEPT ![c].got = got, ![c].at = IF over THEN "done" ELSE @]
          /\ wire' = [wire EXCEPT ![c] = IF over THEN <<>> ELSE SubSeq(@, n + 1, Len(@))]
          /\ handler' = [handler EXCEPT ![c].broken = @ \/ (over /\ n < Len(wire[c]))]
  /\ AskerKeeps /\ UNCHANGED waiting

\* The server has closed: an empty answer is an error, a part of one is an answer.
EndOfAnswer(c) ==
  /\ AskerAt(c, "open") /\ wire[c] = <<>> /\ Ended(c)
  /\ Asks(c, IF asker[c].got = <<>> THEN "failed" ELSE "done")
  /\ AskerKeeps /\ UNCHANGED <<waiting, handler, wire>>

\* SO_RCVTIMEO: Read throws and what was received is lost.
TimesOut(c) ==
  /\ AskerAt(c, "open") /\ wire[c] = <<>> /\ ~Ended(c)
  /\ Asks(c, "failed")
  /\ AskerKeeps /\ UNCHANGED <<waiting, handler, wire>>

AskerStep(c) ==
  \/ Visit(c) \/ EstablishConnection(c) \/ WriteRequest(c) \/ Receive(c) \/ EndOfAnswer(c)
  \/ TimesOut(c)

-----------------------------------------------------------------------------
(* The HTTP thread of the book-keeper: one browser at a time.               *)

KeeperUp(at) == life["keeper"] = "up" /\ http.at = at
KeeperKeeps == UNCHANGED <<life, serverVars>>
Client == http.client
Left(h) == browser[h].at = "gone"

AcceptConnection ==
  /\ KeeperUp("accept") /\ waiting["keeper"] # <<>>
  /\ Take("keeper")
  /\ http' = [Accepting(Head(waiting["keeper"])) EXCEPT !.at = "read"]
  /\ KeeperKeeps /\ UNCHANGED <<asker, browser>>

\* Until the header is whole, or the browser has closed.
ReadHeader ==
  /\ KeeperUp("read")
  /\ \/ \E n \in (http.got + 1)..browser[Client].sent :
            http' = [http EXCEPT !.got = n, !.at = IF n = Fragments THEN "handle" ELSE @]
     \/ Left(Client) /\ http.got = browser[Client].sent /\ http' = [http EXCEPT !.at = "handle"]
  /\ KeeperKeeps /\ UNCHANGED <<waiting, asker, browser>>

HttpWrites(parts) == http' = [http EXCEPT !.at = "write", !.out = parts]

\* translateHttpToAscii and the lists; a header cut short is a request or none.
Understood == IF http.got = Fragments THEN {browser[Client].page}
              ELSE {browser[Client].page, NoPage}
HandlePage ==
  /\ KeeperUp("handle")
  /\ \E page \in Understood :
       HttpWrites(CASE page.kind \in {"index", "objects"} -> <<Status("200"), Part("list", "none", 0)>>
                    [] page.kind = "get" -> <<Status("201")>>  \* no server lists it
                    [] OTHER -> <<Status("500")>>)
  /\ KeeperKeeps /\ UNCHANGED <<waiting, asker, browser>>

AskServer ==
  /\ KeeperUp("handle")
  /\ \E page \in Understood :
       /\ page.kind = "get"
       /\ asker' = [asker EXCEPT ![Client].at = "connecting",
                                 ![Client].ask = [kind |-> "GET", name |-> page.name]]
  /\ http' = [http EXCEPT !.at = "ask"]
  /\ KeeperKeeps /\ UNCHANGED <<waiting, browser>>

\* translateAsciiToHttp drops the last four characters, an end or not.
Translated(got) ==
  LET body == IF Last(got) = End THEN Front(got) ELSE Append(Front(got), Clipped)
  IN IF Head(got) = Status("201") THEN <<Status("201")>>
     ELSE <<Status("200")>> \o Tail(body)

Relay ==
  /\ KeeperUp("ask") /\ asker[Client].at = "done"
  /\ HttpWrites(Translated(asker[Client].got))
  /\ KeeperKeeps /\ UNCHANGED <<waiting, asker, browser>>

\* Nobody catches what requestFromServer throws.
RequestThrows == KeeperUp("ask") /\ asker[Client].at = "failed" /\ KeeperDies

WriteHttp ==
  /\ KeeperUp("write") /\ http.out # <<>>
  /\ http' = [http EXCEPT !.out = Tail(@), !.broken = @ \/ Left(Client)]
  /\ browser' = IF Left(Client) THEN browser
                ELSE [browser EXCEPT ![Client].got = Append(@, Head(http.out))]
  /\ KeeperKeeps /\ UNCHANGED <<waiting, asker>>
WriteHttpThrows == KeeperUp("write") /\ http.out # <<>> /\ http.broken /\ KeeperDies

CloseClient ==
  /\ KeeperUp("write") /\ http.out = <<>>
  /\ browser' = [browser EXCEPT ![Client].at = IF @ = "open" THEN "done" ELSE @]
  /\ http' = Accepting(CHOOSE h \in Browser : TRUE)
  /\ KeeperKeeps /\ UNCHANGED <<waiting, asker>>

KeeperStep ==
  \/ AcceptConnection \/ ReadHeader \/ HandlePage \/ AskServer \/ Relay \/ RequestThrows
  \/ WriteHttp \/ WriteHttpThrows \/ CloseClient

-----------------------------------------------------------------------------
(* Client.cc: connect, send, read to the end; its user may stop it before.  *)

BrowserKeeps == UNCHANGED <<life, serverVars, asker, http>>

MakeConnection(h) ==
  /\ browser[h].at = "idle" /\ life["keeper"] = "up" /\ Len(waiting["keeper"]) < MaxWaiting
  /\ browser' = [browser EXCEPT ![h].at = "open"]
  /\ waiting' = [waiting EXCEPT !["keeper"] = Append(@, h)]
  /\ BrowserKeeps

SendRequest(h) ==
  /\ browser[h].at = "open" /\ browser[h].sent < Fragments
  /\ browser' = [browser EXCEPT ![h].sent = @ + 1]
  /\ BrowserKeeps /\ UNCHANGED waiting

Leave(h) ==
  /\ browser[h].at = "open" /\ browser' = [browser EXCEPT ![h].at = "gone"]
  /\ BrowserKeeps /\ UNCHANGED waiting

-----------------------------------------------------------------------------
Starts == \E p \in Process : BuildSocket(p) \/ Bind(p) \/ BindThrows(p) \/ MarkPassive(p)
BrowserStep(h) == MakeConnection(h) \/ SendRequest(h) \/ Leave(h)

Next ==
  \/ Starts \/ ServerStep \/ KeeperStep
  \/ (\E c \in Peer : AskerStep(c)) \/ (\E h \in Browser : BrowserStep(h))

\* Processes run; a browser that has begun sends its request.
Fairness ==
  /\ WF_vars(ServerStep) /\ WF_vars(KeeperStep)
  /\ \A c \in Peer : WF_vars(AskerStep(c) /\ ~Visit(c))
  /\ \A h \in Browser : WF_vars(SendRequest(h))

Spec == Init /\ [][Next]_vars /\ Fairness

-----------------------------------------------------------------------------
\* What a browser gets is its own figure, piece by piece from the first; a browser
\* that read to the end has the whole figure, unless its text holds "/END" or a
\* process died (requestFromServer, translateAsciiToHttp, handleRequest and the
\* loop of validateRequest over the blocks, with other requests under way).
AnswersAreWhole ==
  \A h \in Browser :
    LET f == browser[h].page.name
        got == browser[h].got
        rest == Tail(got)
        body == IF rest # <<>> /\ Last(rest) = Clipped THEN Front(rest) ELSE rest
    IN browser[h].page.kind = "get" /\ got # <<>> /\ Head(got) = Status("200") =>
         /\ f \in Figure /\ IsPrefix(body, Pieces(f))
         /\ browser[h].at = "done" /\ f \notin EndWithin /\ "dead" \notin Range(life) =>
                Tail(got) = Pieces(f)

\* A process ends only for what its sockets and descriptors do to it: the figure
\* server for a connection that is closed before the whole answer was read (a
\* timeout, or a text with "/END"), a thread that cannot be made or descriptors
\* that are used up; the book-keeper for a browser that leaves, or a figure server
\* that fails it.  No request, answer or mix of them does it alone.
Impatient == {c \in Peer : asker[c].at = "failed" \/ asker[c].ask.name \in EndWithin}
ProcessesEndForCause ==
  /\ life["server"] = "dead" =>
       \/ Impatient # {} \/ (\E c \in Peer : handler[c].at = "refused") \/ fds = MaxFd
       \/ \A c \in Peer : handler[c].at = "none"
  /\ life["keeper"] = "dead" =>
       \/ (\E h \in Browser : browser[h].at = "gone" \/ asker[h].at = "failed")
       \/ \A h \in Browser : browser[h].at \in {"absent", "idle"}

\* Whoever connects gets an end: an answer, an error or a reset; no thread of the
\* figure server and no turn of the HTTP thread is lost (handleRequestWrapper: Close;
\* forkServer::init).
EverybodyEnds ==
  /\ \A h \in Browser : browser[h].at = "open" ~> browser[h].at \in {"done", "reset", "gone"}
  /\ \A c \in Peer : handler[c].at = "read" ~> handler[c].at = "end"

-----------------------------------------------------------------------------
(* The inductive invariant behind AnswersAreWhole and ProcessesEndForCause.  *)

Parts == [what : {"OK", "200", "201", "300", "500", "list", "END", "clipped", "piece"},
          name : Figure \cup {"none"}, n : Nat]

TypeOK ==
  /\ life \in [Process -> {"down", "built", "bound", "up", "dead"}]
  /\ DOMAIN waiting = Process
  /\ waiting["server"] \in Seq(Peer) /\ waiting["keeper"] \in Seq(Browser)
  /\ fds \in Int
  /\ handler \in [Peer -> [at : {"none", "refused", "read", "handle", "block", "write", "end"},
                           block : Nat, out : Seq(Parts), broken : BOOLEAN]]
  /\ wire \in [Peer -> Seq(Parts)]
  /\ asker \in [Peer -> [at : {"absent", "idle", "connecting", "connected", "open", "done",
                               "failed"},
                         sent : BOOLEAN, got : Seq(Parts), ask : Ask]]
  /\ http \in [at : {"accept", "read", "handle", "ask", "write"}, client : Browser, got : Nat,
               out : Seq(Parts), broken : BOOLEAN]
  /\ browser \in [Browser -> [at : {"absent", "idle", "open", "gone", "done", "reset"},
                              page : Page, sent : Nat, got : Seq(Parts)]]

\* What the figure server makes of what it has read, and all that it answers.
Heard(a) == IF a.sent THEN a.ask ELSE NoQuestion
Whole(r) == IF r.kind = "GET" /\ r.name \in Figure
            THEN <<Status("OK")>> \o Pieces(r.name) \o <<End>> ELSE Answer(r)

\* The parts s are those of the answer that follow the first n.
Follows(answer, n, s) ==
  n + Len(s) <= Len(answer) /\ \A k \in 1..Len(s) : s[k] = answer[n + k]

Silent == {"none", "refused", "read", "handle"}

\* A connection to the figure server: what was received, what is on its way and what
\* the thread has still to write make the answer, up to the end of either side.
Exchange(h, a, w, dead) ==
  LET answer == Whole(Heard(a))
      over == a.at \in {"done", "failed"}
      n == Len(a.got)
  IN /\ a.at \in {"absent", "idle", "connecting"} => h.at = "none"
     /\ a.at \in {"absent", "idle", "connecting", "connected"} => ~a.sent
     /\ a.at \in {"open", "done"} => a.sent
     /\ h.at \in {"handle", "block", "write"} \/ (h.at = "end" /\ ~dead) => a.sent \/ over
     /\ ~a.sent \/ h.at \in Silent \cup {"block"} => a.got = <<>> /\ w = <<>>
     /\ h.at \in Silent => h.out = <<>>
     /\ h.at \in Silent \cup {"block"} => ~h.broken
     /\ h.at = "block" =>
          /\ Heard(a).kind = "GET" /\ Heard(a).name \in Figure
          /\ h.block \in 1..Size[Heard(a).name]
          /\ Len(h.out) = h.block /\ Follows(answer, 0, h.out)
     /\ Follows(answer, 0, a.got)
     /\ ~over =>
          /\ Follows(answer, n, w)
          /\ \A k \in 1..n : ~HasEnd(a.got[k])
          /\ h.at = "write" =>
               Follows(answer, n + Len(w), h.out) /\ n + Len(w) + Len(h.out) = Len(answer)
          /\ h.at = "end" /\ ~dead => n + Len(w) = Len(answer)
     /\ a.at = "done" =>
          n > 0 /\ (dead \/ n = Len(answer) \/ Heard(a).name \in EndWithin)
     /\ h.at = "write" /\ n = Len(answer) => h.out = <<>>
     /\ h.at = "write" /\ h.broken /\ h.out # <<>> =>
          a.at = "failed" \/ a.ask.name \in EndWithin

ServerDead == life["server"] = "dead"
NoneDead == "dead" \notin {life["server"], life["keeper"]}

ServerInv ==
  /\ \A c \in Peer : Exchange(handler[c], asker[c], wire[c], ServerDead)
  /\ life["server"] \in {"down", "built", "bound"} => \A c \in Peer : handler[c].at = "none"
  /\ IsInjective(waiting["server"])
  /\ \A i \in 1..Len(waiting["server"]) :
       LET c == waiting["server"][i]
       IN handler[c].at = "none" /\ asker[c].at \notin {"absent", "idle", "connecting"}
  /\ fds <= MaxFd

\* An answer for a browser, or its beginning: the list or an error, or a figure piece
\* by piece, of which the last may have been cut.
Fits(page, s) ==
  page.kind = "get" /\ s # <<>> /\ s[1] = Status("200") =>
    /\ page.name \in Figure /\ Len(s) <= Size[page.name] + 1
    /\ \A k \in 2..Len(s) : \/ s[k] = Piece(page.name, k - 1)
                            \/ k = Len(s) /\ s[k] = Clipped
\* All of it.
FitsWhole(page, s) ==
  page.kind = "get" /\ s # <<>> /\ s[1] = Status("200") /\ page.name \notin EndWithin =>
    /\ Len(s) = Size[page.name] + 1
    /\ \A k \in 2..Len(s) : s[k] = Piece(page.name, k - 1)

\* The book-keeper has a turn for the browser that it accepted last.
Turn ==
  LET h == http.client
      b == browser[h]
  IN /\ h \notin Range(waiting["keeper"])
     /\ b.at \notin {"absent", "idle"}
     /\ life["keeper"] # "dead" => b.at \in {"open", "gone"}
     /\ http.broken => \E g \in Browser : browser[g].at = "gone"
     /\ http.at \in {"read", "handle"} => asker[h].at = "idle"
     /\ http.at \in {"read", "handle", "ask"} => b.got = <<>>
     /\ http.at = "ask" =>
          /\ b.page.kind = "get" /\ asker[h].ask = [kind |-> "GET", name |-> b.page.name]
          /\ asker[h].at \notin {"absent", "idle"}
     /\ http.at = "write" /\ b.at = "open" =>
          LET s == b.got \o http.out
          IN Fits(b.page, s) /\ (NoneDead => FitsWhole(b.page, s))

KeeperInv ==
  /\ life["keeper"] \in {"down", "built", "bound"} =>
       \A h \in Browser : browser[h].at \in {"absent", "idle"}
  /\ IsInjective(waiting["keeper"])
  /\ \A i \in 1..Len(waiting["keeper"]) :
       LET h == waiting["keeper"][i]
       IN browser[h].at \in {"open", "gone"} /\ asker[h].at = "idle" /\ browser[h].got = <<>>
  /\ \A h \in Browser :
       /\ browser[h].at \in {"absent", "idle"} =>
            asker[h].at = browser[h].at /\ browser[h].got = <<>>
       /\ Fits(browser[h].page, browser[h].got)
       /\ browser[h].at = "done" /\ NoneDead => FitsWhole(browser[h].page, browser[h].got)
  /\ http.at # "accept" => Turn

\* The book-keeper asks the figure server once for a browser.
Unasked ==
  \A h \in Browser : asker[h].at \in {"absent", "idle"} => asker[h].ask = NoQuestion

ServiceInv == TypeOK /\ ServerInv /\ KeeperInv /\ Unasked /\ ProcessesEndForCause
=============================================================================
