----------------------------- MODULE Simulation -----------------------------
(***************************************************************************)
(* The simulation of the drawing protocol by three threads of one process: *)
(* client, book-keeper (Tenedor) and DrawingServer take turns on one       *)
(* circular buffer and three semaphores (SharedMemory).                    *)
(*                                                                         *)
(* A message is a kind with what it is about; Length gives its characters. *)
(* The buffer is modelled cell by cell, since a message longer than the    *)
(* buffer overwrites its own beginning and both indices go round.          *)
(***************************************************************************)
EXTENDS Naturals

CONSTANTS
    Figure,         \* figure names a client may ask for
    Listed,         \* nameList of ColabProtocolHandler: what the server says it has
    OnDisk,         \* what its disk really holds
    Capacity,       \* the cells of the buffer, 1024 in the code
    Length(_)       \* the number of characters of a message

\* What a client may ask for: the list, a figure of the server 0, or anything that
\* buildRequest does not understand.
Objects == <<"GET objects">>
Object(f) == <<"GET object", f>>
Other == <<"not understood">>
Request == {Objects, Other} \cup {Object(f) : f \in Figure}

\* Between book-keeper and server.
AskObjects == <<"OBJECTS">>
Get(f) == <<"GET", f>>
Names == <<"OK", Listed>>
Drawing(f) == <<"OK", f>>
Error(code) == <<"ERROR", code>>
Ok == {Names} \cup {Drawing(f) : f \in Figure}
Errors == {Error(200), Error(201)}

\* From book-keeper to client.
Listing(figures) == <<"200 list", figures>>
HttpFigure(m) == <<"200", m>>
HttpErrorCode == <<"500">>
HttpErrorFromServer == <<"Unknown Server Error">>
HttpBadRequest == <<"400">>

Message ==
    Request \cup Ok \cup Errors
        \cup {AskObjects} \cup {Get(f) : f \in Figure}
        \cup {Listing({}), Listing(Listed)} \cup {HttpFigure(m) : m \in Ok}
        \cup {HttpErrorCode, HttpErrorFromServer, HttpBadRequest}

\* A text that is not the whole of a message.
Broken == <<"broken">>

ASSUME SimulationAssumption ==
    /\ Listed \subseteq Figure /\ OnDisk \subseteq Figure
    /\ Capacity \in Nat \ {0}
    /\ \A m \in Message : Length(m) \in Nat

\* Only the line of the client may be empty.  The client's messages carry more text
\* around a name, a figure and an error than the server's, and the server's list more
\* than the request for it.
ASSUME LengthAssumption ==
    /\ \A m \in Message \ {Other} : Length(m) # 0
    /\ Length(AskObjects) <= Length(Names)
    /\ Length(Error(201)) <= Length(HttpErrorCode)
    /\ \A f \in Figure : /\ Length(Get(f)) <= Length(Object(f))
                         /\ Length(Drawing(f)) <= Length(HttpFigure(Drawing(f)))

VARIABLES
    buffer,         \* the cells
    writeIndex, readIndex,
    semaphore,      \* the semaphores of the three threads
    finished,       \* the flag that ends the program
    client,         \* the three threads
    tenedor,
    server

shared == <<buffer, writeIndex, readIndex, semaphore, finished>>
vars == <<shared, client, tenedor, server>>

-----------------------------------------------------------------------------
(* SharedMemory                                                            *)

Nul == <<"nul">>
Char(m, k) == <<m, k>>
Cell == 0..(Capacity - 1)

\* Character k of the message, or the NUL that ends it.
CharOf(m, k) == IF k = Length(m) THEN Nul ELSE Char(m, k)

\* The last of the characters of m that falls on the cell i, if one does.
Overwritten(m, i) ==
    LET offset == (i + Capacity - writeIndex) % Capacity
    IN  IF offset > Length(m)
        THEN buffer[i]
        ELSE CharOf(m, offset + Capacity * ((Length(m) - offset) \div Capacity))

\* Mutants: the index does not go round, the NUL is not counted.
write_NoWrap(m) ==
    /\ buffer' = [i \in Cell |-> Overwritten(m, i)]
    /\ writeIndex' = writeIndex + Length(m) + 1
    /\ UNCHANGED readIndex
write_NoNul(m) ==
    /\ buffer' = [i \in Cell |-> Overwritten(m, i)]
    /\ writeIndex' = (writeIndex + Length(m)) % Capacity
    /\ UNCHANGED readIndex

write(m) ==
    /\ buffer' = [i \in Cell |-> Overwritten(m, i)]
    /\ writeIndex' = (writeIndex + Length(m) + 1) % Capacity
    /\ UNCHANGED readIndex

At(offset) == buffer[(readIndex + offset) % Capacity]

\* The characters read are those of m, all of them.
Reads(m, length) == Length(m) = length /\ \A k \in 0..(length - 1) : At(k) = Char(m, k)

\* read stops at the first NUL; there is one, as write ends with it.
read(text) ==
    /\ \E length \in Cell :
         /\ At(length) = Nul
         /\ \A k \in 0..(length - 1) : At(k) # Nul
         /\ readIndex' = (readIndex + length + 1) % Capacity
         /\ IF \E m \in Message : Reads(m, length)
            THEN text \in Message /\ Reads(text, length)
            ELSE text = Broken
    /\ UNCHANGED <<buffer, writeIndex>>

BufferUnchanged == UNCHANGED <<buffer, writeIndex, readIndex>>

\* sem_post and sem_wait
signal(t) == semaphore' = [semaphore EXCEPT ![t] = @ + 1]
wait(t) == semaphore[t] > 0 /\ semaphore' = [semaphore EXCEPT ![t] = @ - 1]

-----------------------------------------------------------------------------
(* Client::run                                                             *)

ClientWait ==
    /\ client.pc \in {"start", "wait"}
    /\ wait("client")
    /\ client' = [client EXCEPT !.pc = IF client.pc = "start" THEN "ask" ELSE "read"]
    /\ UNCHANGED <<finished, tenedor, server>> /\ BufferUnchanged

ClientAsk ==
    /\ client.pc = "ask"
    /\ \E r \in Request :
         write(r) /\ client' = [client EXCEPT !.pc = "signal", !.request = r]
    /\ UNCHANGED <<semaphore, finished, tenedor, server>>

\* The user entered "exit".
ClientExit ==
    /\ client.pc = "ask"
    /\ finished' = TRUE
    /\ client' = [client EXCEPT !.pc = "bye"]
    /\ UNCHANGED <<semaphore, tenedor, server>> /\ BufferUnchanged

ClientSignal ==
    /\ client.pc \in {"signal", "bye"}
    /\ signal("tenedor")
    /\ client' = [client EXCEPT !.pc = IF client.pc = "bye" THEN "ended" ELSE "wait"]
    /\ UNCHANGED <<finished, tenedor, server>> /\ BufferUnchanged

ClientRead ==
    /\ client.pc = "read"
    /\ \E text \in Message \cup {Broken} :
         read(text) /\ client' = [client EXCEPT !.pc = "ask", !.response = text]
    /\ UNCHANGED <<semaphore, finished, tenedor, server>>

-----------------------------------------------------------------------------
(* Tenedor::run and RequestColabHTTPAdapter                                *)

\* The first message to the server asks for its list.
TenedorStart ==
    /\ tenedor.pc = "begin"
    /\ write(AskObjects)
    /\ tenedor' = [tenedor EXCEPT !.pc = "signalServer"]
    /\ UNCHANGED <<semaphore, finished, client, server>>

TenedorSignalServer ==
    /\ tenedor.pc = "signalServer"
    /\ signal("server")
    /\ tenedor' = [tenedor EXCEPT !.pc = "waitServer"]
    /\ UNCHANGED <<finished, client, server>> /\ BufferUnchanged

TenedorSignalClient ==
    /\ tenedor.pc = "signalClient"
    /\ signal("client")
    /\ tenedor' = [tenedor EXCEPT !.pc = "waitClient"]
    /\ UNCHANGED <<finished, client, server>> /\ BufferUnchanged

\* One semaphore for the client's requests and the server's answers.
TenedorWait ==
    /\ tenedor.pc \in {"waitServer", "waitClient"}
    /\ wait("tenedor")
    /\ tenedor' = [tenedor EXCEPT
                     !.pc = IF tenedor.pc = "waitClient" THEN "check" ELSE "readServer"]
    /\ UNCHANGED <<finished, client, server>> /\ BufferUnchanged

\* setServerFiguresByResponse, once.
TenedorList ==
    /\ tenedor.pc = "readServer" /\ ~tenedor.loaded
    /\ \E text \in Message \cup {Broken} :
         /\ read(text)
         /\ tenedor' = [tenedor EXCEPT !.pc = "signalClient", !.loaded = TRUE,
                          !.figures = IF text = Names THEN Listed ELSE {}]
    /\ UNCHANGED <<semaphore, finished, client, server>>

\* getFinished, then read.
TenedorCheck ==
    /\ tenedor.pc = "check"
    /\ IF finished
       THEN tenedor' = [tenedor EXCEPT !.pc = "ended"] /\ BufferUnchanged
       ELSE \E text \in Message \cup {Broken} :
              read(text) /\ tenedor' = [tenedor EXCEPT !.pc = "serve", !.text = text]
    /\ UNCHANGED <<semaphore, finished, client, server>>

\* The figure that is asked for, if it is listed.
Asked(text) == {f \in tenedor.figures : text = Object(f)}

\* Mutant: nobody is woken for what is answered at once.
TenedorServe_NoSignal ==
    /\ tenedor.pc = "serve"
    /\ \/ \E f \in Asked(tenedor.text) :
            write(Get(f)) /\ tenedor' = [tenedor EXCEPT !.pc = "signalServer"]
       \/ /\ Asked(tenedor.text) = {}
          /\ write(IF tenedor.text = Objects THEN Listing(tenedor.figures)
                                             ELSE HttpBadRequest)
          /\ tenedor' = [tenedor EXCEPT !.pc = "waitClient"]
    /\ UNCHANGED <<semaphore, finished, client, server>>

\* buildRequest: the list and the mistakes are answered at once, a figure that is
\* listed is asked for.
TenedorServe ==
    /\ tenedor.pc = "serve"
    /\ \/ \E f \in Asked(tenedor.text) :
            write(Get(f)) /\ tenedor' = [tenedor EXCEPT !.pc = "signalServer"]
       \/ /\ Asked(tenedor.text) = {}
          /\ write(IF tenedor.text = Objects THEN Listing(tenedor.figures)
                                             ELSE HttpBadRequest)
          /\ tenedor' = [tenedor EXCEPT !.pc = "signalClient"]
    /\ UNCHANGED <<semaphore, finished, client, server>>

\* Mutant: an error of the server is taken for a bad request.
buildResponse_Bad(text) == IF text \in Ok THEN HttpFigure(text) ELSE HttpBadRequest

\* buildResponse: what is not between BEGIN and END is a bad request.
buildResponse(text) ==
    CASE text \in Ok -> HttpFigure(text)
      [] text \in Errors -> HttpErrorCode
      [] text \in Request \cup {Broken} -> HttpBadRequest
      [] OTHER -> HttpErrorFromServer

TenedorReadServer ==
    /\ tenedor.pc = "readServer" /\ tenedor.loaded
    /\ \E text \in Message \cup {Broken} :
         read(text) /\ tenedor' = [tenedor EXCEPT !.pc = "answer", !.text = text]
    /\ UNCHANGED <<semaphore, finished, client, server>>

TenedorAnswer ==
    /\ tenedor.pc = "answer"
    /\ write(buildResponse(tenedor.text))
    /\ tenedor' = [tenedor EXCEPT !.pc = "signalClient"]
    /\ UNCHANGED <<semaphore, finished, client, server>>

-----------------------------------------------------------------------------
(* DrawingServer::run and ColabProtocolHandler                             *)

\* buildAnswer
buildAnswer(text) ==
    IF text = AskObjects THEN Names
    ELSE IF \E f \in OnDisk : text = Get(f) THEN Drawing(text[2])
    ELSE IF \E f \in Figure : text = Get(f) THEN Error(201)
    ELSE Error(200)

ServerWait ==
    /\ server.pc = "wait"
    /\ wait("server")
    /\ server' = [server EXCEPT !.pc = "check"]
    /\ UNCHANGED <<finished, client, tenedor>> /\ BufferUnchanged

ServerCheck ==
    /\ server.pc = "check"
    /\ IF finished
       THEN server' = [server EXCEPT !.pc = "ended"] /\ BufferUnchanged
       ELSE \E text \in Message \cup {Broken} :
              read(text) /\ server' = [server EXCEPT !.pc = "answer", !.text = text]
    /\ UNCHANGED <<semaphore, finished, client, tenedor>>

\* Mutant: the book-keeper is woken before the answer is written.
ServerAnswer_SignalFirst ==
    /\ server.pc \in {"answer", "signal"}
    /\ IF server.pc = "answer"
       THEN signal("tenedor") /\ server' = [server EXCEPT !.pc = "signal"] /\ BufferUnchanged
       ELSE write(buildAnswer(server.text)) /\ server' = [server EXCEPT !.pc = "wait"]
              /\ UNCHANGED semaphore
    /\ UNCHANGED <<finished, client, tenedor>>

\* The answer is written, then the book-keeper is woken.
ServerAnswer ==
    /\ server.pc \in {"answer", "signal"}
    /\ IF server.pc = "answer"
       THEN write(buildAnswer(server.text)) /\ server' = [server EXCEPT !.pc = "signal"]
              /\ UNCHANGED semaphore
       ELSE signal("tenedor") /\ server' = [server EXCEPT !.pc = "wait"] /\ BufferUnchanged
    /\ UNCHANGED <<finished, client, tenedor>>

-----------------------------------------------------------------------------
Thread == {"client", "tenedor", "server"}

\* The memory of the buffer is not initialised; nothing is read before it is written.
Init ==
    /\ buffer = [i \in Cell |-> Char(Broken, 0)]
    /\ writeIndex = 0 /\ readIndex = 0
    /\ semaphore = [t \in Thread |-> 0]
    /\ finished = FALSE
    /\ client = [pc |-> "start", request |-> Other, response |-> Broken]
    /\ tenedor = [pc |-> "begin", loaded |-> FALSE, figures |-> {}, text |-> Broken]
    /\ server = [pc |-> "wait", text |-> Broken]

ClientStep == ClientWait \/ ClientAsk \/ ClientExit \/ ClientSignal \/ ClientRead

TenedorStep ==
    \/ TenedorStart \/ TenedorSignalServer \/ TenedorSignalClient \/ TenedorWait
    \/ TenedorList \/ TenedorCheck \/ TenedorServe \/ TenedorReadServer \/ TenedorAnswer

ServerStep == ServerWait \/ ServerCheck \/ ServerAnswer

Next == ClientStep \/ TenedorStep \/ ServerStep

Spec == Init /\ [][Next]_vars

\* The threads are scheduled.  The user is not obliged to enter anything.
Fairness ==
    /\ WF_vars(ClientWait \/ ClientSignal \/ ClientRead)
    /\ WF_vars(TenedorStep)
    /\ WF_vars(ServerStep)

FairSpec == Spec /\ Fairness

-----------------------------------------------------------------------------
(* Properties                                                              *)

Text == Message \cup {Broken}

TypeOK ==
    /\ DOMAIN buffer = Cell
    /\ \A i \in Cell : buffer[i] = Nul \/ buffer[i] \in Text \X Nat
    /\ writeIndex \in Cell /\ readIndex \in Cell
    /\ semaphore \in [Thread -> Nat]
    /\ finished \in BOOLEAN
    /\ client \in [pc : {"start", "ask", "signal", "wait", "read", "bye", "ended"},
                   request : Request, response : Text]
    /\ tenedor \in [pc : {"begin", "signalServer", "signalClient", "waitServer",
                          "waitClient", "check", "serve", "readServer", "answer", "ended"},
                    loaded : BOOLEAN, figures : {{}, Listed}, text : Text]
    /\ server \in [pc : {"wait", "check", "answer", "signal", "ended"}, text : Text]

\* The threads that are not blocked, and may use the buffer.
Running ==
    (IF client.pc \in {"start", "wait", "ended"} THEN {} ELSE {"client"})
        \cup (IF tenedor.pc \in {"waitServer", "waitClient", "ended"} THEN {} ELSE {"tenedor"})
        \cup (IF server.pc \in {"wait", "ended"} THEN {} ELSE {"server"})

\* A thread has the turn while it runs and once it has been woken.
Turns(t) == semaphore[t] + (IF t \in Running THEN 1 ELSE 0)

\* The semaphores pass one turn around: at most one thread is running or has been
\* woken, so no two threads are at the buffer.
OneTurn ==
    \A t \in Thread :
        /\ Turns(t) <= 1
        /\ Turns(t) = 1 => \A u \in Thread \ {t} : Turns(u) = 0

\* The two indices meet before every write, whatever was written before: a message
\* that goes round the buffer spoils itself and none of those that follow.
IndicesMeet ==
    (client.pc = "ask" \/ tenedor.pc \in {"begin", "serve", "answer"} \/ server.pc = "answer")
        => readIndex = writeIndex

\* What a request calls for.
Answer(r) ==
    CASE r = Objects -> Listing(Listed)
      [] r \in {Object(f) : f \in Listed \cap OnDisk} -> HttpFigure(Drawing(r[2]))
      [] r \in {Object(f) : f \in Listed \ OnDisk} -> HttpErrorCode
      [] OTHER -> HttpBadRequest

Fits(m) == Length(m) < Capacity

\* The client reads the answer to its own request, never to an earlier one or the
\* server's answer meant for the book-keeper, when the messages fit the buffer, also
\* after others that did not (SharedMemory::write, Tenedor::run, Client::run).
FittingAnswersFollow ==
    [][client.pc = "read" /\ client'.pc = "ask"
         /\ Fits(client.request) /\ Fits(Answer(client.request)) /\ Fits(Names)
         => client'.response = Answer(client.request)]_vars

\* No request is forgotten by the two threads behind the client.
RequestsAnswered == client.pc = "wait" ~> client.pc = "ask"

-----------------------------------------------------------------------------
(* The inductive invariant behind IndicesMeet and FittingAnswersFollow.    *)

Empty == readIndex = writeIndex

\* The buffer holds one message, or what is left of it after its last round.
Contains(m) ==
    LET rest == Length(m) % Capacity
    IN  /\ At(rest) = Nul
        /\ \A k \in 0..(rest - 1) : At(k) # Nul /\ (Fits(m) => At(k) = Char(m, k))
        /\ writeIndex = (readIndex + rest + 1) % Capacity

\* Where the threads are, and which of the blocked ones has been woken.
Threads(c, t, s, woken) ==
    /\ client.pc = c /\ tenedor.pc = t /\ server.pc = s
    /\ \A u \in Thread : semaphore[u] = IF u = woken THEN 1 ELSE 0

\* The server's list has been read.
Loaded == tenedor.loaded /\ (Fits(Names) => tenedor.figures = Listed)

\* The book-keeper asks the server for its list, or for the figure of a request.
ForList == client.pc = "start" /\ ~tenedor.loaded
ForFigure ==
    /\ client.pc = "wait" /\ Loaded
    /\ Fits(client.request) => tenedor.text = client.request
    /\ \E f \in tenedor.figures : tenedor.text = Object(f)
Question == IF tenedor.loaded THEN Get(tenedor.text[2]) ELSE AskObjects

\* What the client should be told, if all that it is made from fits.
Right(m) ==
    Fits(client.request) /\ Fits(Answer(client.request)) /\ Fits(Names)
        => m = Answer(client.request)

Begins == Threads("start", "begin", "wait", "nobody") /\ ~tenedor.loaded /\ Empty

Asking ==
    /\ \/ Threads(client.pc, "signalServer", "wait", "nobody")
       \/ Threads(client.pc, "waitServer", "wait", "server")
       \/ Threads(client.pc, "waitServer", "check", "nobody")
    /\ ForList \/ ForFigure
    /\ Contains(Question)

Answering ==
    /\ Threads(client.pc, "waitServer", "answer", "nobody")
    /\ ForList \/ ForFigure
    /\ Fits(Question) => server.text = Question
    /\ Empty

Answered ==
    /\ \/ Threads(client.pc, "waitServer", "signal", "nobody")
       \/ Threads(client.pc, "waitServer", "wait", "tenedor")
       \/ Threads(client.pc, "readServer", "wait", "nobody")
    /\ ForList \/ ForFigure
    /\ Fits(Question) => server.text = Question
    /\ Contains(buildAnswer(server.text))

Listens ==
    /\ \/ Threads("start", "signalClient", "wait", "nobody")
       \/ Threads("start", "waitClient", "wait", "client")
       \/ Threads("ask", "waitClient", "wait", "nobody")
    /\ Loaded /\ Empty

Requested ==
    /\ \/ Threads("signal", "waitClient", "wait", "nobody")
       \/ Threads("wait", "waitClient", "wait", "tenedor")
       \/ Threads("wait", "check", "wait", "nobody")
    /\ Loaded /\ Contains(client.request)

Serving ==
    /\ Threads("wait", "serve", "wait", "nobody")
    /\ Loaded /\ Empty
    /\ Fits(client.request) => tenedor.text = client.request

Responding ==
    /\ Threads("wait", "answer", "wait", "nobody")
    /\ Loaded /\ Empty
    /\ Right(buildResponse(tenedor.text))

Responded ==
    /\ \/ Threads("wait", "signalClient", "wait", "nobody")
       \/ Threads("wait", "waitClient", "wait", "client")
       \/ Threads("read", "waitClient", "wait", "nobody")
    /\ Loaded
    /\ \E m \in Message : Right(m) /\ Contains(m)

Ends ==
    \/ Threads("bye", "waitClient", "wait", "nobody")
    \/ Threads("ended", "waitClient", "wait", "tenedor")
    \/ Threads("ended", "check", "wait", "nobody")
    \/ Threads("ended", "ended", "wait", "nobody")

\* The turn goes round from one thread to the next, and with it one message.
TurnInv ==
    IF finished
    THEN Ends
    ELSE \/ Begins \/ Asking \/ Answering \/ Answered \/ Listens
         \/ Requested \/ Serving \/ Responding \/ Responded

=============================================================================
