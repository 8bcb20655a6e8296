----------------------------- MODULE BookKeeper -----------------------------
(***************************************************************************)
(* The book-keeper (class forkServer) and the figure servers (class        *)
(* ASCIIServer) it discovers.  Three threads of the book-keeper share the  *)
(* maps knownServers and serverObjects under one mutex: the HTTP loop, the *)
(* UDP discovery and the monitor.  Figure servers start, announce          *)
(* themselves by UDP, listen by TCP, and die; datagrams get lost and       *)
(* reordered; a TCP exchange can fail or be cut short.                     *)
(*                                                                         *)
(* The mutex is held across steps by one thread only: discovery, which     *)
(* asks a new server for its figures while holding it.  Every other        *)
(* critical section is a single step, enabled when the mutex is free.      *)
(***************************************************************************)
EXTENDS Naturals, FiniteSets

CONSTANTS
    Server,         \* the figure servers
    Addr,           \* IP addresses
    Figure,         \* figure names
    Host,           \* Host[s]: the address the datagrams of s come from
    Announced,      \* Announced[s]: the address s writes in its announcement
    Reach,          \* Reach[a]: the server a TCP connection to a would reach
    Catalogues,     \* Catalogues[s]: the sets of figures s may hold on its disk
    Beginnings,     \* Beginnings[f]: names that are left of f when a text ends in it
    EndPieces,      \* "/", "/E", "/EN": what is left of the "/END" after the last line
    NoAddr, NoServer,   \* no address, no server
    Absent,             \* no entry in serverObjects
    NoAnswer, Garbled,  \* instead of a list: the exception, a text without "OK"
    MaxRetries,     \* MAX_RETRIES of forkServer.h
    MaxStarts,      \* bound: MaxStarts[s] is how often s is started
    MaxForkStarts,  \* bound: how often the book-keeper is started
    MaySlow,        \* may a live server take more than SERVER_TIMEOUT?
    MayLose,        \* may the network lose a datagram?
    SaysOff         \* do servers announce OFF when they stop?

ASSUME AddressAssumption ==
    /\ Host \in [Server -> Addr]
    /\ Announced \in [Server -> Addr]
    /\ Reach \in [Addr -> Server \cup {NoServer}]
    /\ NoAddr \notin Addr
    /\ NoServer \notin Server

\* A name that may come to be listed: a figure, or what a cut answer left of a text.
Name == Figure \cup UNION {Beginnings[f] : f \in Figure} \cup EndPieces

ASSUME FigureAssumption ==
    /\ Catalogues \in [Server -> SUBSET SUBSET Figure]
    /\ Absent \notin SUBSET Name
    /\ NoAnswer \notin SUBSET Name
    /\ Garbled \notin SUBSET Name
    /\ NoAnswer # Garbled

ASSUME BoundAssumption ==
    /\ MaxRetries \in Nat \ {0}
    /\ MaxStarts \in [Server -> Nat]
    /\ MaxForkStarts \in Nat
    /\ {MaySlow, MayLose, SaysOff} \subseteq BOOLEAN

VARIABLES
    \* The figure servers
    server,         \* server[s]: "down", "binding" or "listening"
    announcer,      \* announcer[s]: where its broadcast thread is
    holds,          \* holds[s]: the figures in its file system
    tenedor,        \* tenedor[s]: a "BEGIN/ON/TENEDOR" waits in its UDP socket
    starts,         \* starts[s]: how often it was started
    \* The network
    net,            \* announcements on their way to the book-keeper
    \* The book-keeper
    fork,           \* "down" or "up"
    forkStarts,     \* how often it was started
    knownServers,   \* sender address -> announced address, or NoAddr
    serverObjects,  \* announced address -> names listed, or Absent
    discovery,      \* the thread of udpDiscoveryHandler
    monitor,        \* the thread of monitorServers
    http,           \* the thread of init, one client at a time
    reply,          \* the status of the last HTTP response
    witness         \* history: the addresses that listed the figure of the
                    \* current GET ever since it was received

serverVars == <<server, announcer, holds, tenedor, starts>>
registry == <<knownServers, serverObjects>>
forkVars == <<fork, forkStarts, registry, discovery, monitor, http, reply, witness>>
vars == <<serverVars, net, forkVars>>

-----------------------------------------------------------------------------
(* Figure servers                                                          *)

\* main: the figures on the disk become visible, then init starts the
\* broadcast thread before it binds the TCP socket.
StartServer(s) ==
    /\ server[s] = "down"
    /\ starts[s] < MaxStarts[s]
    /\ starts' = [starts EXCEPT ![s] = @ + 1]
    /\ server' = [server EXCEPT ![s] = "binding"]
    /\ announcer' = [announcer EXCEPT ![s] = "start"]
    /\ \E figures \in Catalogues[s] : holds' = [holds EXCEPT ![s] = figures]
    /\ UNCHANGED <<tenedor, net, forkVars>>

\* init: Bind and MarkPassive; from here on connections are accepted.
Listen(s) ==
    /\ server[s] = "binding"
    /\ server' = [server EXCEPT ![s] = "listening"]
    /\ UNCHANGED <<announcer, holds, tenedor, starts, net, forkVars>>

\* sendUdpAnnouncement
Announce(s) == net' = net \cup {<<"on", s>>}

\* udpBroadcastHandler: the announcement at the start of the thread.
InitialAnnouncement(s) ==
    /\ announcer[s] = "start"
    /\ Announce(s)
    /\ announcer' = [announcer EXCEPT ![s] = "recvfrom"]
    /\ UNCHANGED <<server, holds, tenedor, starts, forkVars>>

\* udpBroadcastHandler: recvfrom returned the datagram of a book-keeper.
AnswerTenedor(s) ==
    /\ announcer[s] = "recvfrom"
    /\ tenedor[s]
    /\ tenedor' = [tenedor EXCEPT ![s] = FALSE]
    /\ Announce(s)
    /\ announcer' = [announcer EXCEPT ![s] = "sleep"]
    /\ UNCHANGED <<server, holds, starts, forkVars>>

\* udpBroadcastHandler: the announcement after the sleep, then back to the
\* blocking recvfrom: there is no further one before the next datagram.
PeriodicAnnouncement(s) ==
    /\ announcer[s] = "sleep"
    /\ Announce(s)
    /\ announcer' = [announcer EXCEPT ![s] = "recvfrom"]
    /\ UNCHANGED <<server, holds, tenedor, starts, forkVars>>

\* The process ends: its sockets and threads go, its disk stays.
Die(s) ==
    /\ server' = [server EXCEPT ![s] = "down"]
    /\ announcer' = [announcer EXCEPT ![s] = "off"]
    /\ tenedor' = [tenedor EXCEPT ![s] = FALSE]
    /\ UNCHANGED <<holds, starts>>

StopServer(s) ==
    /\ server[s] # "down"
    /\ Die(s)
    /\ net' = IF SaysOff THEN net \cup {<<"off", s>>} ELSE net
    /\ UNCHANGED forkVars

LoseDatagram ==
    /\ MayLose
    /\ \/ \E m \in net : net' = net \ {m} /\ UNCHANGED tenedor
       \/ \E s \in Server : /\ tenedor[s]
                            /\ tenedor' = [tenedor EXCEPT ![s] = FALSE]
                            /\ UNCHANGED net
    /\ UNCHANGED <<server, announcer, holds, starts, forkVars>>

-----------------------------------------------------------------------------
(* requestFromServer: one TCP exchange.  `whole` is the answer of the      *)
(* server reached, `cut` the answers that can arrive if it dies while it   *)
(* writes: a read of zero bytes ends the answer, whatever came before.     *)
(* `exception` stands for the runtime_error it throws in every other case. *)

Listening(a) == Reach[a] # NoServer /\ server[Reach[a]] = "listening"

requestFromServer(a, whole, cut, exception, answer) ==
    \/ Listening(a) /\ answer = whole /\ UNCHANGED serverVars
    \/ Listening(a) /\ answer \in cut /\ Die(Reach[a])
    \/ (~Listening(a) \/ MaySlow) /\ answer = exception /\ UNCHANGED serverVars

\* What may follow some lines of a list when the text ends inside the next line,
\* or inside "/END" when no line is left.
BrokenName(figures, lines) ==
    IF lines = figures THEN EndPieces ELSE UNION {Beginnings[f] : f \in figures \ lines}

\* The lists taken from an answer without "/END": whatever came is split at the
\* line ends and stored, so that the last name may be one that no server holds.
CutLists(figures) ==
    UNION {{lines} \cup {lines \cup {name} : name \in BrokenName(figures, lines)}
             : lines \in SUBSET figures}

\* Mutant: the exchange uses a socket connected to some other server.
requestObjects_OtherPeer(a, answer) ==
    \E b \in Addr :
        LET figures == IF Listening(b) THEN holds[Reach[b]] ELSE {}
        IN  requestFromServer(b, figures, CutLists(figures) \cup {Garbled}, NoAnswer, answer)

\* The request OBJECTS.  The answer is a list of names, what a cut leaves of one,
\* a text too short to hold "BEGIN/OK/", or the exception.
Answer == (SUBSET Name) \cup {Garbled, NoAnswer}

requestObjects(a, answer) ==
    LET figures == IF Listening(a) THEN holds[Reach[a]] ELSE {}
    IN  requestFromServer(a, figures, CutLists(figures) \cup {Garbled}, NoAnswer, answer)

-----------------------------------------------------------------------------
(* The book-keeper: discovery thread                                       *)

EmptyMap == [a \in Addr |-> NoAddr]
IdleDiscovery == [pc |-> "recvfrom", sender |-> NoAddr, ip |-> NoAddr]
IdleMonitor == [pc |-> "sleep", todo |-> EmptyMap, ip |-> NoAddr, tries |-> 0,
                answer |-> NoAnswer]
IdleHttp == [pc |-> "accept", figure |-> "none", todo |-> EmptyMap, ip |-> NoAddr]

\* Mutant: the lock is never taken.
MutexFree_NoMutex == TRUE

\* serverMutex: only discovery keeps it from one step to the next.
MutexFree == discovery.pc # "asking"

ForkUp == fork = "up"

\* hasObject of the GET loop.
HasObject(a, f) == serverObjects[a] # Absent /\ f \in serverObjects[a]

\* The history variable, in every step that changes the registry: the
\* addresses that still list the figure of the current GET.
Lists(a, f) == knownServers[a] # NoAddr /\ HasObject(knownServers[a], f)
KeepWitness == witness' = {a \in witness : Lists(a, http.figure)'}

\* init: both threads are created; the maps are still empty.
StartFork ==
    /\ fork = "down"
    /\ forkStarts < MaxForkStarts
    /\ forkStarts' = forkStarts + 1
    /\ fork' = "up"
    /\ discovery' = [IdleDiscovery EXCEPT !.pc = "bind"]
    /\ UNCHANGED <<serverVars, net, registry, monitor, http, reply, witness>>

\* The process ends and its memory with it.
Terminate ==
    /\ fork' = "down"
    /\ knownServers' = EmptyMap
    /\ serverObjects' = [a \in Addr |-> Absent]
    /\ discovery' = IdleDiscovery
    /\ monitor' = IdleMonitor
    /\ http' = IdleHttp
    /\ reply' = "none"
    /\ witness' = {}

\* Mutant: the broadcast is sent to a port nobody listens at.
BroadcastTenedor_Unheard ==
    /\ ForkUp /\ discovery.pc = "bind"
    /\ discovery' = IdleDiscovery
    /\ UNCHANGED <<serverVars, net, fork, forkStarts, registry, monitor, http, reply, witness>>

\* udpDiscoveryHandler: Bind, then "BEGIN/ON/TENEDOR/END" is broadcast, once.
\* It reaches the servers whose UDP socket is bound.
BroadcastTenedor ==
    /\ ForkUp /\ discovery.pc = "bind"
    /\ discovery' = IdleDiscovery
    /\ tenedor' = [s \in Server |-> announcer[s] \in {"recvfrom", "sleep"}]
    /\ UNCHANGED <<server, announcer, holds, starts, net,
                   fork, forkStarts, registry, monitor, http, reply, witness>>

\* Mutant: the server is asked for its figures but never entered in knownServers.
ReceiveOn_Unregistered(s) ==
    /\ ForkUp /\ discovery.pc = "recvfrom"
    /\ <<"on", s>> \in net
    /\ net' = net \ {<<"on", s>>}
    /\ discovery' = [pc |-> "asking", sender |-> Host[s], ip |-> Announced[s]]
    /\ UNCHANGED <<serverVars, fork, forkStarts, registry, monitor, http, reply, witness>>

\* processProtocolMessage, ON: the mutex is taken, the server is registered
\* under the sender's address, and is asked for its figures.
ReceiveOn(s) ==
    /\ ForkUp /\ discovery.pc = "recvfrom"
    /\ <<"on", s>> \in net
    /\ net' = net \ {<<"on", s>>}
    /\ knownServers' = [knownServers EXCEPT ![Host[s]] = Announced[s]]
    /\ discovery' = [pc |-> "asking", sender |-> Host[s], ip |-> Announced[s]]
    /\ UNCHANGED <<serverVars, fork, forkStarts, serverObjects, monitor, http, reply>>
    /\ KeepWitness

\* The rest of ON.  A list is stored; an answer without "BEGIN/OK/" is
\* ignored; the exception leaves the receive loop of udpDiscoveryHandler.
ReceiveObjects ==
    /\ ForkUp /\ discovery.pc = "asking"
    /\ \E answer \in Answer :
         /\ requestObjects(discovery.ip, answer)
         /\ serverObjects' = IF answer \in SUBSET Name
                             THEN [serverObjects EXCEPT ![discovery.ip] = answer]
                             ELSE serverObjects
         /\ discovery' = [IdleDiscovery EXCEPT
                            !.pc = IF answer = NoAnswer THEN "ended" ELSE "recvfrom"]
    /\ UNCHANGED <<net, fork, forkStarts, knownServers, monitor, http, reply>>
    /\ KeepWitness

\* Mutants: only one of the two maps is erased.
Erase_KnownOnly(a) ==
    knownServers' = [knownServers EXCEPT ![a] = NoAddr] /\ UNCHANGED serverObjects
Erase_ObjectsOnly(a) ==
    serverObjects' = [serverObjects EXCEPT ![a] = Absent] /\ UNCHANGED knownServers

\* Both maps are erased at the same address.
Erase(a) ==
    /\ knownServers' = [knownServers EXCEPT ![a] = NoAddr]
    /\ serverObjects' = [serverObjects EXCEPT ![a] = Absent]

\* processProtocolMessage, OFF: both maps are erased at the sender's address.
ReceiveOff(s) ==
    /\ ForkUp /\ discovery.pc = "recvfrom"
    /\ <<"off", s>> \in net
    /\ net' = net \ {<<"off", s>>}
    /\ Erase(Host[s])
    /\ UNCHANGED <<serverVars, fork, forkStarts, discovery, monitor, http, reply>>
    /\ KeepWitness

-----------------------------------------------------------------------------
(* The book-keeper: monitor thread                                         *)

MonitorUnchanged == UNCHANGED <<net, fork, forkStarts, discovery, http, reply>>

\* monitorServers: the sleep is over, knownServers is copied.
MonitorCopy ==
    /\ ForkUp /\ monitor.pc = "sleep" /\ MutexFree
    /\ monitor' = [monitor EXCEPT !.pc = "next", !.todo = knownServers]
    /\ UNCHANGED <<serverVars, registry, witness>> /\ MonitorUnchanged

\* The loop over the copy (in any order); at its end the thread sleeps again.
MonitorNext ==
    /\ ForkUp /\ monitor.pc = "next"
    /\ \/ \E a \in Addr :
            /\ monitor.todo[a] # NoAddr
            /\ monitor' = [monitor EXCEPT !.pc = "probe", !.ip = monitor.todo[a],
                                          !.todo[a] = NoAddr]
       \/ /\ monitor.todo = EmptyMap
          /\ monitor' = IdleMonitor
    /\ UNCHANGED <<serverVars, registry, witness>> /\ MonitorUnchanged

\* Mutant: one attempt too many.
LastTry_OffByOne == monitor.tries = MaxRetries

\* The attempt being made is the last of the loop.
LastTry == monitor.tries + 1 = MaxRetries

\* One of the MAX_RETRIES attempts, without the mutex.
MonitorProbe ==
    /\ ForkUp /\ monitor.pc = "probe"
    /\ \E answer \in Answer :
         /\ requestObjects(monitor.ip, answer)
         /\ monitor' =
              IF answer \in SUBSET Name
              THEN [monitor EXCEPT !.pc = "store", !.answer = answer]
              ELSE [monitor EXCEPT !.tries = @ + 1,
                       !.pc = IF LastTry THEN "evict" ELSE "probe"]
    /\ UNCHANGED <<registry, witness>> /\ MonitorUnchanged

\* Mutant: a list once known is kept.
MonitorStore_Once ==
    /\ ForkUp /\ monitor.pc = "store" /\ MutexFree
    /\ serverObjects' = [serverObjects EXCEPT
                           ![monitor.ip] = IF @ = Absent THEN monitor.answer ELSE @]
    /\ monitor' = [IdleMonitor EXCEPT !.pc = "next", !.todo = monitor.todo]
    /\ UNCHANGED <<serverVars, knownServers>> /\ MonitorUnchanged /\ KeepWitness

\* The mutex again: the answer replaces the list of the address asked.
MonitorStore ==
    /\ ForkUp /\ monitor.pc = "store" /\ MutexFree
    /\ serverObjects' = [serverObjects EXCEPT ![monitor.ip] = monitor.answer]
    /\ monitor' = [IdleMonitor EXCEPT !.pc = "next", !.todo = monitor.todo]
    /\ UNCHANGED <<serverVars, knownServers>> /\ MonitorUnchanged /\ KeepWitness

\* The mutex again: both maps are erased at the address asked.
MonitorEvict ==
    /\ ForkUp /\ monitor.pc = "evict" /\ MutexFree
    /\ Erase(monitor.ip)
    /\ monitor' = [IdleMonitor EXCEPT !.pc = "next", !.todo = monitor.todo]
    /\ UNCHANGED serverVars /\ MonitorUnchanged /\ KeepWitness

-----------------------------------------------------------------------------
(* The book-keeper: HTTP thread                                            *)

HttpUnchanged == UNCHANGED <<fork, registry, discovery, monitor>>

\* "GET /" and "GET /objects" read serverObjects under the mutex.
HttpList ==
    /\ ForkUp /\ http.pc = "accept" /\ MutexFree
    /\ reply' = "ok"
    /\ UNCHANGED <<serverVars, net, forkStarts, http, witness>> /\ HttpUnchanged

\* Any other request but "GET /get/": translateHttpToAscii gives a message
\* that init has no answer to.
HttpOther ==
    /\ ForkUp /\ http.pc = "accept"
    /\ reply' = "invalid"
    /\ UNCHANGED <<serverVars, net, forkStarts, http, witness>> /\ HttpUnchanged

\* "GET /get/<name>", of any name that can be listed: knownServers is copied
\* under the mutex.
HttpGet ==
    /\ ForkUp /\ http.pc = "accept" /\ MutexFree
    /\ \E f \in Name :
         /\ http' = [pc |-> "scan", figure |-> f, todo |-> knownServers, ip |-> NoAddr]
         /\ witness' = {a \in Addr : Lists(a, f)}
    /\ reply' = "none"
    /\ UNCHANGED <<serverVars, net, forkStarts>> /\ HttpUnchanged

\* Mutants: the loop ends with the first server, or never leaves it.
LeftAfter_First(a) == EmptyMap
LeftAfter_Same(a) == http.todo

LeftAfter(a) == [http.todo EXCEPT ![a] = NoAddr]

\* One turn of the loop over the copy, under the mutex.
HttpScan ==
    /\ ForkUp /\ http.pc = "scan" /\ MutexFree
    /\ \E a \in Addr :
         /\ http.todo[a] # NoAddr
         /\ http' = IF HasObject(http.todo[a], http.figure)
                    THEN [http EXCEPT !.pc = "ask", !.ip = http.todo[a]]
                    ELSE [http EXCEPT !.todo = LeftAfter(a)]
    /\ UNCHANGED <<serverVars, net, forkStarts, reply, witness>> /\ HttpUnchanged

\* The loop ended with nothing found: error 201.
HttpNotFound ==
    /\ ForkUp /\ http.pc = "scan"
    /\ http.todo = EmptyMap
    /\ reply' = "notFound"
    /\ http' = IdleHttp
    /\ witness' = {}
    /\ UNCHANGED <<serverVars, net, forkStarts>> /\ HttpUnchanged

\* The figure is asked for, without the mutex; translateAsciiToHttp turns the
\* answer into the response.  A name with a "/" makes a request the server does
\* not recognise.  Nothing catches the exception: the process ends.
HttpAsk ==
    /\ ForkUp /\ http.pc = "ask"
    /\ \E answer \in {"ok", "notFound", "invalid", "exception"} :
         LET held == Listening(http.ip) /\ http.figure \in holds[Reach[http.ip]]
             whole == CASE http.figure \in EndPieces -> "invalid"
                        [] http.figure \notin EndPieces /\ held -> "ok"
                        [] OTHER -> "notFound"
         IN  /\ requestFromServer(http.ip, whole, {whole, "invalid"}, "exception", answer)
             /\ IF answer = "exception"
                THEN Terminate
                ELSE /\ reply' = answer /\ http' = IdleHttp /\ witness' = {}
                     /\ HttpUnchanged
    /\ UNCHANGED <<net, forkStarts>>

-----------------------------------------------------------------------------
Init ==
    /\ server = [s \in Server |-> "down"]
    /\ announcer = [s \in Server |-> "off"]
    /\ holds = [s \in Server |-> {}]
    /\ tenedor = [s \in Server |-> FALSE]
    /\ starts = [s \in Server |-> 0]
    /\ net = {}
    /\ fork = "down"
    /\ forkStarts = 0
    /\ knownServers = EmptyMap
    /\ serverObjects = [a \in Addr |-> Absent]
    /\ discovery = IdleDiscovery
    /\ monitor = IdleMonitor
    /\ http = IdleHttp
    /\ reply = "none"
    /\ witness = {}

ServerStep ==
    \/ \E s \in Server :
         \/ StartServer(s) \/ Listen(s) \/ StopServer(s)
         \/ InitialAnnouncement(s) \/ AnswerTenedor(s) \/ PeriodicAnnouncement(s)
    \/ LoseDatagram

DiscoveryStep ==
    \/ BroadcastTenedor
    \/ \E s \in Server : ReceiveOn(s) \/ ReceiveOff(s)
    \/ ReceiveObjects

MonitorStep ==
    MonitorCopy \/ MonitorNext \/ MonitorProbe \/ MonitorStore \/ MonitorEvict

HttpStep ==
    HttpList \/ HttpOther \/ HttpGet \/ HttpScan \/ HttpNotFound \/ HttpAsk

Next == ServerStep \/ StartFork \/ DiscoveryStep \/ MonitorStep \/ HttpStep

Spec == Init /\ [][Next]_vars

-----------------------------------------------------------------------------
(* Fairness: the threads of a running process are scheduled, a TCP exchange *)
(* ends (SO_RCVTIMEO), the mutex is released.  Nothing obliges a server to *)
(* start or stop, a client to ask, or the network to lose a datagram.      *)

HttpProgress == HttpScan \/ HttpNotFound \/ HttpAsk
AnnouncerProgress(s) == AnswerTenedor(s) \/ PeriodicAnnouncement(s)

Fairness ==
    /\ WF_vars(DiscoveryStep)
    /\ WF_vars(MonitorStep)
    /\ WF_vars(HttpProgress)
    /\ \A s \in Server : WF_vars(AnnouncerProgress(s))

FairSpec == Spec /\ Fairness

-----------------------------------------------------------------------------
(* Properties                                                              *)

AddrMap == [Addr -> Addr \cup {NoAddr}]

ServerTypeOK ==
    /\ server \in [Server -> {"down", "binding", "listening"}]
    /\ announcer \in [Server -> {"off", "start", "recvfrom", "sleep"}]
    /\ holds \in [Server -> SUBSET Figure]
    /\ tenedor \in [Server -> BOOLEAN]
    /\ starts \in [Server -> Nat]
    /\ \A s \in Server : starts[s] <= MaxStarts[s]

ForkTypeOK ==
    /\ net \subseteq {"on", "off"} \X Server
    /\ fork \in {"down", "up"}
    /\ forkStarts \in 0..MaxForkStarts
    /\ knownServers \in AddrMap
    /\ serverObjects \in [Addr -> (SUBSET Name) \cup {Absent}]
    /\ discovery \in [pc : {"bind", "recvfrom", "asking", "ended"},
                      sender : Addr \cup {NoAddr}, ip : Addr \cup {NoAddr}]
    /\ monitor \in [pc : {"sleep", "next", "probe", "store", "evict"},
                    todo : AddrMap, ip : Addr \cup {NoAddr}, tries : 0..MaxRetries,
                    answer : (SUBSET Name) \cup {NoAnswer}]
    /\ http \in [pc : {"accept", "scan", "ask"}, figure : Name \cup {"none"},
                 todo : AddrMap, ip : Addr \cup {NoAddr}]
    /\ reply \in {"none", "ok", "notFound", "invalid"}
    /\ witness \subseteq Addr

\* What a thread at work has at hand: an address, an attempt left between two
\* attempts, a list to store.
ThreadsOK ==
    /\ discovery.pc = "asking" => discovery.ip \in Addr
    /\ http.pc = "ask" => http.ip \in Addr
    /\ monitor.pc \in {"probe", "store", "evict"} => monitor.ip \in Addr
    /\ monitor.pc # "evict" => monitor.tries < MaxRetries
    /\ monitor.pc = "store" => monitor.answer \in SUBSET Name

\* Every variable has its type; the monitor never tries more than MaxRetries times.
TypeOK == ServerTypeOK /\ ForkTypeOK /\ ThreadsOK

\* A deployment in which servers announce the address their datagrams come from.
OneAddressPerServer == \A s \in Server : Announced[s] = Host[s]

\* A figure that "/objects" lists can be got: the address that lists it is the
\* announced address of a known server, which is where the loop of "/get" looks.
ListedFiguresAreReachable ==
    \A ip \in Addr : serverObjects[ip] # Absent =>
        \E a \in Addr : knownServers[a] = ip

\* A list that one answer of the server reached at ip can have left.
AnsweredBy(ip, list) ==
    /\ Reach[ip] # NoServer
    /\ \E figures \in Catalogues[Reach[ip]] : list \in CutLists(figures)

\* What is listed under an address is one answer of the server reached there, from
\* one of its disks, and at most its last name is not a figure of that disk: the
\* threads never store the answer of one server under the address of another, nor
\* put together a list of two answers.
CatalogueProvenance ==
    \A ip \in Addr : serverObjects[ip] # Absent => AnsweredBy(ip, serverObjects[ip])

\* While discovery asks a new server for its figures, no other thread changes
\* the registry under it.
RegistrationIsExclusive ==
    [][discovery.pc = "asking" /\ discovery'.pc = "asking" => UNCHANGED registry]_vars

\* The book-keeper answers "not found" by itself only if no server has listed the
\* figure from the request to the answer, however the registry changed meanwhile.
NotFoundIsHonest ==
    [][http.pc = "scan" /\ http'.pc = "accept" => witness = {}]_vars

\* The three threads together keep a registry that changes as FigureRegistry says.
Registry == INSTANCE FigureRegistry WITH
    Figure <- Name,
    registered <- {a \in Addr : knownServers[a] # NoAddr},
    catalogue <- serverObjects

RefinesRegistry == Registry!RSpec

\* A figure server that is down for good leaves the registry of a book-keeper
\* that stays up (README: servers that do not answer are eliminated).
DeadServersLeave ==
    \A s \in Server :
        <>[](server[s] = "down" /\ ForkUp)
            => <>[](knownServers[Host[s]] = NoAddr /\ serverObjects[Announced[s]] = Absent)

\* What is listed for a registered server that stays up is in the end what it
\* holds: truncated and outdated answers are repaired.
CatalogueConverges ==
    \A s \in Server :
        <>[](server[s] = "listening" /\ ForkUp)
            => <>[](knownServers[Host[s]] = NoAddr \/ serverObjects[Announced[s]] = holds[s])

\* Every GET that was received is answered, or ends with the process.
GetsAreAnswered == http.pc = "scan" ~> http.pc = "accept"

\* A book-keeper that starts while a figure server is up learns of it, by the
\* broadcast of its discovery thread, unless that thread ends first.
ForkLearnsOfRunningServers ==
    \A s \in Server :
        (discovery.pc = "bind" /\ server[s] = "listening" /\ announcer[s] = "recvfrom")
            ~> (knownServers[Host[s]] # NoAddr \/ server[s] # "listening"
                  \/ discovery.pc = "ended" \/ ~ForkUp)

-----------------------------------------------------------------------------
(* Inductive invariants, the strengthenings the proofs rest on.            *)

\* Of CatalogueProvenance: nothing else is on the disk of a running server, in the
\* registry, or in the answer the monitor carries from its probe to its store.
DisksInv == \A s \in Server : server[s] # "down" => holds[s] \in Catalogues[s]

ProvenanceInv ==
    /\ DisksInv
    /\ \A ip \in Addr : serverObjects[ip] # Absent => AnsweredBy(ip, serverObjects[ip])
    /\ monitor.pc = "store" => AnsweredBy(monitor.ip, monitor.answer)

\* With one address per server, an entry of knownServers or of a copy of it maps
\* an address to itself, and the thread at work on an address has a real one.
SelfMapped(map) == \A a \in Addr : map[a] \in {NoAddr, a}

OneAddressInv ==
    SelfMapped(knownServers) /\ SelfMapped(monitor.todo) /\ SelfMapped(http.todo)

\* Of RefinesRegistry: whatever is listed, being asked by discovery, or still to
\* be done by the monitor is known.  Needs one address per server and no OFF.
RegisteredInv ==
    /\ net \subseteq {"on"} \X Server
    /\ \A a \in Addr : serverObjects[a] # Absent => knownServers[a] = a
    /\ \A a \in Addr : monitor.todo[a] # NoAddr => knownServers[a] = a
    /\ discovery.pc = "asking" => knownServers[discovery.ip] = discovery.ip
    /\ monitor.pc \in {"probe", "store", "evict"} =>
         /\ knownServers[monitor.ip] = monitor.ip
         /\ monitor.todo[monitor.ip] = NoAddr

\* Of NotFoundIsHonest: the loop has not passed a server that lists the figure.
WitnessInv ==
    http.pc = "scan" => \A a \in witness :
        http.todo[a] = a /\ Lists(a, http.figure)
=============================================================================
