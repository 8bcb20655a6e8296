-------------------------- MODULE BookKeeperProofs --------------------------
(***************************************************************************)
(* Theorems about BookKeeper, for every set of servers, addresses and      *)
(* figures, every deployment (Host, Announced, Reach) and every bound.     *)
(***************************************************************************)
EXTENDS BookKeeper, TLAPS

USE DEF ForkUp, AddrMap, registry

-----------------------------------------------------------------------------
(* Type correctness                                                        *)

LEMMA EmptyMapType == EmptyMap \in AddrMap
  BY DEF EmptyMap

LEMMA InitTyped == Init => TypeOK
  <1> SUFFICES ASSUME Init PROVE TypeOK
    OBVIOUS
  <1>1. ServerTypeOK
    BY BoundAssumption DEF Init, ServerTypeOK
  <1>2. ForkTypeOK
    BY EmptyMapType, BoundAssumption
       DEF Init, ForkTypeOK, IdleDiscovery, IdleMonitor, IdleHttp
  <1>3. ThreadsOK
    BY BoundAssumption DEF Init, ThreadsOK, IdleDiscovery, IdleMonitor, IdleHttp
  <1>4. QED BY <1>1, <1>2, <1>3 DEF TypeOK

\* The end of a server process keeps the types of the server variables.
LEMMA DieTyped ==
  ASSUME ServerTypeOK, NEW s, Die(s)
  PROVE  ServerTypeOK'
  BY DEF ServerTypeOK, Die

\* So does a TCP exchange, whatever its outcome.
LEMMA ExchangeTyped ==
  ASSUME ServerTypeOK, NEW a, NEW whole, NEW cut, NEW exception, NEW answer,
         requestFromServer(a, whole, cut, exception, answer)
  PROVE  ServerTypeOK'
  <1>1. CASE UNCHANGED serverVars
    BY <1>1 DEF ServerTypeOK, serverVars
  <1>2. CASE Die(Reach[a])
    BY <1>2, DieTyped
  <1>3. QED BY <1>1, <1>2 DEF requestFromServer

LEMMA ServerTyped == TypeOK /\ ServerStep => TypeOK'
  <1> SUFFICES ASSUME TypeOK, ServerStep PROVE TypeOK'
    OBVIOUS
  <1> USE DEF TypeOK, ThreadsOK
  <1>1. ASSUME NEW s \in Server, StartServer(s) PROVE TypeOK'
    <2>1. \A r \in Server : starts'[r] \in Nat /\ starts'[r] <= MaxStarts[r]
      <3> SUFFICES ASSUME NEW r \in Server
                   PROVE  starts'[r] \in Nat /\ starts'[r] <= MaxStarts[r]
        OBVIOUS
      <3>1. starts[s] \in Nat /\ MaxStarts[s] \in Nat /\ starts[s] < MaxStarts[s]
        BY <1>1, BoundAssumption DEF ServerTypeOK, StartServer
      <3>2. starts[r] \in Nat /\ starts[r] <= MaxStarts[r]
        BY DEF ServerTypeOK
      <3>3. starts' = [starts EXCEPT ![s] = starts[s] + 1] /\ starts \in [Server -> Nat]
        BY <1>1 DEF StartServer, ServerTypeOK
      <3>4. CASE r = s
        BY <3>1, <3>3, <3>4
      <3>5. CASE r # s
        BY <3>2, <3>3, <3>5
      <3>6. QED BY <3>4, <3>5
    <2>2. starts' \in [Server -> Nat]
      BY <1>1, <2>1 DEF StartServer, ServerTypeOK
    <2>3. holds' \in [Server -> SUBSET Figure]
      <3>1. PICK figures \in Catalogues[s] : holds' = [holds EXCEPT ![s] = figures]
        BY <1>1 DEF StartServer
      <3>2. figures \in SUBSET Figure
        BY <3>1, FigureAssumption
      <3>3. QED BY <3>1, <3>2 DEF ServerTypeOK
    <2>4. ServerTypeOK'
      BY <1>1, <2>1, <2>2, <2>3 DEF ServerTypeOK, StartServer
    <2>5. ForkTypeOK' /\ ThreadsOK'
      BY <1>1 DEF StartServer, ForkTypeOK, forkVars
    <2>6. QED BY <2>4, <2>5
  <1>2. ASSUME NEW s \in Server, Listen(s) PROVE TypeOK'
    BY <1>2 DEF ServerTypeOK, ForkTypeOK, Listen, forkVars
  <1>3. ASSUME NEW s \in Server, StopServer(s) PROVE TypeOK'
    <2>1. ServerTypeOK'
      BY <1>3, DieTyped DEF StopServer
    <2>2. ForkTypeOK' /\ ThreadsOK'
      BY <1>3 DEF ForkTypeOK, StopServer, forkVars
    <2>3. QED BY <2>1, <2>2
  <1>4. ASSUME NEW s \in Server, InitialAnnouncement(s) PROVE TypeOK'
    BY <1>4 DEF ServerTypeOK, ForkTypeOK, InitialAnnouncement, Announce, forkVars
  <1>5. ASSUME NEW s \in Server, AnswerTenedor(s) PROVE TypeOK'
    BY <1>5 DEF ServerTypeOK, ForkTypeOK, AnswerTenedor, Announce, forkVars
  <1>6. ASSUME NEW s \in Server, PeriodicAnnouncement(s) PROVE TypeOK'
    BY <1>6 DEF ServerTypeOK, ForkTypeOK, PeriodicAnnouncement, Announce, forkVars
  <1>7. CASE LoseDatagram
    <2>1. CASE \E m \in net : net' = net \ {m} /\ UNCHANGED tenedor
      BY <1>7, <2>1 DEF ServerTypeOK, ForkTypeOK, LoseDatagram, forkVars
    <2>2. ASSUME NEW s \in Server,
                 tenedor' = [tenedor EXCEPT ![s] = FALSE], UNCHANGED net
          PROVE  TypeOK'
      BY <1>7, <2>2 DEF ServerTypeOK, ForkTypeOK, LoseDatagram, forkVars
    <2>3. QED BY <1>7, <2>1, <2>2 DEF LoseDatagram
  <1>8. QED BY <1>1, <1>2, <1>3, <1>4, <1>5, <1>6, <1>7 DEF ServerStep

LEMMA DiscoveryTyped == TypeOK /\ DiscoveryStep => TypeOK'
  <1> SUFFICES ASSUME TypeOK, DiscoveryStep PROVE TypeOK'
    OBVIOUS
  <1> USE DEF TypeOK, ThreadsOK, KeepWitness, IdleDiscovery
  <1>1. CASE BroadcastTenedor
    BY <1>1 DEF ServerTypeOK, ForkTypeOK, BroadcastTenedor
  <1>2. ASSUME NEW s \in Server, ReceiveOn(s) PROVE TypeOK'
    <2>1. ServerTypeOK'
      BY <1>2 DEF ServerTypeOK, ReceiveOn, serverVars
    <2>2. ForkTypeOK' /\ ThreadsOK'
      BY <1>2, AddressAssumption DEF ForkTypeOK, ReceiveOn
    <2>3. QED BY <2>1, <2>2
  <1>3. ASSUME NEW s \in Server, ReceiveOff(s) PROVE TypeOK'
    <2>1. ServerTypeOK'
      BY <1>3 DEF ServerTypeOK, ReceiveOff, serverVars
    <2>2. ForkTypeOK' /\ ThreadsOK'
      BY <1>3, AddressAssumption DEF ForkTypeOK, ReceiveOff, Erase
    <2>3. QED BY <2>1, <2>2
  <1>4. CASE ReceiveObjects
    <2>1. ServerTypeOK'
      BY <1>4, ExchangeTyped DEF ReceiveObjects, requestObjects
    <2>2. serverObjects' \in [Addr -> (SUBSET Name) \cup {Absent}]
      BY <1>4 DEF ForkTypeOK, ReceiveObjects
    <2>3. ForkTypeOK' /\ ThreadsOK'
      BY <1>4, <2>2 DEF ForkTypeOK, ReceiveObjects
    <2>4. QED BY <2>1, <2>3
  <1>5. QED BY <1>1, <1>2, <1>3, <1>4 DEF DiscoveryStep
MonitorType == [pc : {"sleep", "next", "probe", "store", "evict"},
                todo : AddrMap, ip : Addr \cup {NoAddr}, tries : 0..MaxRetries,
                answer : (SUBSET Name) \cup {NoAnswer}]

LEMMA IdleMonitorTyped ==
  /\ IdleMonitor \in MonitorType
  /\ \A m \in MonitorType :
       [IdleMonitor EXCEPT !.pc = "next", !.todo = m.todo] \in MonitorType
  /\ 0 < MaxRetries
  <1>1. 0 \in 0..MaxRetries /\ 0 < MaxRetries
    BY BoundAssumption
  <1>2. IdleMonitor \in MonitorType
    BY <1>1, EmptyMapType DEF IdleMonitor, MonitorType
  <1>3. ASSUME NEW m \in MonitorType
        PROVE  [IdleMonitor EXCEPT !.pc = "next", !.todo = m.todo] \in MonitorType
    <2>1. m.todo \in AddrMap
      BY DEF MonitorType
    <2>2. QED BY <2>1, <1>2 DEF MonitorType
  <1>4. QED BY <1>1, <1>2, <1>3

LEMMA MonitorTyped == TypeOK /\ MonitorStep => TypeOK'
  <1> SUFFICES ASSUME TypeOK, MonitorStep PROVE TypeOK'
    OBVIOUS
  <1> USE DEF TypeOK, MonitorUnchanged
  <1>0. monitor \in MonitorType
    BY DEF ForkTypeOK, MonitorType
  <1>1. CASE MonitorCopy
    BY <1>1 DEF ServerTypeOK, ForkTypeOK, ThreadsOK, MonitorCopy, serverVars
  <1>2. CASE MonitorNext
    <2>1. ServerTypeOK'
      BY <1>2 DEF ServerTypeOK, MonitorNext, serverVars
    <2>2. monitor' \in MonitorType /\ ThreadsOK'
      <3>1. CASE monitor' = IdleMonitor
        <4>1. monitor'.pc = "sleep" /\ monitor'.tries = 0
          BY <3>1 DEF IdleMonitor
        <4>2. QED BY <1>2, <3>1, <4>1, IdleMonitorTyped DEF ThreadsOK, MonitorNext
      <3>2. ASSUME NEW a \in Addr, monitor.todo[a] # NoAddr,
                   monitor' = [monitor EXCEPT !.pc = "probe", !.ip = monitor.todo[a],
                                              !.todo[a] = NoAddr]
            PROVE  monitor' \in MonitorType /\ ThreadsOK'
        <4>1. monitor.todo[a] \in Addr \cup {NoAddr}
          BY <1>0 DEF MonitorType
        <4>2. [monitor.todo EXCEPT ![a] = NoAddr] \in AddrMap
          BY <1>0 DEF MonitorType
        <4>3. QED BY <1>0, <1>2, <3>2, <4>1, <4>2 DEF MonitorType, ThreadsOK, MonitorNext
      <3>3. QED BY <1>2, <3>1, <3>2 DEF MonitorNext
    <2>3. ForkTypeOK'
      BY <1>2, <2>2 DEF ForkTypeOK, MonitorType, MonitorNext
    <2>4. QED BY <2>1, <2>2, <2>3
  <1>3. CASE MonitorProbe
    <2>1. ServerTypeOK'
      BY <1>3, ExchangeTyped DEF MonitorProbe, requestObjects
    <2>2. monitor.pc = "probe" /\ monitor.tries \in Nat /\ monitor.tries < MaxRetries
      BY <1>0, <1>3 DEF MonitorType, ThreadsOK, MonitorProbe
    <2>3. PICK answer \in Answer :
            monitor' =
              IF answer \in SUBSET Name
              THEN [monitor EXCEPT !.pc = "store", !.answer = answer]
              ELSE [monitor EXCEPT !.tries = @ + 1,
                       !.pc = IF LastTry THEN "evict" ELSE "probe"]
      BY <1>3 DEF MonitorProbe
    <2>4. monitor' \in MonitorType /\ ThreadsOK'
      <3>1. CASE answer \in SUBSET Name
        BY <1>0, <1>3, <2>2, <2>3, <3>1 DEF MonitorType, ThreadsOK, MonitorProbe
      <3>2. CASE answer \notin SUBSET Name
        <4>1. monitor.tries + 1 \in 0..MaxRetries
          BY <2>2, BoundAssumption
        <4>2. ~LastTry => monitor.tries + 1 < MaxRetries
          BY <2>2, BoundAssumption DEF LastTry
        <4>3. monitor' = [monitor EXCEPT !.tries = @ + 1,
                                         !.pc = IF LastTry THEN "evict" ELSE "probe"]
          BY <2>3, <3>2
        <4>4. QED
          BY <1>0, <1>3, <2>2, <4>1, <4>2, <4>3 DEF MonitorType, ThreadsOK, MonitorProbe
      <3>3. QED BY <3>1, <3>2
    <2>5. ForkTypeOK'
      BY <1>3, <2>4 DEF ForkTypeOK, MonitorType, MonitorProbe
    <2>6. QED BY <2>1, <2>4, <2>5
  <1>4. ASSUME MonitorStore \/ MonitorEvict PROVE TypeOK'
    <2>1. monitor' = [IdleMonitor EXCEPT !.pc = "next", !.todo = monitor.todo]
      BY <1>4 DEF MonitorStore, MonitorEvict
    <2>2. monitor' \in MonitorType
      BY <1>0, <2>1, IdleMonitorTyped
    <2>3. ThreadsOK'
      BY <1>4, <2>1, IdleMonitorTyped
         DEF ThreadsOK, IdleMonitor, MonitorStore, MonitorEvict
    <2>4. ServerTypeOK'
      BY <1>4 DEF ServerTypeOK, MonitorStore, MonitorEvict, serverVars
    <2>5. knownServers' \in AddrMap
          /\ serverObjects' \in [Addr -> (SUBSET Name) \cup {Absent}]
      <3>1. CASE MonitorStore
        <4>1. monitor.answer \in SUBSET Name
          BY <3>1 DEF MonitorStore, ThreadsOK
        <4>2. QED BY <3>1, <4>1 DEF ForkTypeOK, MonitorStore
      <3>2. CASE MonitorEvict
        BY <3>2 DEF ForkTypeOK, MonitorEvict, Erase
      <3>3. QED BY <1>4, <3>1, <3>2
    <2>6. ForkTypeOK'
      BY <1>4, <2>2, <2>5
         DEF ForkTypeOK, MonitorType, MonitorStore, MonitorEvict, KeepWitness
    <2>7. QED BY <2>3, <2>4, <2>6
  <1>5. QED BY <1>1, <1>2, <1>3, <1>4 DEF MonitorStep

LEMMA HttpTyped == TypeOK /\ HttpStep => TypeOK'
  <1> SUFFICES ASSUME TypeOK, HttpStep PROVE TypeOK'
    OBVIOUS
  <1> USE DEF TypeOK, ThreadsOK, HttpUnchanged
  <1>1. CASE HttpList
    BY <1>1 DEF ServerTypeOK, ForkTypeOK, HttpList, serverVars
  <1>2. CASE HttpOther
    BY <1>2 DEF ServerTypeOK, ForkTypeOK, HttpOther, serverVars
  <1>3. CASE HttpGet
    BY <1>3 DEF ServerTypeOK, ForkTypeOK, HttpGet, serverVars
  <1>4. CASE HttpScan
    <2>1. PICK a \in Addr :
            /\ http.todo[a] # NoAddr
            /\ http' = IF HasObject(http.todo[a], http.figure)
                       THEN [http EXCEPT !.pc = "ask", !.ip = http.todo[a]]
                       ELSE [http EXCEPT !.todo = LeftAfter(a)]
      BY <1>4 DEF HttpScan
    <2>2. http.todo[a] \in Addr \cup {NoAddr} /\ LeftAfter(a) \in AddrMap
      BY DEF ForkTypeOK, LeftAfter
    <2>3. http' \in [pc : {"accept", "scan", "ask"}, figure : Name \cup {"none"},
                     todo : AddrMap, ip : Addr \cup {NoAddr}]
      BY <2>1, <2>2 DEF ForkTypeOK
    <2>4. QED
      BY <1>4, <2>3 DEF ServerTypeOK, ForkTypeOK, HttpScan, serverVars
  <1>5. CASE HttpNotFound
    BY <1>5, EmptyMapType DEF ServerTypeOK, ForkTypeOK, HttpNotFound, IdleHttp, serverVars
  <1>6. CASE HttpAsk
    <2>1. ServerTypeOK'
      BY <1>6, ExchangeTyped DEF HttpAsk
    <2>2. CASE Terminate
      BY <1>6, <2>1, <2>2, EmptyMapType, BoundAssumption
         DEF HttpAsk, Terminate, ForkTypeOK, IdleHttp, IdleMonitor, IdleDiscovery
    <2>3. ASSUME NEW answer \in {"ok", "notFound", "invalid"},
                 reply' = answer, http' = IdleHttp, witness' = {}, HttpUnchanged
          PROVE  TypeOK'
      BY <1>6, <2>1, <2>3, EmptyMapType DEF HttpAsk, ForkTypeOK, IdleHttp
    <2>4. QED BY <1>6, <2>2, <2>3 DEF HttpAsk
  <1>7. QED BY <1>1, <1>2, <1>3, <1>4, <1>5, <1>6 DEF HttpStep

LEMMA StartForkTyped == TypeOK /\ StartFork => TypeOK'
  BY BoundAssumption
     DEF TypeOK, ServerTypeOK, ForkTypeOK, ThreadsOK, StartFork, serverVars, IdleDiscovery

\* Every variable always has its type, and the monitor never makes more than
\* MAX_RETRIES attempts at a server.
THEOREM TypeCorrect == Spec => []TypeOK
  <1>1. TypeOK /\ [Next]_vars => TypeOK'
    <2>1. TypeOK /\ UNCHANGED vars => TypeOK'
      BY DEF TypeOK, ServerTypeOK, ForkTypeOK, ThreadsOK, vars, serverVars, forkVars
    <2>2. QED
      BY <2>1, ServerTyped, StartForkTyped, DiscoveryTyped, MonitorTyped, HttpTyped DEF Next
  <1>2. QED BY InitTyped, <1>1, PTL DEF Spec

-----------------------------------------------------------------------------
(* The mutex                                                               *)

\* No thread changes the registry while discovery, holding the mutex, asks a
\* server for its figures: there is no step of the monitor or of a GET between
\* the registration of a server and the storing of its figures.
THEOREM Exclusive == Spec => RegistrationIsExclusive
  <1>1. ASSUME Next, discovery.pc = "asking", discovery'.pc = "asking"
        PROVE  UNCHANGED registry
    <2>1. CASE ServerStep
      BY <2>1 DEF ServerStep, StartServer, Listen, StopServer, InitialAnnouncement,
                  AnswerTenedor, PeriodicAnnouncement, LoseDatagram, forkVars
    <2>2. CASE StartFork
      BY <2>2 DEF StartFork
    <2>3. CASE DiscoveryStep
      BY <1>1, <2>3 DEF DiscoveryStep, BroadcastTenedor, ReceiveOn, ReceiveOff,
                        ReceiveObjects, IdleDiscovery
    <2>4. CASE MonitorStep
      BY <1>1, <2>4 DEF MonitorStep, MonitorCopy, MonitorNext, MonitorProbe, MonitorStore,
                        MonitorEvict, MutexFree
    <2>5. CASE HttpStep
      <3>1. ~Terminate
        BY <1>1 DEF Terminate, IdleDiscovery
      <3>2. QED
        BY <2>5, <3>1 DEF HttpStep, HttpList, HttpOther, HttpGet, HttpScan, HttpNotFound,
                          HttpAsk, HttpUnchanged
    <2>6. QED BY <1>1, <2>1, <2>2, <2>3, <2>4, <2>5 DEF Next
  <1>2. [Next]_vars =>
          [discovery.pc = "asking" /\ discovery'.pc = "asking" => UNCHANGED registry]_vars
    BY <1>1
  <1>3. QED BY <1>2, PTL DEF Spec, RegistrationIsExclusive

-----------------------------------------------------------------------------
(* Provenance of the catalogue                                             *)

\* An exchange leaves every disk alone, whatever becomes of the server.
LEMMA ExchangeKeepsDisks ==
  ASSUME TypeOK, DisksInv, NEW a, NEW whole, NEW cut, NEW exception, NEW answer,
         requestFromServer(a, whole, cut, exception, answer)
  PROVE  DisksInv'
  BY DEF requestFromServer, Die, serverVars, DisksInv, TypeOK, ServerTypeOK

\* A whole list is among those a cut can leave of it.
LEMMA WholeIsCut ==
  ASSUME NEW figures
  PROVE  figures \in CutLists(figures)
  BY DEF CutLists

\* A list that an exchange brings was left by an answer of the server asked.
LEMMA AnswerOffered ==
  ASSUME TypeOK, ProvenanceInv, NEW a \in Addr, NEW answer \in SUBSET Name,
         requestObjects(a, answer)
  PROVE  AnsweredBy(a, answer)
  <1>1. Listening(a) /\ answer \in CutLists(holds[Reach[a]])
    <2> DEFINE figures == IF Listening(a) THEN holds[Reach[a]] ELSE {}
    <2>1. requestFromServer(a, figures, CutLists(figures) \cup {Garbled}, NoAnswer, answer)
      BY DEF requestObjects
    <2>2. answer # NoAnswer /\ answer # Garbled
      BY FigureAssumption
    <2>3. Listening(a) /\ (answer = figures \/ answer \in CutLists(figures) \cup {Garbled})
      <3> HIDE DEF figures
      <3>1. QED BY <2>1, <2>2 DEF requestFromServer
    <2>4. figures = holds[Reach[a]]
      BY <2>3
    <2>5. answer \in CutLists(figures)
      <3> HIDE DEF figures
      <3>1. QED BY <2>2, <2>3, WholeIsCut
    <2>6. QED BY <2>3, <2>4, <2>5
  <1>2. Reach[a] \in Server /\ server[Reach[a]] = "listening"
    BY <1>1, AddressAssumption DEF Listening
  <1>3. holds[Reach[a]] \in Catalogues[Reach[a]]
    BY <1>2 DEF ProvenanceInv, DisksInv
  <1>4. QED BY <1>1, <1>3 DEF AnsweredBy, Listening

LEMMA ProvenanceStep ==
  TypeOK /\ ProvenanceInv /\ [Next]_vars => ProvenanceInv'
  <1> SUFFICES ASSUME TypeOK, ProvenanceInv, [Next]_vars PROVE ProvenanceInv'
    OBVIOUS
  <1> USE DEF ProvenanceInv
  <1>1. CASE UNCHANGED vars
    BY <1>1 DEF vars, serverVars, forkVars, DisksInv, AnsweredBy
  <1>2. CASE ServerStep
    <2>1. UNCHANGED <<serverObjects, monitor>>
      BY <1>2
         DEF ServerStep, StartServer, Listen, StopServer, InitialAnnouncement, AnswerTenedor,
             PeriodicAnnouncement, LoseDatagram, forkVars
    <2>2. ASSUME NEW s \in Server, StartServer(s) PROVE DisksInv'
      <3>1. PICK figures \in Catalogues[s] : holds' = [holds EXCEPT ![s] = figures]
        BY <2>2 DEF StartServer
      <3>2. server' = [server EXCEPT ![s] = "binding"]
        BY <2>2 DEF StartServer
      <3>3. QED BY <3>1, <3>2 DEF TypeOK, ServerTypeOK, DisksInv
    <2>3. ASSUME NEW s \in Server, Listen(s) PROVE DisksInv'
      BY <2>3 DEF Listen, TypeOK, ServerTypeOK, DisksInv
    <2>4. ASSUME NEW s \in Server, StopServer(s) PROVE DisksInv'
      BY <2>4 DEF StopServer, Die, TypeOK, ServerTypeOK, DisksInv
    <2>5. ASSUME UNCHANGED <<server, holds>> PROVE DisksInv'
      BY <2>5 DEF DisksInv
    <2>6. DisksInv'
      BY <1>2, <2>2, <2>3, <2>4, <2>5
         DEF ServerStep, InitialAnnouncement, AnswerTenedor, PeriodicAnnouncement, LoseDatagram
    <2>7. QED BY <2>1, <2>6
  <1>3. CASE StartFork
    BY <1>3 DEF StartFork, serverVars, DisksInv
  <1>4. CASE DiscoveryStep
    <2>1. CASE BroadcastTenedor
      BY <2>1 DEF BroadcastTenedor, DisksInv
    <2>2. ASSUME NEW s \in Server, ReceiveOn(s) PROVE ProvenanceInv'
      BY <2>2 DEF ReceiveOn, serverVars, DisksInv
    <2>3. ASSUME NEW s \in Server, ReceiveOff(s) PROVE ProvenanceInv'
      <3>1. /\ UNCHANGED <<server, holds, monitor>>
            /\ serverObjects' = [serverObjects EXCEPT ![Host[s]] = Absent]
        BY <2>3 DEF ReceiveOff, Erase, serverVars
      <3>2. QED BY <3>1 DEF TypeOK, ForkTypeOK, DisksInv
    <2>4. CASE ReceiveObjects
      <3>1. PICK answer \in Answer :
              /\ requestObjects(discovery.ip, answer)
              /\ serverObjects' = IF answer \in SUBSET Name
                                  THEN [serverObjects EXCEPT ![discovery.ip] = answer]
                                  ELSE serverObjects
        BY <2>4 DEF ReceiveObjects
      <3>2. DisksInv' /\ monitor' = monitor /\ discovery.ip \in Addr
        BY <2>4, <3>1, ExchangeKeepsDisks
           DEF ReceiveObjects, requestObjects, TypeOK, ThreadsOK
      <3>3. answer \in SUBSET Name => AnsweredBy(discovery.ip, answer)
        BY <3>1, <3>2, AnswerOffered
      <3>4. \A ip \in Addr :
              serverObjects'[ip] # Absent => AnsweredBy(ip, serverObjects'[ip])
        BY <3>1, <3>2, <3>3 DEF TypeOK, ForkTypeOK
      <3>5. QED BY <3>2, <3>4
    <2>5. QED BY <1>4, <2>1, <2>2, <2>3, <2>4 DEF DiscoveryStep
  <1>5. CASE MonitorStep
    <2>1. CASE MonitorCopy \/ MonitorNext
      <3>1. UNCHANGED <<server, holds, serverObjects>>
        BY <2>1 DEF MonitorCopy, MonitorNext, serverVars
      <3>2. monitor'.pc # "store"
        <4>1. monitor \in MonitorType
          BY DEF TypeOK, ForkTypeOK, MonitorType
        <4>2. CASE MonitorCopy
          BY <4>1, <4>2 DEF MonitorCopy, MonitorType
        <4>3. CASE monitor' = IdleMonitor
          BY <4>3 DEF IdleMonitor
        <4>4. ASSUME NEW a \in Addr,
                     monitor' = [monitor EXCEPT !.pc = "probe", !.ip = monitor.todo[a],
                                                !.todo[a] = NoAddr]
              PROVE  monitor'.pc # "store"
          BY <4>1, <4>4 DEF MonitorType
        <4>5. QED BY <2>1, <4>2, <4>3, <4>4 DEF MonitorNext
      <3>3. QED BY <3>1, <3>2 DEF DisksInv
    <2>2. CASE MonitorProbe
      <3>1. PICK answer \in Answer :
              /\ requestObjects(monitor.ip, answer)
              /\ monitor' =
                   IF answer \in SUBSET Name
                   THEN [monitor EXCEPT !.pc = "store", !.answer = answer]
                   ELSE [monitor EXCEPT !.tries = @ + 1,
                            !.pc = IF LastTry THEN "evict" ELSE "probe"]
        BY <2>2 DEF MonitorProbe
      <3>2. DisksInv' /\ serverObjects' = serverObjects /\ monitor.ip \in Addr
        BY <2>2, <3>1, ExchangeKeepsDisks
           DEF MonitorProbe, requestObjects, TypeOK, ThreadsOK
      <3>3. CASE answer \in SUBSET Name
        <4>1. AnsweredBy(monitor.ip, answer)
          BY <3>1, <3>2, <3>3, AnswerOffered
        <4>2. monitor'.answer = answer /\ monitor'.ip = monitor.ip
          BY <3>1, <3>3 DEF TypeOK, ForkTypeOK
        <4>3. QED BY <3>2, <4>1, <4>2
      <3>4. CASE answer \notin SUBSET Name
        <4>1. monitor'.pc # "store"
          BY <3>1, <3>4 DEF TypeOK, ForkTypeOK
        <4>2. QED BY <3>2, <4>1
      <3>5. QED BY <3>3, <3>4
    <2>3. CASE MonitorStore
      <3>1. monitor'.pc = "next" /\ UNCHANGED <<server, holds>> /\ monitor.ip \in Addr
        BY <2>3 DEF MonitorStore, IdleMonitor, serverVars, TypeOK, ThreadsOK
      <3>2. serverObjects' = [serverObjects EXCEPT ![monitor.ip] = monitor.answer]
            /\ AnsweredBy(monitor.ip, monitor.answer)
        BY <2>3 DEF MonitorStore
      <3>3. QED BY <3>1, <3>2 DEF TypeOK, ForkTypeOK, DisksInv
    <2>4. CASE MonitorEvict
      <3>1. monitor'.pc = "next" /\ UNCHANGED <<server, holds>>
        BY <2>4 DEF MonitorEvict, IdleMonitor, serverVars
      <3>2. serverObjects' = [serverObjects EXCEPT ![monitor.ip] = Absent]
        BY <2>4 DEF MonitorEvict, Erase
      <3>3. QED BY <3>1, <3>2 DEF TypeOK, ForkTypeOK, DisksInv
    <2>5. QED BY <1>5, <2>1, <2>2, <2>3, <2>4 DEF MonitorStep
  <1>6. CASE HttpStep
    <2>1. DisksInv'
      <3>1. CASE UNCHANGED <<server, holds>>
        BY <3>1 DEF DisksInv
      <3>2. CASE HttpAsk
        BY <3>2, ExchangeKeepsDisks DEF HttpAsk
      <3>3. QED
        BY <1>6, <3>1, <3>2
           DEF HttpStep, HttpList, HttpOther, HttpGet, HttpScan, HttpNotFound, serverVars
    <2>2. CASE UNCHANGED <<registry, monitor>>
      BY <2>1, <2>2
    <2>3. CASE Terminate
      BY <2>1, <2>3 DEF Terminate, IdleMonitor
    <2>4. QED
      BY <1>6, <2>2, <2>3
         DEF HttpStep, HttpList, HttpOther, HttpGet, HttpScan, HttpNotFound, HttpAsk,
             HttpUnchanged
  <1>7. QED BY <1>1, <1>2, <1>3, <1>4, <1>5, <1>6 DEF Next

\* What is listed under an address was always left by one answer of the server
\* reached there, from one of its disks, with at most the last name broken: whatever
\* answers are cut short and wherever, whatever servers restart with another disk.
THEOREM Provenance == Spec => []CatalogueProvenance
  <1>1. Init => ProvenanceInv
    BY DEF Init, ProvenanceInv, DisksInv, IdleMonitor
  <1>2. ProvenanceInv => CatalogueProvenance
    BY DEF ProvenanceInv, CatalogueProvenance
  <1>3. QED BY <1>1, <1>2, ProvenanceStep, TypeCorrect, PTL DEF Spec

-----------------------------------------------------------------------------
(* One address per server                                                  *)

LEMMA OneAddressStep ==
  ASSUME OneAddressPerServer
  PROVE  TypeOK /\ OneAddressInv /\ [Next]_vars => OneAddressInv'
  <1> SUFFICES ASSUME TypeOK, OneAddressInv, [Next]_vars PROVE OneAddressInv'
    OBVIOUS
  <1> USE DEF OneAddressInv, SelfMapped
  <1>1. SelfMapped(EmptyMap)
    BY DEF EmptyMap
  <1>2. CASE UNCHANGED <<knownServers, monitor, http>>
    BY <1>2
  <1>3. CASE Terminate
    BY <1>1, <1>3 DEF Terminate, IdleMonitor, IdleHttp
  <1>4. CASE DiscoveryStep
    <2>1. ASSUME NEW s \in Server, ReceiveOn(s) PROVE OneAddressInv'
      <3>1. Announced[s] = Host[s] /\ Host[s] \in Addr
        BY AddressAssumption DEF OneAddressPerServer
      <3>2. QED BY <2>1, <3>1 DEF ReceiveOn, TypeOK, ForkTypeOK
    <2>2. ASSUME NEW s \in Server, ReceiveOff(s) PROVE OneAddressInv'
      BY <2>2 DEF ReceiveOff, Erase, TypeOK, ForkTypeOK
    <2>3. QED
      BY <1>2, <1>4, <2>1, <2>2 DEF DiscoveryStep, BroadcastTenedor, ReceiveObjects
  <1>5. CASE MonitorStep
    <2>1. UNCHANGED http
      BY <1>5 DEF MonitorStep, MonitorCopy, MonitorNext, MonitorProbe, MonitorStore,
                  MonitorEvict, MonitorUnchanged
    <2>2. SelfMapped(knownServers)'
      BY <1>5 DEF MonitorStep, MonitorCopy, MonitorNext, MonitorProbe, MonitorStore,
                  MonitorEvict, Erase, TypeOK, ForkTypeOK
    <2>3. SelfMapped(monitor'.todo)
      <3>1. monitor \in MonitorType
        BY DEF TypeOK, ForkTypeOK, MonitorType
      <3>2. CASE MonitorCopy
        BY <3>1, <3>2 DEF MonitorCopy, MonitorType
      <3>3. CASE monitor' = IdleMonitor
        BY <1>1, <3>3 DEF IdleMonitor
      <3>4. ASSUME NEW a \in Addr,
                   monitor' = [monitor EXCEPT !.pc = "probe", !.ip = monitor.todo[a],
                                              !.todo[a] = NoAddr]
            PROVE  SelfMapped(monitor'.todo)
        <4>1. monitor'.todo = [monitor.todo EXCEPT ![a] = NoAddr]
          BY <3>1, <3>4 DEF MonitorType
        <4>2. monitor.todo \in AddrMap
          BY <3>1 DEF MonitorType
        <4>3. QED BY <4>1, <4>2
      <3>5. CASE MonitorProbe \/ MonitorStore \/ MonitorEvict
        <4>1. monitor'.todo = monitor.todo
          BY <3>1, <3>5 DEF MonitorProbe, MonitorStore, MonitorEvict, IdleMonitor, MonitorType
        <4>2. QED BY <4>1
      <3>6. QED BY <1>5, <3>2, <3>3, <3>4, <3>5 DEF MonitorStep, MonitorNext
    <2>4. QED BY <2>1, <2>2, <2>3
  <1>6. CASE HttpGet
    BY <1>6 DEF HttpGet, HttpUnchanged
  <1>7. CASE HttpScan
    <2>1. PICK a \in Addr :
            http' = IF HasObject(http.todo[a], http.figure)
                    THEN [http EXCEPT !.pc = "ask", !.ip = http.todo[a]]
                    ELSE [http EXCEPT !.todo = LeftAfter(a)]
      BY <1>7 DEF HttpScan
    <2>2. http'.todo \in {http.todo, LeftAfter(a)}
      BY <2>1 DEF TypeOK, ForkTypeOK
    <2>3. SelfMapped(LeftAfter(a))
      BY DEF LeftAfter, TypeOK, ForkTypeOK
    <2>4. QED BY <1>7, <2>2, <2>3 DEF HttpScan, HttpUnchanged
  <1>8. ASSUME http' = IdleHttp, HttpUnchanged PROVE OneAddressInv'
    BY <1>1, <1>8 DEF IdleHttp, HttpUnchanged
  <1>9. CASE HttpStep
    BY <1>2, <1>3, <1>6, <1>7, <1>8, <1>9
       DEF HttpStep, HttpList, HttpOther, HttpNotFound, HttpAsk, HttpUnchanged
  <1>10. CASE ServerStep \/ StartFork \/ UNCHANGED vars
    BY <1>2, <1>10
       DEF ServerStep, StartServer, Listen, StopServer, InitialAnnouncement, AnswerTenedor,
           PeriodicAnnouncement, LoseDatagram, StartFork, forkVars, vars
  <1>11. QED BY <1>4, <1>5, <1>9, <1>10 DEF Next

LEMMA OneAddress ==
  ASSUME OneAddressPerServer
  PROVE  Spec => []OneAddressInv
  <1>1. Init => OneAddressInv
    BY DEF Init, OneAddressInv, SelfMapped, EmptyMap, IdleMonitor, IdleHttp
  <1>2. QED BY <1>1, OneAddressStep, TypeCorrect, PTL DEF Spec

-----------------------------------------------------------------------------
(* "Not found"                                                             *)

LEMMA WitnessStep ==
  TypeOK /\ OneAddressInv /\ WitnessInv /\ [Next]_vars => WitnessInv'
  <1> SUFFICES ASSUME TypeOK, OneAddressInv, WitnessInv, [Next]_vars PROVE WitnessInv'
    OBVIOUS
  <1> USE DEF WitnessInv
  <1>1. CASE UNCHANGED <<registry, http, witness>>
    BY <1>1 DEF Lists, HasObject
  <1>2. CASE UNCHANGED http /\ KeepWitness
    BY <1>2 DEF KeepWitness
  <1>3. CASE http' = IdleHttp
    BY <1>3 DEF IdleHttp
  <1>4. CASE HttpGet
    <2>1. PICK f \in Name :
            /\ http' = [pc |-> "scan", figure |-> f, todo |-> knownServers, ip |-> NoAddr]
            /\ witness' = {a \in Addr : Lists(a, f)}
      BY <1>4 DEF HttpGet
    <2>2. ASSUME NEW a \in witness' PROVE http'.todo[a] = a /\ Lists(a, f)'
      BY <1>4, <2>1, <2>2
         DEF Lists, HasObject, HttpGet, HttpUnchanged, OneAddressInv, SelfMapped
    <2>3. QED BY <2>1, <2>2
  <1>5. CASE HttpScan
    <2>1. UNCHANGED <<registry, witness>> /\ http.pc = "scan"
      BY <1>5 DEF HttpScan, HttpUnchanged
    <2>2. PICK a \in Addr :
            http' = IF HasObject(http.todo[a], http.figure)
                    THEN [http EXCEPT !.pc = "ask", !.ip = http.todo[a]]
                    ELSE [http EXCEPT !.todo = LeftAfter(a)]
      BY <1>5 DEF HttpScan
    <2>3. CASE HasObject(http.todo[a], http.figure)
      BY <2>2, <2>3 DEF TypeOK, ForkTypeOK
    <2>4. CASE ~HasObject(http.todo[a], http.figure)
      <3>1. /\ http'.todo = [http.todo EXCEPT ![a] = NoAddr]
            /\ http'.figure = http.figure
        BY <2>2, <2>4 DEF LeftAfter, TypeOK, ForkTypeOK
      <3>2. a \notin witness
        \* what lists the figure maps to itself in the copy and in knownServers
        <4>1. ASSUME a \in witness PROVE FALSE
          <5>1. http.todo[a] = a /\ Lists(a, http.figure)
            BY <2>1, <4>1
          <5>2. knownServers[a] = a
            BY <5>1 DEF Lists, OneAddressInv, SelfMapped
          <5>3. QED BY <2>4, <5>1, <5>2 DEF Lists
        <4>2. QED BY <4>1
      <3>3. http.todo \in AddrMap /\ witness \subseteq Addr
        BY DEF TypeOK, ForkTypeOK
      <3>4. ASSUME NEW b \in witness' PROVE http'.todo[b] = b /\ Lists(b, http.figure)'
        BY <2>1, <3>1, <3>2, <3>3, <3>4 DEF Lists, HasObject
      <3>5. QED BY <3>4
    <2>5. QED BY <2>3, <2>4
  <1>6. CASE HttpStep
    BY <1>1, <1>3, <1>4, <1>5, <1>6
       DEF HttpStep, HttpList, HttpOther, HttpNotFound, HttpAsk, HttpUnchanged, Terminate
  <1>7. CASE DiscoveryStep
    BY <1>1, <1>2, <1>7
       DEF DiscoveryStep, BroadcastTenedor, ReceiveOn, ReceiveOff, ReceiveObjects
  <1>8. CASE MonitorStep
    BY <1>1, <1>2, <1>8
       DEF MonitorStep, MonitorCopy, MonitorNext, MonitorProbe, MonitorStore, MonitorEvict,
           MonitorUnchanged
  <1>9. CASE ServerStep \/ StartFork \/ UNCHANGED vars
    BY <1>1, <1>9
       DEF ServerStep, StartServer, Listen, StopServer, InitialAnnouncement, AnswerTenedor,
           PeriodicAnnouncement, LoseDatagram, StartFork, forkVars, vars
  <1>10. QED BY <1>6, <1>7, <1>8, <1>9 DEF Next

\* If servers announce the address they send from, the book-keeper says "not found"
\* of its own only when no server listed the figure throughout the request, however
\* discovery, OFF messages and the monitor changed the registry meanwhile.
THEOREM HonestNotFound ==
  ASSUME OneAddressPerServer
  PROVE  Spec => NotFoundIsHonest
  <1>1. Init => WitnessInv
    BY DEF Init, WitnessInv
  <1>2. ASSUME TypeOK, WitnessInv, Next, http.pc = "scan", http'.pc = "accept"
        PROVE  witness = {} \/ HttpAsk
    <2>1. ASSUME HttpNotFound PROVE witness = {}
      <3>1. \A a \in witness : http.todo[a] = a /\ a \in Addr
        BY <1>2 DEF WitnessInv, TypeOK, ForkTypeOK
      <3>2. \A a \in Addr : http.todo[a] = NoAddr
        BY <2>1 DEF HttpNotFound, EmptyMap
      <3>3. QED BY <3>1, <3>2, AddressAssumption
    <2>2. CASE http' = http
      BY <1>2, <2>2
    <2>3. CASE HttpStep
      <3>1. ASSUME HttpGet PROVE FALSE
        <4>1. PICK f \in Name :
                http' = [pc |-> "scan", figure |-> f, todo |-> knownServers, ip |-> NoAddr]
          BY <3>1 DEF HttpGet
        <4>2. QED BY <1>2, <4>1
      <3>2. ASSUME HttpScan PROVE FALSE
        <4>1. PICK a \in Addr :
                http' = IF HasObject(http.todo[a], http.figure)
                        THEN [http EXCEPT !.pc = "ask", !.ip = http.todo[a]]
                        ELSE [http EXCEPT !.todo = LeftAfter(a)]
          BY <3>2 DEF HttpScan
        <4>2. http'.pc \in {"ask", "scan"}
          BY <1>2, <4>1 DEF TypeOK, ForkTypeOK
        <4>3. QED BY <1>2, <4>2
      <3>3. QED
        BY <2>1, <2>2, <2>3, <3>1, <3>2 DEF HttpStep, HttpList, HttpOther
    <2>4. QED
      BY <1>2, <2>2, <2>3
         DEF Next, ServerStep, StartServer, Listen, StopServer, InitialAnnouncement,
             AnswerTenedor, PeriodicAnnouncement, LoseDatagram, StartFork, forkVars,
             DiscoveryStep, BroadcastTenedor, ReceiveOn, ReceiveOff, ReceiveObjects,
             MonitorStep, MonitorCopy, MonitorNext, MonitorProbe, MonitorStore, MonitorEvict,
             MonitorUnchanged
  <1>3. ASSUME TypeOK, WitnessInv, Next, http.pc = "scan", http'.pc = "accept"
        PROVE  witness = {}
    <2>1. ~HttpAsk
      BY <1>3 DEF HttpAsk
    <2>2. QED BY <1>2, <1>3, <2>1
  <1>4. TypeOK /\ WitnessInv /\ [Next]_vars =>
          [http.pc = "scan" /\ http'.pc = "accept" => witness = {}]_vars
    BY <1>3
  <1>5. QED
    BY <1>1, <1>4, WitnessStep, OneAddress, TypeCorrect, PTL DEF Spec, NotFoundIsHonest

-----------------------------------------------------------------------------
(* The registry                                                            *)

LEMMA RegisteredStep ==
  ASSUME OneAddressPerServer, SaysOff = FALSE
  PROVE  TypeOK /\ OneAddressInv /\ RegisteredInv /\ [Next]_vars => RegisteredInv'
  <1> SUFFICES ASSUME TypeOK, OneAddressInv, RegisteredInv, [Next]_vars PROVE RegisteredInv'
    OBVIOUS
  <1> USE DEF RegisteredInv
  <1>1. CASE UNCHANGED <<net, registry, discovery, monitor>>
    BY <1>1
  <1>2. CASE ServerStep
    <2>1. UNCHANGED <<registry, discovery, monitor>>
      BY <1>2 DEF ServerStep, StartServer, Listen, StopServer, InitialAnnouncement,
                  AnswerTenedor, PeriodicAnnouncement, LoseDatagram, forkVars
    <2>2. net' \subseteq {"on"} \X Server
      BY <1>2 DEF ServerStep, StartServer, Listen, StopServer, InitialAnnouncement,
                  AnswerTenedor, PeriodicAnnouncement, LoseDatagram, Announce
    <2>3. QED BY <2>1, <2>2
  <1>3. CASE StartFork \/ BroadcastTenedor
    <2>1. UNCHANGED <<net, registry, monitor>> /\ discovery'.pc # "asking"
      BY <1>3 DEF StartFork, BroadcastTenedor, IdleDiscovery
    <2>2. QED BY <2>1
  <1>4. ASSUME NEW s \in Server, ReceiveOn(s) PROVE RegisteredInv'
    <2>1. Announced[s] = Host[s] /\ Host[s] \in Addr
      BY AddressAssumption DEF OneAddressPerServer
    <2>2. knownServers' = [knownServers EXCEPT ![Host[s]] = Host[s]]
      BY <1>4, <2>1 DEF ReceiveOn
    <2>3. \A a \in Addr : knownServers[a] = a => knownServers'[a] = a
      BY <2>2 DEF TypeOK, ForkTypeOK
    <2>4. knownServers'[Host[s]] = Host[s]
      BY <2>1, <2>2 DEF TypeOK, ForkTypeOK
    <2>5. /\ discovery'.ip = Host[s]
          /\ net' \subseteq net
          /\ UNCHANGED <<serverObjects, monitor>>
      BY <1>4, <2>1 DEF ReceiveOn
    <2>6. monitor.pc \in {"probe", "store", "evict"} => monitor.ip \in Addr
      BY DEF TypeOK, ThreadsOK
    <2>7. QED BY <2>3, <2>4, <2>5, <2>6
  <1>5. ASSUME NEW s \in Server, ReceiveOff(s) PROVE RegisteredInv'
    BY <1>5 DEF ReceiveOff
  <1>6. CASE ReceiveObjects
    <2>1. UNCHANGED <<net, knownServers, monitor>> /\ discovery'.pc # "asking"
      BY <1>6 DEF ReceiveObjects, IdleDiscovery
    <2>2. \A a \in Addr : a = discovery.ip \/ serverObjects'[a] = serverObjects[a]
      BY <1>6 DEF ReceiveObjects, TypeOK, ForkTypeOK
    <2>3. knownServers[discovery.ip] = discovery.ip
      BY <1>6 DEF ReceiveObjects
    <2>4. QED BY <2>1, <2>2, <2>3
  <1>7. CASE MonitorStep
    <2> DEFINE Busy == {"probe", "store", "evict"}
    <2>1. UNCHANGED <<net, discovery>>
      BY <1>7 DEF MonitorStep, MonitorCopy, MonitorNext, MonitorProbe, MonitorStore,
                  MonitorEvict, MonitorUnchanged
    <2>2. monitor \in MonitorType
      BY DEF TypeOK, ForkTypeOK, MonitorType
    <2>3. CASE MonitorCopy
      <3>1. monitor'.pc = "next" /\ monitor'.todo = knownServers /\ UNCHANGED registry
        BY <2>2, <2>3 DEF MonitorCopy, MonitorType
      <3>2. \A a \in Addr : knownServers[a] # NoAddr => knownServers[a] = a
        BY DEF OneAddressInv, SelfMapped
      <3>3. QED BY <2>1, <3>1, <3>2
    <2>4. CASE MonitorNext
      <3>1. UNCHANGED registry
        BY <2>4 DEF MonitorNext
      <3>2. CASE monitor' = IdleMonitor
        BY <2>1, <3>1, <3>2 DEF IdleMonitor, EmptyMap
      <3>3. ASSUME NEW a \in Addr, monitor.todo[a] # NoAddr,
                   monitor' = [monitor EXCEPT !.pc = "probe", !.ip = monitor.todo[a],
                                              !.todo[a] = NoAddr]
            PROVE  RegisteredInv'
        <4>1. monitor'.todo = [monitor.todo EXCEPT ![a] = NoAddr]
          BY <2>2, <3>3 DEF MonitorType
        <4>2. monitor'.ip = monitor.todo[a]
          BY <2>2, <3>3 DEF MonitorType
        <4>3. monitor.todo[a] = a /\ monitor.todo \in AddrMap
          BY <2>2, <3>3 DEF OneAddressInv, SelfMapped, MonitorType
        <4>4. monitor'.ip = a /\ monitor'.todo[a] = NoAddr /\ knownServers[a] = a
          BY <3>3, <4>1, <4>2, <4>3
        <4>5. \A b \in Addr : monitor'.todo[b] # NoAddr => knownServers[b] = b
          BY <4>1, <4>3
        <4>6. QED BY <2>1, <3>1, <4>4, <4>5
      <3>4. QED BY <2>4, <3>2, <3>3 DEF MonitorNext
    <2>5. CASE MonitorProbe
      <3>1. monitor'.todo = monitor.todo /\ monitor'.ip = monitor.ip /\ UNCHANGED registry
        BY <2>2, <2>5 DEF MonitorProbe, MonitorType
      <3>2. monitor.pc \in Busy
        BY <2>5 DEF MonitorProbe
      <3>3. QED BY <2>1, <3>1, <3>2
    <2>6. CASE MonitorStore
      <3>1. /\ monitor'.pc = "next" /\ monitor'.todo = monitor.todo
            /\ UNCHANGED knownServers /\ knownServers[monitor.ip] = monitor.ip
        BY <2>6 DEF MonitorStore, IdleMonitor
      <3>2. \A a \in Addr : a = monitor.ip \/ serverObjects'[a] = serverObjects[a]
        BY <2>6 DEF MonitorStore, TypeOK, ForkTypeOK
      <3>3. QED BY <2>1, <3>1, <3>2
    <2>7. CASE MonitorEvict
      <3>1. /\ monitor'.pc = "next" /\ monitor'.todo = monitor.todo
            /\ monitor.todo[monitor.ip] = NoAddr /\ discovery.pc # "asking"
        BY <2>7 DEF MonitorEvict, IdleMonitor, MutexFree
      <3>2. /\ serverObjects'[monitor.ip] = Absent
            /\ \A a \in Addr : a = monitor.ip \/ (/\ knownServers'[a] = knownServers[a]
                                                  /\ serverObjects'[a] = serverObjects[a])
        BY <2>7 DEF MonitorEvict, Erase, TypeOK, ForkTypeOK, ThreadsOK
      <3>3. QED BY <2>1, <3>1, <3>2
    <2>8. QED BY <1>7, <2>3, <2>4, <2>5, <2>6, <2>7 DEF MonitorStep
  <1>8. CASE HttpStep
    <2>1. CASE Terminate
      <3>1. net' = net
        BY <1>8 DEF HttpStep, HttpList, HttpOther, HttpGet, HttpScan, HttpNotFound, HttpAsk
      <3>2. QED
        BY <2>1, <3>1 DEF Terminate, IdleMonitor, IdleDiscovery, EmptyMap
    <2>2. QED
      BY <1>1, <1>8, <2>1
         DEF HttpStep, HttpList, HttpOther, HttpGet, HttpScan, HttpNotFound, HttpAsk,
             HttpUnchanged
  <1>9. CASE UNCHANGED vars
    BY <1>1, <1>9 DEF vars, forkVars
  <1>10. QED
    BY <1>2, <1>3, <1>4, <1>5, <1>6, <1>7, <1>8, <1>9 DEF Next, DiscoveryStep

LEMMA RegisteredAlways ==
  ASSUME OneAddressPerServer, SaysOff = FALSE
  PROVE  Spec => []RegisteredInv
  <1>1. Init => RegisteredInv
    BY DEF Init, RegisteredInv, EmptyMap, IdleMonitor, IdleDiscovery
  <1>2. QED BY <1>1, RegisteredStep, OneAddress, TypeCorrect, PTL DEF Spec

\* Without OFF messages, and with one address per server, every figure that
\* "/objects" lists can be reached by "/get": the monitor's copies of the registry,
\* however old, never leave a list without its server.
THEOREM ListedReachable ==
  ASSUME OneAddressPerServer, SaysOff = FALSE
  PROVE  Spec => []ListedFiguresAreReachable
  <1>1. RegisteredInv => ListedFiguresAreReachable
    BY DEF RegisteredInv, ListedFiguresAreReachable
  <1>2. QED BY <1>1, RegisteredAlways, PTL

LEMMA RegistryStep ==
  ASSUME OneAddressPerServer, SaysOff = FALSE
  PROVE  TypeOK /\ RegisteredInv /\ [Next]_vars => [Registry!RNext]_(Registry!rvars)
  <1> SUFFICES ASSUME TypeOK, RegisteredInv, [Next]_vars
               PROVE  Registry!RNext \/ UNCHANGED Registry!rvars
    OBVIOUS
  <1> DEFINE Registered == {a \in Addr : knownServers[a] # NoAddr}
  <1> USE DEF Registry!RNext, Registry!rvars
  <1>1. CASE UNCHANGED registry
    BY <1>1
  <1>2. CASE Terminate
    <2>1. Registry!Forget
      BY <1>2 DEF Registry!Forget, Terminate, EmptyMap
    <2>2. QED BY <2>1
  <1>3. ASSUME NEW s \in Server, ReceiveOn(s) PROVE Registry!RNext
    <2>1. Announced[s] = Host[s] /\ Host[s] \in Addr /\ Host[s] # NoAddr
      BY AddressAssumption DEF OneAddressPerServer
    <2>2. Registered' = Registered \cup {Host[s]}
      BY <1>3, <2>1 DEF ReceiveOn, TypeOK, ForkTypeOK
    <2>3. Registry!Register(Host[s])
      BY <1>3, <2>2 DEF Registry!Register, ReceiveOn
    <2>4. QED BY <2>1, <2>3
  <1>4. ASSUME NEW s \in Server, ReceiveOff(s) PROVE FALSE
    BY <1>4 DEF ReceiveOff, RegisteredInv
  <1>5. ASSUME NEW ip \in Addr, NEW figures \in SUBSET Name,
               knownServers[ip] = ip, UNCHANGED knownServers,
               serverObjects' = [serverObjects EXCEPT ![ip] = figures]
        PROVE  Registry!RNext
    <2>1. Registry!Refresh(ip, figures)
      BY <1>5, AddressAssumption DEF Registry!Refresh
    <2>2. QED BY <2>1
  <1>6. CASE ReceiveObjects
    <2>1. PICK answer \in Answer :
            serverObjects' = IF answer \in SUBSET Name
                             THEN [serverObjects EXCEPT ![discovery.ip] = answer]
                             ELSE serverObjects
      BY <1>6 DEF ReceiveObjects
    <2>2. UNCHANGED knownServers /\ knownServers[discovery.ip] = discovery.ip
          /\ discovery.ip \in Addr
      BY <1>6 DEF ReceiveObjects, RegisteredInv, TypeOK, ThreadsOK
    <2>3. QED BY <1>1, <1>5, <2>1, <2>2
  <1>7. CASE MonitorStore
    <2>1. UNCHANGED knownServers /\ knownServers[monitor.ip] = monitor.ip
          /\ monitor.ip \in Addr /\ monitor.answer \in SUBSET Name
          /\ serverObjects' = [serverObjects EXCEPT ![monitor.ip] = monitor.answer]
      BY <1>7 DEF MonitorStore, RegisteredInv, TypeOK, ThreadsOK
    <2>2. QED BY <1>5, <2>1
  <1>8. ASSUME MonitorEvict PROVE Registry!RNext
    <2>1. PICK ip \in Addr : ip = monitor.ip
      BY <1>8 DEF MonitorEvict, TypeOK, ThreadsOK
    <2>2. /\ knownServers' = [knownServers EXCEPT ![ip] = NoAddr]
          /\ serverObjects' = [serverObjects EXCEPT ![ip] = Absent]
      BY <1>8, <2>1 DEF MonitorEvict, Erase
    <2>3. Registered' = Registered \ {ip}
      BY <2>2 DEF TypeOK, ForkTypeOK
    <2>4. Registry!Evict(ip)
      BY <2>2, <2>3 DEF Registry!Evict
    <2>5. QED BY <2>4
  <1>9. CASE ServerStep \/ StartFork \/ BroadcastTenedor \/ UNCHANGED vars
    BY <1>1, <1>9
       DEF ServerStep, StartServer, Listen, StopServer, InitialAnnouncement, AnswerTenedor,
           PeriodicAnnouncement, LoseDatagram, StartFork, BroadcastTenedor, forkVars, vars
  <1>10. CASE HttpStep \/ MonitorCopy \/ MonitorNext \/ MonitorProbe
    BY <1>1, <1>2, <1>10
       DEF HttpStep, HttpList, HttpOther, HttpGet, HttpScan, HttpNotFound, HttpAsk,
           HttpUnchanged, MonitorCopy, MonitorNext, MonitorProbe
  <1>11. QED
    BY <1>3, <1>4, <1>6, <1>7, <1>8, <1>9, <1>10 DEF Next, DiscoveryStep, MonitorStep

\* Without OFF messages, and with one address per server, the three threads and their
\* interleavings implement the registry of FigureRegistry: a list is only ever stored
\* for a registered server, and leaves together with it.
THEOREM RegistryRefined ==
  ASSUME OneAddressPerServer, SaysOff = FALSE
  PROVE  Spec => RefinesRegistry
  <1>1. Init => Registry!RInit
    BY DEF Init, EmptyMap, Registry!RInit
  <1>2. QED
    BY <1>1, RegistryStep, RegisteredAlways, TypeCorrect, PTL
       DEF Spec, RefinesRegistry, Registry!RSpec
=============================================================================
