-------------------------- MODULE SimulationProofs --------------------------
(***************************************************************************)
(* Theorems about Simulation, for every size of the buffer, every set of   *)
(* figures and messages of any length.                                     *)
(***************************************************************************)
EXTENDS Simulation, Integers, TLAPS

-----------------------------------------------------------------------------
(* Type correctness                                                        *)

LEMMA IndexTyped ==
  ASSUME NEW n \in Nat
  PROVE  n % Capacity \in Cell
  BY SimulationAssumption DEF Cell

LEMMA WriteTyped ==
  ASSUME TypeOK, NEW m \in Message, write(m)
  PROVE  /\ writeIndex' \in Cell /\ readIndex' = readIndex
         /\ DOMAIN buffer' = Cell
         /\ \A i \in Cell : buffer'[i] = Nul \/ buffer'[i] \in Text \X Nat
  <1> USE SimulationAssumption
  <1>1. Length(m) \in Nat /\ writeIndex \in Nat /\ m \in Text
    BY DEF TypeOK, Cell, Text
  <1>2. writeIndex' \in Cell
    <2>1. writeIndex + Length(m) + 1 \in Nat
      BY <1>1
    <2>2. QED BY <2>1, IndexTyped DEF write
  <1>3. ASSUME NEW i \in Cell
        PROVE  Overwritten(m, i) = Nul \/ Overwritten(m, i) \in Text \X Nat
    <2> DEFINE offset == (i + Capacity - writeIndex) % Capacity
               rounds == (Length(m) - offset) \div Capacity
    <2>1. i + Capacity - writeIndex \in Nat
      BY DEF TypeOK, Cell
    <2>2. offset \in Nat
      BY <2>1, IndexTyped DEF Cell
    <2>3. CASE offset > Length(m)
      BY <2>3 DEF Overwritten, TypeOK
    <2>4. CASE ~(offset > Length(m))
      <3> HIDE DEF offset
      <3>1. rounds \in Nat
        <4>1. Length(m) - offset \in Nat
          BY <1>1, <2>2, <2>4
        <4>2. QED BY <4>1
      <3> HIDE DEF rounds
      <3>2. offset + Capacity * rounds \in Nat
        BY <2>2, <3>1
      <3>3. CharOf(m, offset + Capacity * rounds) \in {Nul} \cup (Text \X Nat)
        BY <1>1, <3>2 DEF CharOf, Char
      <3>4. Overwritten(m, i) = CharOf(m, offset + Capacity * rounds)
        BY <2>4 DEF Overwritten, offset, rounds
      <3>5. QED BY <3>3, <3>4
    <2>5. QED BY <2>3, <2>4
  <1>4. /\ DOMAIN buffer' = Cell /\ readIndex' = readIndex
        /\ \A i \in Cell : buffer'[i] = Overwritten(m, i)
    BY DEF write
  <1>5. QED BY <1>2, <1>3, <1>4

LEMMA ReadTyped ==
  ASSUME TypeOK, NEW text, read(text)
  PROVE  /\ readIndex' \in Cell /\ text \in Text
         /\ UNCHANGED <<buffer, writeIndex>>
  <1>1. PICK length \in Cell : /\ readIndex' = (readIndex + length + 1) % Capacity
                               /\ text \in Message \/ text = Broken
    BY DEF read
  <1>2. readIndex + length + 1 \in Nat
    BY SimulationAssumption DEF TypeOK, Cell
  <1>3. QED BY <1>1, <1>2, IndexTyped DEF read, Text

\* What the threads write are messages.
LEMMA MessagesWritten ==
  /\ AskObjects \in Message /\ HttpBadRequest \in Message
  /\ \A r \in Request : r \in Message
  /\ \A f \in Figure : Get(f) \in Message
  /\ \A figures \in {{}, Listed} : Listing(figures) \in Message
  /\ \A text \in Text : buildResponse(text) \in Message
  /\ \A text \in Text : buildAnswer(text) \in Message
  <1>1. \A text : buildResponse(text) \in Message
    BY DEF buildResponse, Message
  <1>2. \A text : buildAnswer(text) \in Ok \cup Errors
    <2>1. TAKE text
    <2>2. CASE text = AskObjects
      BY <2>2 DEF buildAnswer, Ok
    <2>3. CASE text # AskObjects /\ \E f \in OnDisk : text = Get(f)
      <3>1. PICK f \in OnDisk : text = Get(f)
        BY <2>3
      <3>2. text[2] = f /\ f \in Figure
        BY <3>1, SimulationAssumption DEF Get
      <3>3. QED BY <2>3, <3>2 DEF buildAnswer, Ok
    <2>4. CASE text # AskObjects /\ ~\E f \in OnDisk : text = Get(f)
      BY <2>4 DEF buildAnswer, Errors
    <2>5. QED BY <2>2, <2>3, <2>4
  <1>3. QED BY <1>1, <1>2 DEF Message

LEMMA SharedTyped ==
  ASSUME TypeOK, UNCHANGED <<buffer, writeIndex, readIndex>>
  PROVE  /\ DOMAIN buffer' = Cell /\ writeIndex' \in Cell /\ readIndex' \in Cell
         /\ \A i \in Cell : buffer'[i] = Nul \/ buffer'[i] \in Text \X Nat
  BY DEF TypeOK

LEMMA SemaphoreTyped ==
  ASSUME semaphore \in [Thread -> Nat], NEW t \in Thread, signal(t) \/ wait(t)
  PROVE  semaphore' \in [Thread -> Nat]
  BY DEF signal, wait

\* The buffer and its indices keep their types in a step that writes a message, reads
\* or does neither.
BufferTyped ==
    /\ DOMAIN buffer = Cell /\ writeIndex \in Cell /\ readIndex \in Cell
    /\ \A i \in Cell : buffer[i] = Nul \/ buffer[i] \in Text \X Nat

LEMMA BufferStep ==
  ASSUME TypeOK,
         \/ UNCHANGED <<buffer, writeIndex, readIndex>>
         \/ \E m \in Message : write(m)
         \/ \E text \in Text : read(text)
  PROVE  BufferTyped'
  <1>1. CASE \E m \in Message : write(m)
    BY <1>1, WriteTyped DEF TypeOK, BufferTyped
  <1>2. CASE \E text \in Text : read(text)
    <2>1. PICK text \in Text : read(text)
      BY <1>2
    <2>2. readIndex' \in Cell /\ UNCHANGED <<buffer, writeIndex>>
      BY <2>1, ReadTyped
    <2>3. QED BY <2>2 DEF TypeOK, BufferTyped
  <1>3. QED BY <1>1, <1>2 DEF TypeOK, BufferTyped

LEMMA ClientTyped == TypeOK /\ ClientStep => TypeOK'
  <1> SUFFICES ASSUME TypeOK, ClientStep PROVE TypeOK'
    OBVIOUS
  <1>1. UNCHANGED <<tenedor, server>>
    BY DEF ClientStep, ClientWait, ClientAsk, ClientExit, ClientSignal, ClientRead
  <1>2. /\ semaphore' \in [Thread -> Nat] /\ finished' \in BOOLEAN
    <2>1. \/ wait("client") \/ signal("tenedor") \/ semaphore' = semaphore
      BY DEF ClientStep, ClientWait, ClientAsk, ClientExit, ClientSignal, ClientRead
    <2>2. finished' \in {TRUE, finished}
      BY DEF ClientStep, ClientWait, ClientAsk, ClientExit, ClientSignal, ClientRead
    <2>3. "client" \in Thread /\ "tenedor" \in Thread
      BY DEF Thread
    <2>4. QED BY <2>1, <2>2, <2>3, SemaphoreTyped DEF TypeOK
  <1>3. BufferTyped'
    <2>1. \/ UNCHANGED <<buffer, writeIndex, readIndex>>
          \/ \E m \in Message : write(m)
          \/ \E text \in Text : read(text)
      BY MessagesWritten
      DEF ClientStep, ClientWait, ClientAsk, ClientExit, ClientSignal, ClientRead,
          BufferUnchanged, Text
    <2>2. QED BY <2>1, BufferStep
  <1>4. client' \in [pc : {"start", "ask", "signal", "wait", "read", "bye", "ended"},
                     request : Request, response : Text]
    BY DEF TypeOK, ClientStep, ClientWait, ClientAsk, ClientExit, ClientSignal, ClientRead, Text
  <1>5. QED BY <1>1, <1>2, <1>3, <1>4 DEF TypeOK, BufferTyped

LEMMA TenedorTyped == TypeOK /\ TenedorStep => TypeOK'
  <1> SUFFICES ASSUME TypeOK, TenedorStep PROVE TypeOK'
    OBVIOUS
  <1> USE DEF TenedorStep, TenedorStart, TenedorSignalServer, TenedorSignalClient, TenedorWait,
              TenedorList, TenedorCheck, TenedorServe, TenedorReadServer, TenedorAnswer
  <1>1. UNCHANGED <<client, server, finished>>
    OBVIOUS
  <1>2. semaphore' \in [Thread -> Nat]
    <2>1. \/ wait("tenedor") \/ signal("client") \/ signal("server") \/ semaphore' = semaphore
      OBVIOUS
    <2>2. {"client", "tenedor", "server"} \subseteq Thread
      BY DEF Thread
    <2>3. QED BY <2>1, <2>2, SemaphoreTyped DEF TypeOK
  <1>3. BufferTyped'
    <2>1. Listed \subseteq Figure /\ tenedor.figures \in {{}, Listed} /\ tenedor.text \in Text
      BY SimulationAssumption DEF TypeOK
    <2>2. \/ UNCHANGED <<buffer, writeIndex, readIndex>>
          \/ \E m \in Message : write(m)
          \/ \E text \in Text : read(text)
      <3>1. CASE TenedorServe
        <4>1. \A f \in Asked(tenedor.text) : Get(f) \in Message
          BY <2>1, MessagesWritten DEF Asked
        <4>2. (IF tenedor.text = Objects THEN Listing(tenedor.figures)
                                         ELSE HttpBadRequest) \in Message
          BY <2>1, MessagesWritten
        <4>3. QED BY <3>1, <4>1, <4>2
      <3>2. CASE TenedorStart \/ TenedorAnswer
        BY <2>1, <3>2, MessagesWritten
      <3>3. CASE TenedorList \/ TenedorCheck \/ TenedorReadServer
        BY <3>3 DEF Text, BufferUnchanged
      <3>4. CASE TenedorSignalServer \/ TenedorSignalClient \/ TenedorWait
        BY <3>4 DEF BufferUnchanged
      <3>5. QED BY <3>1, <3>2, <3>3, <3>4
    <2>3. QED BY <2>2, BufferStep
  <1>4. tenedor' \in
          [pc : {"begin", "signalServer", "signalClient", "waitServer",
                 "waitClient", "check", "serve", "readServer", "answer", "ended"},
           loaded : BOOLEAN, figures : {{}, Listed}, text : Text]
    BY DEF TypeOK, Text
  <1>5. QED BY <1>1, <1>2, <1>3, <1>4 DEF TypeOK, BufferTyped

LEMMA ServerTyped == TypeOK /\ ServerStep => TypeOK'
  <1> SUFFICES ASSUME TypeOK, ServerStep PROVE TypeOK'
    OBVIOUS
  <1> USE DEF ServerStep, ServerWait, ServerCheck, ServerAnswer
  <1>1. UNCHANGED <<client, tenedor, finished>>
    OBVIOUS
  <1>2. semaphore' \in [Thread -> Nat]
    <2>1. wait("server") \/ signal("tenedor") \/ semaphore' = semaphore
      OBVIOUS
    <2>2. "server" \in Thread /\ "tenedor" \in Thread
      BY DEF Thread
    <2>3. QED BY <2>1, <2>2, SemaphoreTyped DEF TypeOK
  <1>3. BufferTyped'
    <2>1. \/ UNCHANGED <<buffer, writeIndex, readIndex>>
          \/ \E m \in Message : write(m)
          \/ \E text \in Text : read(text)
      BY MessagesWritten DEF TypeOK, BufferUnchanged, Text
    <2>2. QED BY <2>1, BufferStep
  <1>4. server' \in [pc : {"wait", "check", "answer", "signal", "ended"}, text : Text]
    BY DEF TypeOK, Text
  <1>5. QED BY <1>1, <1>2, <1>3, <1>4 DEF TypeOK, BufferTyped

\* Whatever is written, the indices stay in the buffer and the buffer holds characters
\* of messages.
THEOREM SimulationTyped == Spec => []TypeOK
  <1>1. Init => TypeOK
    <2> SUFFICES ASSUME Init PROVE TypeOK
      OBVIOUS
    <2>1. 0 \in Cell
      BY SimulationAssumption DEF Cell
    <2>2. \A i \in Cell : buffer[i] \in Text \X Nat
      BY DEF Init, Char, Text
    <2>3. QED BY <2>1, <2>2 DEF Init, TypeOK, Text, Request
  <1>2. TypeOK /\ [Next]_vars => TypeOK'
    <2>1. TypeOK /\ UNCHANGED vars => TypeOK'
      BY DEF vars, shared, TypeOK
    <2>2. QED BY <2>1, ClientTyped, TenedorTyped, ServerTyped DEF Next
  <1>3. QED BY <1>1, <1>2, PTL DEF Spec

-----------------------------------------------------------------------------
(* One turn                                                                *)

\* A step takes the turn from one thread, which was the only one to have it, and gives
\* it to one: itself or the thread it wakes.
LEMMA TurnMoves ==
  ASSUME OneTurn, NEW t \in Thread, NEW u \in Thread, Turns(t) # 0,
         \A v \in Thread : Turns(v) \in Nat,
         \A v \in Thread \ {t, u} : Turns(v)' = Turns(v),
         Turns(u)' \in {0, 1}, t # u => Turns(t)' = 0
  PROVE  OneTurn'
  <1>1. Turns(t) = 1 /\ \A v \in Thread \ {t} : Turns(v) = 0
    BY DEF OneTurn
  <1>2. \A v \in Thread \ {u} : Turns(v)' = 0
    BY <1>1
  <1>3. QED BY <1>2 DEF OneTurn

LEMMA TurnsTyped == TypeOK => \A v \in Thread : Turns(v) \in Nat
  BY DEF TypeOK, Turns

LEMMA ClientTurn == TypeOK /\ OneTurn /\ ClientStep => OneTurn'
  <1> SUFFICES ASSUME TypeOK, OneTurn, ClientStep PROVE OneTurn'
    OBVIOUS
  <1> USE DEF Thread
  <1>1. UNCHANGED <<tenedor, server>> /\ \A v \in Thread : Turns(v) \in Nat
    BY TurnsTyped DEF ClientStep, ClientWait, ClientAsk, ClientExit, ClientSignal, ClientRead
  <1>2. semaphore \in [Thread -> Nat]
    BY DEF TypeOK
  <1>3. CASE ClientWait \/ ClientAsk \/ ClientExit \/ ClientRead
    <2>1. Turns("client") # 0 /\ Turns("client")' = Turns("client")
      <3>1. CASE ClientWait
        <4>1. client'.pc \in {"ask", "read"}
          BY <3>1 DEF ClientWait, TypeOK
        <4>2. client.pc \in {"start", "wait"} /\ wait("client")
          BY <3>1 DEF ClientWait
        <4>3. QED BY <1>2, <4>1, <4>2 DEF wait, Turns, Running
      <3>2. CASE ClientAsk \/ ClientExit \/ ClientRead
        <4>1. client'.pc \in {"ask", "signal", "bye"}
          BY <3>2 DEF ClientAsk, ClientExit, ClientRead, TypeOK
        <4>2. client.pc \in {"ask", "read"} /\ UNCHANGED semaphore
          BY <3>2 DEF ClientAsk, ClientExit, ClientRead
        <4>3. QED BY <1>2, <4>1, <4>2 DEF Turns, Running
      <3>3. QED BY <1>3, <3>1, <3>2
    <2>2. \A v \in Thread \ {"client"} : Turns(v)' = Turns(v)
      BY <1>1, <1>2, <1>3
      DEF ClientWait, ClientAsk, ClientExit, ClientRead, wait, Turns, Running
    <2>3. Turns("client") = 1
      BY <1>1, <2>1 DEF OneTurn
    <2>4. QED BY <1>1, <2>1, <2>2, <2>3, TurnMoves
  <1>4. CASE ClientSignal
    <2>1. Turns("client") # 0 /\ Turns("client")' = semaphore["client"]
      BY <1>2, <1>4 DEF ClientSignal, signal, Turns, Running, TypeOK
    <2>2. Turns("client") = 1 /\ Turns("tenedor") = 0
      BY <1>1, <2>1 DEF OneTurn
    <2>3. Turns("client")' = 0
      BY <1>2, <1>4, <2>1, <2>2 DEF ClientSignal, Turns, Running
    <2>4. Turns("tenedor")' = 1 /\ Turns("server")' = Turns("server")
      BY <1>1, <1>2, <1>4, <2>2 DEF ClientSignal, signal, Turns, Running
    <2>5. QED BY <1>1, <2>1, <2>3, <2>4, TurnMoves
  <1>5. QED BY <1>3, <1>4 DEF ClientStep

LEMMA TenedorTurn == TypeOK /\ OneTurn /\ TenedorStep => OneTurn'
  <1> SUFFICES ASSUME TypeOK, OneTurn, TenedorStep PROVE OneTurn'
    OBVIOUS
  <1> USE DEF Thread
  <1>1. UNCHANGED <<client, server>> /\ \A v \in Thread : Turns(v) \in Nat
    BY TurnsTyped
    DEF TenedorStep, TenedorStart, TenedorSignalServer, TenedorSignalClient, TenedorWait,
        TenedorList, TenedorCheck, TenedorServe, TenedorReadServer, TenedorAnswer
  <1>2. semaphore \in [Thread -> Nat]
    BY DEF TypeOK
  <1>3. CASE TenedorWait
    <2>1. Turns("tenedor") # 0 /\ Turns("tenedor")' = Turns("tenedor")
      BY <1>2, <1>3 DEF TenedorWait, wait, Turns, Running, TypeOK
    <2>2. \A v \in Thread \ {"tenedor"} : Turns(v)' = Turns(v)
      BY <1>1, <1>2, <1>3 DEF TenedorWait, wait, Turns, Running
    <2>3. Turns("tenedor") = 1
      BY <1>1, <2>1 DEF OneTurn
    <2>4. QED BY <1>1, <2>1, <2>2, <2>3, TurnMoves
  <1>4. CASE TenedorStart \/ TenedorList \/ TenedorCheck \/ TenedorServe
               \/ TenedorReadServer \/ TenedorAnswer
    <2>1. /\ tenedor.pc \in {"begin", "readServer", "check", "serve", "answer"}
          /\ UNCHANGED semaphore
      BY <1>4 DEF TenedorStart, TenedorList, TenedorCheck, TenedorServe,
                  TenedorReadServer, TenedorAnswer
    <2>2. Turns("tenedor") # 0
      BY <1>2, <2>1 DEF Turns, Running
    <2>3. Turns("tenedor") = 1 /\ semaphore["tenedor"] = 0
      BY <1>1, <1>2, <2>1, <2>2 DEF OneTurn, Turns, Running
    <2>4. Turns("tenedor")' \in {0, 1}
      BY <2>1, <2>3 DEF Turns
    <2>5. \A v \in Thread \ {"tenedor"} : Turns(v)' = Turns(v)
      BY <1>1, <2>1 DEF Turns, Running
    <2>6. QED BY <1>1, <2>2, <2>4, <2>5, TurnMoves
  <1>5. ASSUME NEW u \in {"client", "server"}, signal(u),
               tenedor.pc \in {"signalServer", "signalClient"},
               tenedor'.pc \in {"waitServer", "waitClient"}
        PROVE  OneTurn'
    <2>1. Turns("tenedor") # 0 /\ Turns("tenedor")' = semaphore["tenedor"]
      BY <1>2, <1>5 DEF signal, Turns, Running
    <2>2. Turns("tenedor") = 1 /\ Turns(u) = 0
      BY <1>1, <2>1 DEF OneTurn
    <2>3. Turns("tenedor")' = 0
      BY <1>2, <1>5, <2>1, <2>2 DEF Turns, Running
    <2>4. Turns(u)' = 1 /\ \A v \in Thread \ {"tenedor", u} : Turns(v)' = Turns(v)
      BY <1>1, <1>2, <1>5, <2>2 DEF signal, Turns, Running
    <2>5. QED BY <1>1, <2>1, <2>3, <2>4, TurnMoves
  <1>6. CASE TenedorSignalServer
    BY <1>5, <1>6 DEF TenedorSignalServer, TypeOK
  <1>7. CASE TenedorSignalClient
    BY <1>5, <1>7 DEF TenedorSignalClient, TypeOK
  <1>8. QED BY <1>3, <1>4, <1>6, <1>7 DEF TenedorStep

LEMMA ServerTurn == TypeOK /\ OneTurn /\ ServerStep => OneTurn'
  <1> SUFFICES ASSUME TypeOK, OneTurn, ServerStep PROVE OneTurn'
    OBVIOUS
  <1> USE DEF Thread
  <1>1. UNCHANGED <<client, tenedor>> /\ \A v \in Thread : Turns(v) \in Nat
    BY TurnsTyped DEF ServerStep, ServerWait, ServerCheck, ServerAnswer
  <1>2. semaphore \in [Thread -> Nat]
    BY DEF TypeOK
  <1>3. CASE ServerWait
    <2>1. Turns("server") # 0 /\ Turns("server")' = Turns("server")
      BY <1>2, <1>3 DEF ServerWait, wait, Turns, Running, TypeOK
    <2>2. \A v \in Thread \ {"server"} : Turns(v)' = Turns(v)
      BY <1>1, <1>2, <1>3 DEF ServerWait, wait, Turns, Running
    <2>3. Turns("server") = 1
      BY <1>1, <2>1 DEF OneTurn
    <2>4. QED BY <1>1, <2>1, <2>2, <2>3, TurnMoves
  <1>4. ASSUME server.pc \in {"check", "answer", "signal"}
        PROVE  /\ Turns("server") = 1 /\ semaphore["server"] = 0
               /\ Turns("tenedor") = 0
    <2>1. Turns("server") # 0
      BY <1>2, <1>4 DEF Turns, Running
    <2>2. Turns("server") = 1 /\ Turns("tenedor") = 0
      BY <1>1, <2>1 DEF OneTurn
    <2>3. QED BY <1>2, <1>4, <2>2 DEF Turns, Running
  <1>5. CASE server.pc \in {"check", "answer"} /\ UNCHANGED semaphore
    <2>1. Turns("server")' \in {0, 1}
      BY <1>4, <1>5 DEF Turns
    <2>2. \A v \in Thread \ {"server"} : Turns(v)' = Turns(v)
      BY <1>1, <1>5 DEF Turns, Running
    <2>3. QED BY <1>1, <1>4, <1>5, <2>1, <2>2, TurnMoves
  <1>6. CASE server.pc = "signal" /\ signal("tenedor") /\ server'.pc = "wait"
    <2>1. Turns("server")' = 0
      BY <1>2, <1>4, <1>6 DEF signal, Turns, Running
    <2>2. Turns("tenedor")' = 1 /\ Turns("client")' = Turns("client")
      BY <1>1, <1>2, <1>4, <1>6 DEF signal, Turns, Running
    <2>3. QED BY <1>1, <1>4, <1>6, <2>1, <2>2, TurnMoves
  <1>7. QED BY <1>3, <1>5, <1>6 DEF ServerStep, ServerCheck, ServerAnswer, TypeOK

\* At most one of the three threads runs or has been woken: the buffer and its
\* indices, which no lock protects, are never used by two threads at a time.
THEOREM OneTurnAlways == Spec => []OneTurn
  <1>1. Init => OneTurn
    BY DEF Init, OneTurn, Turns, Running, Thread
  <1>2. TypeOK /\ OneTurn /\ [Next]_vars => OneTurn'
    <2>1. OneTurn /\ UNCHANGED vars => OneTurn'
      BY DEF vars, shared, OneTurn, Turns, Running
    <2>2. QED BY <2>1, ClientTurn, TenedorTurn, ServerTurn DEF Next
  <1>3. QED BY <1>1, <1>2, SimulationTyped, PTL DEF Spec

-----------------------------------------------------------------------------
(* Going round the buffer                                                  *)

LEMMA ProductMonotone ==
  ASSUME NEW C \in Nat \ {0}, NEW q \in Int, NEW p \in Int, q < p
  PROVE  C * q + C <= C * p
  OBVIOUS

\* A number has one quotient and one remainder.
LEMMA DivMod ==
  ASSUME NEW C \in Nat \ {0}, NEW n \in Int
  PROVE  /\ n = C * (n \div C) + (n % C)
         /\ n % C \in 0..(C - 1) /\ n \div C \in Int
  OBVIOUS

LEMMA DivModUnique ==
  ASSUME NEW C \in Nat \ {0}, NEW n \in Int, NEW q \in Int, NEW r \in 0..(C - 1),
         n = C * q + r
  PROVE  (n % C) = r /\ n \div C = q
  <1>1. PICK a \in Int, b \in 0..(C - 1) : a = n \div C /\ b = n % C
    BY DivMod
  <1>2. C * a \in Int /\ C * q \in Int
    OBVIOUS
  <1>3. C * a + b = C * q + r
    BY <1>1, DivMod
  <1>4. ASSUME a < q PROVE FALSE
    BY <1>2, <1>3, <1>4, ProductMonotone
  <1>5. ASSUME q < a PROVE FALSE
    BY <1>2, <1>3, <1>5, ProductMonotone
  <1>6. a = q
    BY <1>4, <1>5
  <1>7. b = r
    BY <1>2, <1>3, <1>6
  <1>8. QED BY <1>1, <1>6, <1>7

LEMMA ModSmall ==
  ASSUME NEW n \in Cell
  PROVE  (n % Capacity) = n
  BY SimulationAssumption, DivModUnique DEF Cell

\* Whole rounds do not count.
LEMMA ModAround ==
  ASSUME NEW n \in Int, NEW q \in Int
  PROVE  ((n + Capacity * q) % Capacity) = (n % Capacity)
  <1>1. Capacity \in Nat \ {0}
    BY SimulationAssumption
  <1>2. PICK a \in Int, b \in 0..(Capacity - 1) :
          a = n \div Capacity /\ b = n % Capacity /\ n = Capacity * a + b
    BY <1>1, DivMod
  <1>3. PICK x \in Int, y \in Int, c \in Int :
          x = Capacity * a /\ y = Capacity * q /\ c = a + q
    <2>1. Capacity * a \in Int /\ Capacity * q \in Int /\ a + q \in Int
      BY <1>1
    <2>2. QED BY <2>1
  <1>4. Capacity * c = x + y
    BY <1>1, <1>3
  <1>5. PICK m \in Int : m = n + y
    BY <1>3
  <1>6. m = Capacity * c + b
    <2>1. n = x + b /\ b \in Int
      BY <1>1, <1>2, <1>3
    <2>2. m = (x + y) + b
      BY <1>3, <1>5, <2>1
    <2>3. QED BY <1>4, <2>2
  <1>7. (m % Capacity) = b
    BY <1>1, <1>6, DivModUnique
  <1>8. QED BY <1>2, <1>3, <1>5, <1>7

\* The cell that is k cells after the cell i is found k cells after it again.
LEMMA ModBack ==
  ASSUME NEW i \in Cell, NEW k \in Cell
  PROVE  ((((i + k) % Capacity) + Capacity - i) % Capacity) = k
  <1>1. Capacity \in Nat \ {0} /\ i \in Int /\ k \in Int
    BY SimulationAssumption DEF Cell
  <1>2. PICK a \in Int, b \in 0..(Capacity - 1) :
          b = ((i + k) % Capacity) /\ i + k = Capacity * a + b
    <2>1. PICK n \in Int : n = i + k
      BY <1>1
    <2>2. n = Capacity * (n \div Capacity) + (n % Capacity)
      BY <1>1, DivMod
    <2>3. n % Capacity \in 0..(Capacity - 1) /\ n \div Capacity \in Int
      BY <1>1, DivMod
    <2>4. QED BY <2>1, <2>2, <2>3
  <1>3. Capacity * a \in Int /\ Capacity * (1 - a) = Capacity - Capacity * a
        /\ Capacity * (1 - a) \in Int
    BY <1>1
  <1>4. b + Capacity - i = k + Capacity * (1 - a)
    BY <1>1, <1>2, <1>3
  <1>5. ((k + Capacity * (1 - a)) % Capacity) = k
    <2>1. PICK c \in Int : c = 1 - a
      OBVIOUS
    <2>2. ((k + Capacity * c) % Capacity) = (k % Capacity)
      BY <1>1, ModAround
    <2>3. QED BY <2>1, <2>2, ModSmall
  <1>6. QED BY <1>2, <1>4, <1>5

\* The rounds of a message and its rest.
LEMMA Rounds ==
  ASSUME NEW n \in Nat
  PROVE  /\ n \div Capacity \in Nat /\ n % Capacity \in Cell
         /\ n = Capacity * (n \div Capacity) + (n % Capacity)
         /\ n % Capacity <= n
  <1>1. Capacity \in Nat \ {0}
    BY SimulationAssumption
  <1>2. PICK q \in Int, r \in 0..(Capacity - 1) :
          q = n \div Capacity /\ r = n % Capacity /\ n = Capacity * q + r
    BY <1>1, DivMod
  <1>3. ASSUME q < 0 PROVE FALSE
    <2>1. Capacity * q + Capacity <= Capacity * 0
      BY <1>1, <1>3, ProductMonotone
    <2>2. Capacity * 0 = 0 /\ Capacity * q \in Int
      BY <1>1
    <2>3. QED BY <1>1, <1>2, <2>1, <2>2
  <1>4. q \in Nat /\ Capacity * q \in Nat
    <2>1. q \in Nat
      BY <1>3
    <2>2. QED BY <1>1, <2>1
  <1>5. QED BY <1>1, <1>2, <1>4 DEF Cell

\* The last character of a message that falls k cells after its first one.
LEMMA LastRound ==
  ASSUME NEW n \in Nat, NEW k \in 0..(n % Capacity)
  PROVE  /\ k \in Cell /\ k <= n
         /\ k + Capacity * ((n - k) \div Capacity) = n - ((n % Capacity) - k)
  <1>1. PICK q \in Nat, r \in Cell :
          q = n \div Capacity /\ r = n % Capacity /\ n = Capacity * q + r /\ r <= n
    BY Rounds
  <1>2. Capacity \in Nat \ {0} /\ Capacity * q \in Nat /\ r \in 0..(Capacity - 1)
        /\ k \in 0..r
    BY <1>1, SimulationAssumption DEF Cell
  <1>3. n - k = Capacity * q + (r - k) /\ r - k \in 0..(Capacity - 1)
    BY <1>1, <1>2
  <1>4. (n - k) \div Capacity = q
    <2>1. n - k \in Int
      BY <1>2
    <2>2. QED BY <1>2, <1>3, <2>1, DivModUnique
  <1>5. k + Capacity * q = n - (r - k)
    BY <1>1, <1>2
  <1>6. k \in Cell /\ k <= n
    BY <1>1, <1>2 DEF Cell
  <1>7. QED BY <1>1, <1>4, <1>5, <1>6

-----------------------------------------------------------------------------
(* The message in the buffer                                               *)

\* What is written where the two indices meet can be read from there.
LEMMA WriteContains ==
  ASSUME TypeOK, Empty, NEW m \in Message, write(m)
  PROVE  Contains(m)'
  <1>1. PICK i \in Cell, n \in Nat :
          i = readIndex /\ i = writeIndex /\ i = readIndex' /\ n = Length(m)
    BY SimulationAssumption DEF TypeOK, Empty, write
  <1>2. PICK rest \in Cell : rest = n % Capacity
    BY Rounds
  <1>3. Capacity \in Nat \ {0} /\ i \in Nat /\ rest \in Nat /\ i < Capacity
    BY SimulationAssumption DEF Cell
  <1>4. ASSUME NEW k \in 0..rest
        PROVE  At(k)' = IF k = rest THEN Nul ELSE Char(m, n - (rest - k))
    <2>1. k \in Cell /\ k <= n /\ k + Capacity * ((n - k) \div Capacity) = n - (rest - k)
      BY <1>2, LastRound
    <2>2. PICK c \in Cell : c = (i + k) % Capacity
      <3>1. i + k \in Nat
        BY <1>3
      <3>2. QED BY <3>1, IndexTyped
    <2>3. ((c + Capacity - i) % Capacity) = k
      BY <2>1, <2>2, ModBack
    <2>4. At(k)' = buffer'[c] /\ buffer'[c] = Overwritten(m, c)
      BY <1>1, <2>2 DEF At, write
    <2>5. Overwritten(m, c) = CharOf(m, k + Capacity * ((n - k) \div Capacity))
      <3>1. ~(k > n)
        BY <2>1
      <3>2. QED BY <1>1, <2>3, <3>1 DEF Overwritten
    <2>6. At(k)' = CharOf(m, n - (rest - k))
      BY <2>1, <2>4, <2>5
    <2>7. n - (rest - k) = n <=> k = rest
      BY <1>3
    <2>8. QED BY <1>1, <2>6, <2>7 DEF CharOf
  <1>5. At(rest)' = Nul
    BY <1>3, <1>4
  <1>6. ASSUME NEW k \in 0..(rest - 1)
        PROVE  At(k)' # Nul /\ (Fits(m) => At(k)' = Char(m, k))
    <2>1. At(k)' = Char(m, n - (rest - k))
      BY <1>3, <1>4
    <2>2. Char(m, n - (rest - k)) # Nul
      BY DEF Char, Nul
    <2>3. Fits(m) => n - (rest - k) = k
      <3>1. Fits(m) => rest = n
        BY <1>1, <1>2, <1>3, ModSmall DEF Fits, Cell
      <3>2. QED BY <1>3, <3>1
    <2>4. QED BY <2>1, <2>2, <2>3
  <1>7. writeIndex' = (readIndex' + rest + 1) % Capacity
    <2>1. PICK q \in Nat : n = Capacity * q + rest
      BY <1>2, Rounds
    <2>2. PICK y \in Nat : y = Capacity * q
      BY <1>3
    <2>3. PICK j \in Int : j = i + rest + 1
      BY <1>3
    <2>4. i + n + 1 = j + Capacity * q
      BY <1>3, <2>1, <2>2, <2>3
    <2>5. ((j + Capacity * q) % Capacity) = (j % Capacity)
      BY ModAround
    <2>6. QED BY <1>1, <2>3, <2>4, <2>5 DEF write
  <1>8. QED BY <1>1, <1>2, <1>5, <1>6, <1>7 DEF Contains

\* A read takes all that is in the buffer, and a message that fits is read as it was
\* written.
LEMMA ReadContains ==
  ASSUME TypeOK, NEW m \in Message, Contains(m), NEW text, read(text)
  PROVE  Empty' /\ (Fits(m) => text = m)
  <1>1. PICK n \in Nat, rest \in Cell : n = Length(m) /\ rest = n % Capacity
    BY SimulationAssumption, Rounds
  <1>2. /\ At(rest) = Nul
        /\ \A k \in 0..(rest - 1) : At(k) # Nul /\ (Fits(m) => At(k) = Char(m, k))
        /\ writeIndex = (readIndex + rest + 1) % Capacity
    BY <1>1 DEF Contains
  <1>3. PICK length \in Cell :
          /\ At(length) = Nul
          /\ \A k \in 0..(length - 1) : At(k) # Nul
          /\ readIndex' = (readIndex + length + 1) % Capacity
          /\ IF \E t \in Message : Reads(t, length)
             THEN text \in Message /\ Reads(text, length)
             ELSE text = Broken
    BY DEF read
  <1>4. length = rest
    <2>1. length \in Nat /\ rest \in Nat
      BY SimulationAssumption DEF Cell
    <2>2. ~(length < rest) /\ ~(rest < length)
      BY <1>2, <1>3, <2>1
    <2>3. QED BY <2>1, <2>2
  <1>5. Empty'
    BY <1>2, <1>3, <1>4 DEF Empty, read
  <1>6. ASSUME Fits(m) PROVE text = m
    <2>1. rest = n
      BY <1>1, <1>6, ModSmall, SimulationAssumption DEF Fits, Cell
    <2>2. Reads(m, length)
      BY <1>1, <1>2, <1>4, <1>6, <2>1 DEF Reads
    <2>3. text \in Message /\ Length(text) = n
          /\ \A k \in 0..(n - 1) : At(k) = Char(text, k)
      BY <1>3, <1>4, <2>1, <2>2 DEF Reads
    <2>4. CASE n = 0
      BY <1>1, <2>3, <2>4, LengthAssumption
    <2>5. CASE n # 0
      <3>1. 0 \in 0..(n - 1)
        BY <2>5
      <3>2. Char(m, 0) = Char(text, 0)
        BY <1>2, <1>6, <2>1, <2>3, <3>1
      <3>3. QED BY <3>2 DEF Char
    <2>6. QED BY <2>4, <2>5
  <1>7. QED BY <1>5, <1>6

LEMMA ContainsStays ==
  ASSUME NEW m, Contains(m), UNCHANGED <<buffer, writeIndex, readIndex>>
  PROVE  Contains(m)'
  BY DEF Contains, At

-----------------------------------------------------------------------------
(* The turn goes round                                                     *)

\* Where a thread is when it moves.
LEMMA Moves ==
  /\ ClientStep => \/ client.pc \in {"ask", "signal", "bye", "read"}
                   \/ client.pc \in {"start", "wait"} /\ wait("client")
  /\ TenedorStep => \/ tenedor.pc \in {"begin", "signalServer", "signalClient", "check",
                                       "serve", "readServer", "answer"}
                    \/ tenedor.pc \in {"waitServer", "waitClient"} /\ wait("tenedor")
  /\ ServerStep => \/ server.pc \in {"check", "answer", "signal"}
                   \/ server.pc = "wait" /\ wait("server")
  <1>1. ASSUME ClientStep
        PROVE  \/ client.pc \in {"ask", "signal", "bye", "read"}
               \/ client.pc \in {"start", "wait"} /\ wait("client")
    BY <1>1 DEF ClientStep, ClientWait, ClientAsk, ClientExit, ClientSignal, ClientRead
  <1>2. ASSUME TenedorStep
        PROVE  \/ tenedor.pc \in {"begin", "signalServer", "signalClient", "check",
                                  "serve", "readServer", "answer"}
               \/ tenedor.pc \in {"waitServer", "waitClient"} /\ wait("tenedor")
    BY <1>2
    DEF TenedorStep, TenedorStart, TenedorSignalServer, TenedorSignalClient, TenedorWait,
        TenedorList, TenedorCheck, TenedorServe, TenedorReadServer, TenedorAnswer
  <1>3. ASSUME ServerStep
        PROVE  \/ server.pc \in {"check", "answer", "signal"}
               \/ server.pc = "wait" /\ wait("server")
    BY <1>3 DEF ServerStep, ServerWait, ServerCheck, ServerAnswer
  <1>4. QED BY <1>1, <1>2, <1>3

\* Who cannot move.
LEMMA Blocked ==
  ASSUME NEW c, NEW t, NEW s, NEW woken, Threads(c, t, s, woken)
  PROVE  /\ c \in {"start", "wait", "ended"} /\ woken # "client" => ~ClientStep
         /\ t \in {"waitServer", "waitClient", "ended"} /\ woken # "tenedor" => ~TenedorStep
         /\ s \in {"wait", "ended"} /\ woken # "server" => ~ServerStep
  <1>1. client.pc = c /\ tenedor.pc = t /\ server.pc = s
    BY DEF Threads
  <1>2. \A u \in Thread : wait(u) => woken = u
    <2>1. \A u \in Thread : u # woken => semaphore[u] = 0
      BY DEF Threads
    <2>2. QED BY <2>1 DEF wait
  <1>3. "client" \in Thread /\ "tenedor" \in Thread /\ "server" \in Thread
    BY DEF Thread
  <1>4. QED BY <1>1, <1>2, <1>3, Moves

\* A signal wakes one thread, which is the one to go on.
LEMMA Wakes ==
  ASSUME TypeOK, NEW c, NEW t, NEW s, NEW u \in Thread
  PROVE  /\ Threads(c, t, s, "nobody") /\ signal(u)
              => \A v \in Thread : semaphore'[v] = IF v = u THEN 1 ELSE 0
         /\ Threads(c, t, s, u) /\ wait(u)
              => \A v \in Thread : semaphore'[v] = IF v = "nobody" THEN 1 ELSE 0
  BY DEF TypeOK, Threads, Thread, signal, wait

\* What the client should be told follows from what the server heard.
LEMMA RightAnswer ==
  ASSUME TypeOK, ForFigure, Fits(Question) => server.text = Question, NEW text,
         Fits(buildAnswer(server.text)) => text = buildAnswer(server.text)
  PROVE  Right(buildResponse(text))
  <1> SUFFICES ASSUME Fits(client.request), Fits(Answer(client.request)), Fits(Names)
               PROVE  buildResponse(text) = Answer(client.request)
    BY DEF Right
  <1>1. PICK f \in Figure : f \in Listed /\ client.request = Object(f) /\ tenedor.text = Object(f)
    BY SimulationAssumption DEF ForFigure, Loaded
  <1>2. Question = Get(f)
    <2>1. Object(f)[2] = f
      BY DEF Object
    <2>2. QED BY <1>1, <2>1 DEF ForFigure, Loaded, Question
  <1>3. server.text = Get(f)
    <2>1. /\ Length(Get(f)) <= Length(Object(f)) /\ Length(Object(f)) < Capacity
          /\ Length(Get(f)) \in Nat /\ Length(Object(f)) \in Nat /\ Capacity \in Nat
      <3>1. Get(f) \in Message /\ Object(f) \in Message
        BY DEF Message, Request
      <3>2. QED BY <1>1, <3>1, SimulationAssumption, LengthAssumption DEF Fits
    <2>2. QED BY <1>2, <2>1 DEF Fits
  <1>4. Object(f) # Objects /\ \A g : (Object(f) = Object(g) <=> f = g) /\ Object(f)[2] = f
    BY DEF Object, Objects
  <1>5. Get(f) # AskObjects /\ \A g : (Get(f) = Get(g) <=> f = g) /\ Get(f)[2] = f
    BY DEF Get, AskObjects
  <1>6. CASE f \in OnDisk
    <2>1. buildAnswer(server.text) = Drawing(f)
      BY <1>3, <1>5, <1>6 DEF buildAnswer
    <2>2. Answer(client.request) = HttpFigure(Drawing(f))
      <3>1. /\ Object(f) \in {Object(g) : g \in Listed \cap OnDisk}
            /\ Object(f) \notin {Object(g) : g \in Listed \ OnDisk}
        BY <1>1, <1>4, <1>6
      <3>2. QED BY <1>1, <1>4, <3>1 DEF Answer
    <2>3. text = Drawing(f)
      <3>1. Drawing(f) \in Message /\ HttpFigure(Drawing(f)) \in Message
        BY DEF Message, Ok
      <3>2. Length(Drawing(f)) <= Length(HttpFigure(Drawing(f)))
        BY LengthAssumption
      <3>3. Fits(Drawing(f))
        BY <2>2, <3>1, <3>2, SimulationAssumption DEF Fits
      <3>4. QED BY <2>1, <3>3
    <2>4. Drawing(f) \in Ok /\ Drawing(f) \notin Errors \cup Request \cup {Broken}
      BY DEF Drawing, Ok, Errors, Error, Request, Broken, Objects, Other, Object
    <2>5. QED BY <2>2, <2>3, <2>4 DEF buildResponse
  <1>7. CASE f \notin OnDisk
    <2>1. buildAnswer(server.text) = Error(201)
      BY <1>3, <1>5, <1>7 DEF buildAnswer
    <2>2. Answer(client.request) = HttpErrorCode
      <3>1. /\ Object(f) \notin {Object(g) : g \in Listed \cap OnDisk}
            /\ Object(f) \in {Object(g) : g \in Listed \ OnDisk}
        BY <1>1, <1>4, <1>7
      <3>2. QED BY <1>1, <1>4, <3>1 DEF Answer
    <2>3. text = Error(201)
      <3>1. Error(201) \in Message /\ HttpErrorCode \in Message
        BY DEF Message, Errors
      <3>2. Length(Error(201)) <= Length(HttpErrorCode)
        BY LengthAssumption
      <3>3. Fits(Error(201))
        BY <2>2, <3>1, <3>2, SimulationAssumption DEF Fits
      <3>4. QED BY <2>1, <3>3
    <2>4. Error(201) \in Errors /\ Error(201) \notin Ok \cup Request \cup {Broken}
      BY DEF Drawing, Names, Ok, Errors, Error, Request, Broken, Objects, Other, Object
    <2>5. QED BY <2>2, <2>3, <2>4 DEF buildResponse
  <1>8. QED BY <1>6, <1>7

LEMMA BeginsStep ==
  ASSUME TypeOK, Begins, Next
  PROVE  Asking' /\ finished' = finished
  <1>1. TenedorStart
    <2>1. TenedorStep
      BY Blocked DEF Begins, Next
    <2>2. QED
      BY <2>1
      DEF Begins, Threads, TenedorStep, TenedorStart, TenedorSignalServer, TenedorSignalClient,
          TenedorWait, TenedorList, TenedorCheck, TenedorServe, TenedorReadServer, TenedorAnswer
  <1>2. Contains(AskObjects)'
    BY <1>1, MessagesWritten, WriteContains DEF Begins, TenedorStart
  <1>3. /\ tenedor'.pc = "signalServer" /\ ~tenedor'.loaded
        /\ UNCHANGED <<semaphore, finished, client, server>>
    BY <1>1 DEF TenedorStart, Begins, TypeOK
  <1>4. QED
    BY <1>2, <1>3 DEF Asking, Begins, Threads, ForList, Question

\* The book-keeper remembers for whom it asks while the server answers.
LEMMA PurposeStays ==
  ASSUME ForList \/ ForFigure, UNCHANGED client, tenedor'.loaded = tenedor.loaded,
         tenedor'.figures = tenedor.figures, tenedor'.text = tenedor.text
  PROVE  (ForList \/ ForFigure)' /\ Question' = Question
  BY DEF ForList, ForFigure, Question, Loaded

\* What is asked is a message.
LEMMA QuestionTyped ==
  ASSUME TypeOK, ForList \/ ForFigure
  PROVE  Question \in Message
  <1>1. CASE ForList
    BY <1>1, MessagesWritten DEF ForList, Question
  <1>2. CASE ForFigure
    <2>1. PICK f \in Figure : tenedor.text = Object(f)
      BY <1>2, SimulationAssumption DEF ForFigure, TypeOK
    <2>2. Question = Get(f)
      <3>1. Object(f)[2] = f
        BY DEF Object
      <3>2. QED BY <1>2, <2>1, <3>1 DEF ForFigure, Loaded, Question
    <2>3. QED BY <2>2, MessagesWritten
  <1>3. QED BY <1>1, <1>2

LEMMA AskingStep ==
  ASSUME TypeOK, Asking, ~finished, Next
  PROVE  (Asking' \/ Answering') /\ finished' = finished
  <1> USE DEF Thread
  <1>1. client.pc \in {"start", "wait"} /\ Question \in Message
    BY QuestionTyped DEF Asking, ForList, ForFigure
  <1>2. CASE Threads(client.pc, "signalServer", "wait", "nobody")
    <2>1. TenedorSignalServer
      <3>1. TenedorStep
        BY <1>1, <1>2, Blocked DEF Next
      <3>2. QED
        BY <1>2, <3>1
        DEF Threads, TenedorStep, TenedorStart, TenedorSignalServer, TenedorSignalClient,
          TenedorWait, TenedorList, TenedorCheck, TenedorServe, TenedorReadServer, TenedorAnswer
    <2>2. /\ tenedor'.pc = "waitServer" /\ UNCHANGED <<finished, client, server>>
          /\ tenedor'.loaded = tenedor.loaded /\ tenedor'.figures = tenedor.figures
          /\ tenedor'.text = tenedor.text /\ UNCHANGED <<buffer, writeIndex, readIndex>>
      BY <2>1 DEF TenedorSignalServer, BufferUnchanged, TypeOK
    <2>3. Threads(client.pc, "waitServer", "wait", "server")'
      BY <1>2, <2>1, <2>2, Wakes DEF TenedorSignalServer, Threads
    <2>4. (ForList \/ ForFigure)' /\ Question' = Question
      BY <2>2, PurposeStays DEF Asking
    <2>5. Contains(Question)'
      <3>1. PICK q : q = Question /\ q = Question'
        BY <2>4
      <3>2. Contains(q)'
        BY <2>2, <3>1, ContainsStays DEF Asking
      <3>3. QED BY <3>1, <3>2 DEF Contains, At, Fits
    <2>6. QED BY <2>2, <2>3, <2>4, <2>5 DEF Asking
  <1>3. CASE Threads(client.pc, "waitServer", "wait", "server")
    <2>1. ServerWait
      <3>1. ServerStep
        BY <1>1, <1>3, Blocked DEF Next
      <3>2. QED BY <1>3, <3>1 DEF Threads, ServerStep, ServerWait, ServerCheck, ServerAnswer
    <2>2. /\ server'.pc = "check" /\ UNCHANGED <<finished, client, tenedor>>
          /\ UNCHANGED <<buffer, writeIndex, readIndex>>
      BY <2>1 DEF ServerWait, BufferUnchanged, TypeOK
    <2>3. Threads(client.pc, "waitServer", "check", "nobody")'
      BY <1>3, <2>1, <2>2, Wakes DEF ServerWait, Threads
    <2>4. (ForList \/ ForFigure)' /\ Question' = Question
      BY <2>2, PurposeStays DEF Asking
    <2>5. Contains(Question)'
      <3>1. PICK q : q = Question /\ q = Question'
        BY <2>4
      <3>2. Contains(q)'
        BY <2>2, <3>1, ContainsStays DEF Asking
      <3>3. QED BY <3>1, <3>2 DEF Contains, At, Fits
    <2>6. QED BY <2>2, <2>3, <2>4, <2>5 DEF Asking
  <1>4. CASE Threads(client.pc, "waitServer", "check", "nobody")
    <2>1. ServerCheck
      <3>1. ServerStep
        BY <1>1, <1>4, Blocked DEF Next
      <3>2. QED BY <1>4, <3>1 DEF Threads, ServerStep, ServerWait, ServerCheck, ServerAnswer
    <2>2. PICK text : read(text) /\ server' = [server EXCEPT !.pc = "answer", !.text = text]
      BY <2>1 DEF ServerCheck
    <2>3. /\ server'.pc = "answer" /\ server'.text = text
          /\ UNCHANGED <<semaphore, finished, client, tenedor>>
      BY <2>1, <2>2 DEF ServerCheck, TypeOK
    <2>4. Empty' /\ (Fits(Question) => text = Question)
      BY <1>1, <2>2, ReadContains DEF Asking
    <2>5. (ForList \/ ForFigure)' /\ Question' = Question
      BY <2>3, PurposeStays DEF Asking
    <2>6. Threads(client.pc, "waitServer", "answer", "nobody")'
      BY <1>4, <2>3 DEF Threads
    <2>7. QED BY <2>3, <2>4, <2>5, <2>6 DEF Answering, Fits
  <1>5. QED BY <1>2, <1>3, <1>4 DEF Asking

LEMMA AnsweringStep ==
  ASSUME TypeOK, Answering, Next
  PROVE  Answered' /\ finished' = finished
  <1>1. client.pc \in {"start", "wait"}
    BY DEF Answering, ForList, ForFigure
  <1>2. ServerAnswer /\ server.pc = "answer"
    <2>1. ServerStep
      BY <1>1, Blocked DEF Answering, Next
    <2>2. QED
      BY <2>1 DEF Answering, Threads, ServerStep, ServerWait, ServerCheck, ServerAnswer
  <1>3. /\ server'.pc = "signal" /\ server'.text = server.text /\ write(buildAnswer(server.text))
        /\ UNCHANGED <<semaphore, finished, client, tenedor>>
    BY <1>2 DEF ServerAnswer, TypeOK
  <1>4. PICK m \in Message : m = buildAnswer(server.text) /\ m = buildAnswer(server'.text)
    BY <1>3, MessagesWritten DEF TypeOK
  <1>5. Contains(m)'
    BY <1>3, <1>4, WriteContains DEF Answering
  <1>6. Contains(buildAnswer(server.text))'
    BY <1>4, <1>5 DEF Contains, At, Fits
  <1>7. (ForList \/ ForFigure)' /\ Question' = Question
    BY <1>3, PurposeStays DEF Answering
  <1>8. Threads(client.pc, "waitServer", "signal", "nobody")'
    BY <1>3 DEF Answering, Threads
  <1>9. QED BY <1>3, <1>6, <1>7, <1>8 DEF Answered, Answering, Fits

LEMMA AnsweredStep ==
  ASSUME TypeOK, Answered, Next
  PROVE  (Answered' \/ Listens' \/ Responding') /\ finished' = finished
  <1> USE DEF Thread
  <1>1. /\ client.pc \in {"start", "wait"} /\ Question \in Message
        /\ Fits(Question) => server.text = Question
        /\ Contains(buildAnswer(server.text))
    BY QuestionTyped DEF Answered, ForList, ForFigure
  <1>2. PICK m \in Message : m = buildAnswer(server.text)
    BY MessagesWritten DEF TypeOK
  \* A step that passes the turn on.
  <1>3. ASSUME UNCHANGED <<finished, client, buffer, writeIndex, readIndex>>,
               tenedor'.loaded = tenedor.loaded, tenedor'.figures = tenedor.figures,
               tenedor'.text = tenedor.text, server'.text = server.text
        PROVE  /\ (ForList \/ ForFigure)' /\ (Fits(Question) => server.text = Question)'
               /\ Contains(buildAnswer(server.text))'
    <2>1. (ForList \/ ForFigure)' /\ Question' = Question
      BY <1>3, PurposeStays DEF Answered
    <2>2. Contains(m)' /\ m = buildAnswer(server'.text)
      BY <1>1, <1>2, <1>3, ContainsStays
    <2>3. Contains(buildAnswer(server.text))'
      BY <2>2 DEF Contains, At, Fits
    <2>4. QED BY <1>1, <1>3, <2>1, <2>3 DEF Fits
  <1>4. CASE Threads(client.pc, "waitServer", "signal", "nobody")
    <2>1. ServerAnswer /\ server.pc = "signal"
      <3>1. ServerStep
        BY <1>1, <1>4, Blocked DEF Next
      <3>2. QED BY <1>4, <3>1 DEF Threads, ServerStep, ServerWait, ServerCheck, ServerAnswer
    <2>2. /\ server'.pc = "wait" /\ server'.text = server.text /\ signal("tenedor")
          /\ UNCHANGED <<finished, client, tenedor, buffer, writeIndex, readIndex>>
      BY <2>1 DEF ServerAnswer, BufferUnchanged, TypeOK
    <2>3. Threads(client.pc, "waitServer", "wait", "tenedor")'
      BY <1>4, <2>2, Wakes DEF Threads
    <2>4. QED BY <1>3, <2>2, <2>3 DEF Answered
  <1>5. CASE Threads(client.pc, "waitServer", "wait", "tenedor")
    <2>1. TenedorWait /\ tenedor.pc = "waitServer"
      <3>1. TenedorStep
        BY <1>1, <1>5, Blocked DEF Next
      <3>2. QED
        BY <1>5, <3>1
        DEF Threads, TenedorStep, TenedorStart, TenedorSignalServer, TenedorSignalClient,
          TenedorWait, TenedorList, TenedorCheck, TenedorServe, TenedorReadServer, TenedorAnswer
    <2>2. /\ tenedor'.pc = "readServer" /\ wait("tenedor")
          /\ UNCHANGED <<finished, client, server, buffer, writeIndex, readIndex>>
          /\ tenedor'.loaded = tenedor.loaded /\ tenedor'.figures = tenedor.figures
          /\ tenedor'.text = tenedor.text
      BY <2>1 DEF TenedorWait, BufferUnchanged, TypeOK
    <2>3. Threads(client.pc, "readServer", "wait", "nobody")'
      BY <1>5, <2>2, Wakes DEF Threads
    <2>4. QED BY <1>3, <2>2, <2>3 DEF Answered
  <1>6. CASE Threads(client.pc, "readServer", "wait", "nobody")
    <2>1. TenedorList \/ TenedorReadServer
      <3>1. TenedorStep
        BY <1>1, <1>6, Blocked DEF Next
      <3>2. QED
        BY <1>6, <3>1
        DEF Threads, TenedorStep, TenedorStart, TenedorSignalServer, TenedorSignalClient,
          TenedorWait, TenedorList, TenedorCheck, TenedorServe, TenedorReadServer, TenedorAnswer
    <2>2. CASE TenedorList
      <3>1. PICK text :
              /\ read(text)
              /\ tenedor' = [tenedor EXCEPT !.pc = "signalClient", !.loaded = TRUE,
                               !.figures = IF text = Names THEN Listed ELSE {}]
        BY <2>2 DEF TenedorList
      <3>2. /\ tenedor'.pc = "signalClient" /\ tenedor'.loaded
            /\ tenedor'.figures = IF text = Names THEN Listed ELSE {}
            /\ UNCHANGED <<semaphore, finished, client, server>>
        BY <2>2, <3>1 DEF TenedorList, TypeOK
      <3>3. ForList
        BY <2>2 DEF TenedorList, Answered, ForFigure, Loaded
      <3>4. Empty' /\ (Fits(m) => text = m)
        BY <1>1, <1>2, <3>1, ReadContains
      <3>5. Fits(Names) => text = Names
        <4>1. ASSUME Fits(Names) PROVE Fits(AskObjects)
          <5>1. AskObjects \in Message /\ Names \in Message
            BY DEF Message, Ok
          <5>2. Length(AskObjects) <= Length(Names)
            BY LengthAssumption
          <5>3. QED BY <4>1, <5>1, <5>2, SimulationAssumption DEF Fits
        <4>2. Question = AskObjects
          BY <3>3 DEF ForList, Question
        <4>3. Fits(Names) => m = Names
          BY <1>1, <1>2, <4>1, <4>2 DEF buildAnswer
        <4>4. QED BY <3>4, <4>3
      <3>6. Loaded'
        BY <3>2, <3>5 DEF Loaded, Fits
      <3>7. Threads("start", "signalClient", "wait", "nobody")'
        BY <1>6, <3>2, <3>3 DEF Threads, ForList
      <3>8. QED BY <3>2, <3>4, <3>6, <3>7 DEF Listens
    <2>3. CASE TenedorReadServer
      <3>1. PICK text :
              read(text) /\ tenedor' = [tenedor EXCEPT !.pc = "answer", !.text = text]
        BY <2>3 DEF TenedorReadServer
      <3>2. /\ tenedor'.pc = "answer" /\ tenedor'.text = text
            /\ tenedor'.loaded = tenedor.loaded /\ tenedor'.figures = tenedor.figures
            /\ UNCHANGED <<semaphore, finished, client, server>>
        BY <2>3, <3>1 DEF TenedorReadServer, TypeOK
      <3>3. ForFigure
        BY <2>3 DEF TenedorReadServer, Answered, ForList
      <3>4. Empty' /\ (Fits(m) => text = m)
        BY <1>1, <1>2, <3>1, ReadContains
      <3>5. Right(buildResponse(text))
        BY <1>1, <1>2, <3>3, <3>4, RightAnswer
      <3>6. Right(buildResponse(tenedor.text))'
        BY <3>2, <3>5 DEF Right, Fits
      <3>7. Threads("wait", "answer", "wait", "nobody")' /\ Loaded'
        BY <1>6, <3>2, <3>3 DEF Threads, ForFigure, Loaded
      <3>8. QED BY <3>2, <3>4, <3>6, <3>7 DEF Responding
    <2>4. QED BY <2>1, <2>2, <2>3
  <1>7. QED BY <1>4, <1>5, <1>6 DEF Answered

LEMMA ListensStep ==
  ASSUME TypeOK, Listens, Next
  PROVE  \/ Listens' /\ finished' = finished
         \/ Requested' /\ finished' = finished
         \/ Ends' /\ finished'
  <1> USE DEF Thread
  <1>1. CASE Threads("start", "signalClient", "wait", "nobody")
    <2>1. TenedorSignalClient
      <3>1. TenedorStep
        BY <1>1, Blocked DEF Next
      <3>2. QED
        BY <1>1, <3>1
        DEF Threads, TenedorStep, TenedorStart, TenedorSignalServer, TenedorSignalClient,
          TenedorWait, TenedorList, TenedorCheck, TenedorServe, TenedorReadServer, TenedorAnswer
    <2>2. /\ tenedor'.pc = "waitClient" /\ signal("client")
          /\ tenedor'.loaded = tenedor.loaded /\ tenedor'.figures = tenedor.figures
          /\ UNCHANGED <<finished, client, server, writeIndex, readIndex>>
      BY <2>1 DEF TenedorSignalClient, BufferUnchanged, TypeOK
    <2>3. Threads("start", "waitClient", "wait", "client")'
      BY <1>1, <2>2, Wakes DEF Threads
    <2>4. QED BY <2>2, <2>3 DEF Listens, Loaded, Empty
  <1>2. CASE Threads("start", "waitClient", "wait", "client")
    <2>1. ClientWait /\ client.pc = "start"
      <3>1. ClientStep
        BY <1>2, Blocked DEF Next
      <3>2. QED
        BY <1>2, <3>1
        DEF Threads, ClientStep, ClientWait, ClientAsk, ClientExit, ClientSignal, ClientRead
    <2>2. /\ client'.pc = "ask" /\ wait("client")
          /\ UNCHANGED <<finished, tenedor, server, writeIndex, readIndex>>
      BY <2>1 DEF ClientWait, BufferUnchanged, TypeOK
    <2>3. Threads("ask", "waitClient", "wait", "nobody")'
      BY <1>2, <2>2, Wakes DEF Threads
    <2>4. QED BY <2>2, <2>3 DEF Listens, Loaded, Empty
  <1>3. CASE Threads("ask", "waitClient", "wait", "nobody")
    <2>1. ClientAsk \/ ClientExit
      <3>1. ClientStep
        BY <1>3, Blocked DEF Next
      <3>2. QED
        BY <1>3, <3>1
        DEF Threads, ClientStep, ClientWait, ClientAsk, ClientExit, ClientSignal, ClientRead
    <2>2. CASE ClientAsk
      <3>1. PICK r \in Request :
              write(r) /\ client' = [client EXCEPT !.pc = "signal", !.request = r]
        BY <2>2 DEF ClientAsk
      <3>2. /\ client'.pc = "signal" /\ client'.request = r
            /\ UNCHANGED <<semaphore, finished, tenedor, server>>
        BY <2>2, <3>1 DEF ClientAsk, TypeOK
      <3>3. Contains(r)'
        BY <3>1, MessagesWritten, WriteContains DEF Listens
      <3>4. Contains(client.request)'
        BY <3>2, <3>3 DEF Contains, At, Fits
      <3>5. Threads("signal", "waitClient", "wait", "nobody")'
        BY <1>3, <3>2 DEF Threads
      <3>6. QED BY <3>2, <3>4, <3>5 DEF Listens, Requested, Loaded
    <2>3. CASE ClientExit
      <3>1. /\ client'.pc = "bye" /\ finished' = TRUE /\ UNCHANGED <<semaphore, tenedor, server>>
        BY <2>3 DEF ClientExit, TypeOK
      <3>2. Threads("bye", "waitClient", "wait", "nobody")'
        BY <1>3, <3>1 DEF Threads
      <3>3. QED BY <3>1, <3>2 DEF Ends
    <2>4. QED BY <2>1, <2>2, <2>3
  <1>4. QED BY <1>1, <1>2, <1>3 DEF Listens

LEMMA RequestedStep ==
  ASSUME TypeOK, Requested, ~finished, Next
  PROVE  (Requested' \/ Serving') /\ finished' = finished
  <1> USE DEF Thread
  <1>1. PICK r \in Message : r = client.request
    BY MessagesWritten DEF TypeOK
  <1>2. ASSUME client'.request = client.request, UNCHANGED <<buffer, writeIndex, readIndex>>
        PROVE  Contains(client.request)'
    <2>1. Contains(r)' /\ r = client'.request
      BY <1>1, <1>2, ContainsStays DEF Requested
    <2>2. QED BY <2>1 DEF Contains, At, Fits
  <1>3. CASE Threads("signal", "waitClient", "wait", "nobody")
    <2>1. ClientSignal /\ client.pc = "signal"
      <3>1. ClientStep
        BY <1>3, Blocked DEF Next
      <3>2. QED
        BY <1>3, <3>1
        DEF Threads, ClientStep, ClientWait, ClientAsk, ClientExit, ClientSignal, ClientRead
    <2>2. /\ client'.pc = "wait" /\ client'.request = client.request /\ signal("tenedor")
          /\ UNCHANGED <<finished, tenedor, server, buffer, writeIndex, readIndex>>
      BY <2>1 DEF ClientSignal, BufferUnchanged, TypeOK
    <2>3. Threads("wait", "waitClient", "wait", "tenedor")'
      BY <1>3, <2>2, Wakes DEF Threads
    <2>4. QED BY <1>2, <2>2, <2>3 DEF Requested, Loaded
  <1>4. CASE Threads("wait", "waitClient", "wait", "tenedor")
    <2>1. TenedorWait /\ tenedor.pc = "waitClient"
      <3>1. TenedorStep
        BY <1>4, Blocked DEF Next
      <3>2. QED
        BY <1>4, <3>1
        DEF Threads, TenedorStep, TenedorStart, TenedorSignalServer, TenedorSignalClient,
          TenedorWait, TenedorList, TenedorCheck, TenedorServe, TenedorReadServer, TenedorAnswer
    <2>2. /\ tenedor'.pc = "check" /\ wait("tenedor")
          /\ UNCHANGED <<finished, client, server, buffer, writeIndex, readIndex>>
          /\ tenedor'.loaded = tenedor.loaded /\ tenedor'.figures = tenedor.figures
      BY <2>1 DEF TenedorWait, BufferUnchanged, TypeOK
    <2>3. Threads("wait", "check", "wait", "nobody")'
      BY <1>4, <2>2, Wakes DEF Threads
    <2>4. QED BY <1>2, <2>2, <2>3 DEF Requested, Loaded
  <1>5. CASE Threads("wait", "check", "wait", "nobody")
    <2>1. TenedorCheck
      <3>1. TenedorStep
        BY <1>5, Blocked DEF Next
      <3>2. QED
        BY <1>5, <3>1
        DEF Threads, TenedorStep, TenedorStart, TenedorSignalServer, TenedorSignalClient,
          TenedorWait, TenedorList, TenedorCheck, TenedorServe, TenedorReadServer, TenedorAnswer
    <2>2. PICK text : read(text) /\ tenedor' = [tenedor EXCEPT !.pc = "serve", !.text = text]
      BY <2>1 DEF TenedorCheck
    <2>3. /\ tenedor'.pc = "serve" /\ tenedor'.text = text
          /\ tenedor'.loaded = tenedor.loaded /\ tenedor'.figures = tenedor.figures
          /\ UNCHANGED <<semaphore, finished, client, server>>
      BY <2>1, <2>2 DEF TenedorCheck, TypeOK
    <2>4. Empty' /\ (Fits(r) => text = r)
      BY <1>1, <2>2, ReadContains DEF Requested
    <2>5. Threads("wait", "serve", "wait", "nobody")'
      BY <1>5, <2>3 DEF Threads
    <2>6. QED BY <1>1, <2>3, <2>4, <2>5 DEF Requested, Serving, Loaded, Fits
  <1>6. QED BY <1>3, <1>4, <1>5 DEF Requested

\* What is answered at once is right.
LEMMA AnswerAtOnce ==
  ASSUME TypeOK, Loaded, Fits(client.request) => tenedor.text = client.request,
         Asked(tenedor.text) = {}
  PROVE  Right(IF tenedor.text = Objects THEN Listing(tenedor.figures) ELSE HttpBadRequest)
  <1> SUFFICES ASSUME Fits(client.request), Fits(Names)
               PROVE  Answer(client.request)
                        = IF tenedor.text = Objects THEN Listing(tenedor.figures)
                                                    ELSE HttpBadRequest
    BY DEF Right
  <1>1. tenedor.text = client.request /\ tenedor.figures = Listed
    BY DEF Loaded
  <1>2. /\ client.request \notin {Object(f) : f \in Listed \cap OnDisk}
        /\ client.request \notin {Object(f) : f \in Listed \ OnDisk}
    BY <1>1 DEF Asked
  <1>3. QED BY <1>1, <1>2 DEF Answer

LEMMA ServingStep ==
  ASSUME TypeOK, Serving, Next
  PROVE  (Asking' \/ Responded') /\ finished' = finished
  <1>1. TenedorServe
    <2>1. TenedorStep
      BY Blocked DEF Serving, Next
    <2>2. QED
      BY <2>1
      DEF Serving, Threads, TenedorStep, TenedorStart, TenedorSignalServer, TenedorSignalClient,
          TenedorWait, TenedorList, TenedorCheck, TenedorServe, TenedorReadServer, TenedorAnswer
  <1>2. UNCHANGED <<semaphore, finished, client, server>>
    BY <1>1 DEF TenedorServe
  <1>3. /\ tenedor'.loaded = tenedor.loaded /\ tenedor'.figures = tenedor.figures
        /\ tenedor'.text = tenedor.text
    BY <1>1 DEF TenedorServe, TypeOK
  <1>4. Loaded'
    BY <1>3 DEF Serving, Loaded, Fits
  <1>5. CASE \E f \in Asked(tenedor.text) :
               write(Get(f)) /\ tenedor' = [tenedor EXCEPT !.pc = "signalServer"]
    <2>1. PICK f \in tenedor.figures : tenedor.text = Object(f) /\ write(Get(f))
      BY <1>5 DEF Asked
    <2>2. tenedor'.pc = "signalServer"
      BY <1>5 DEF TypeOK
    <2>3. Get(f) \in Message
      BY <2>1, MessagesWritten, SimulationAssumption DEF TypeOK
    <2>4. Contains(Get(f))'
      BY <2>1, <2>3, WriteContains DEF Serving
    <2>5. Question' = Get(f)
      <3>1. Object(f)[2] = f
        BY DEF Object
      <3>2. QED BY <1>3, <1>4, <2>1, <3>1 DEF Question, Loaded
    <2>6. Contains(Question)'
      BY <2>4, <2>5 DEF Contains, At, Fits
    <2>7. ForFigure'
      BY <1>2, <1>3, <1>4, <2>1 DEF ForFigure, Serving, Threads, Fits
    <2>8. Threads(client.pc, "signalServer", "wait", "nobody")'
      BY <1>2, <2>2 DEF Serving, Threads
    <2>9. QED BY <1>2, <2>6, <2>7, <2>8 DEF Asking
  <1>6. CASE /\ Asked(tenedor.text) = {}
             /\ write(IF tenedor.text = Objects THEN Listing(tenedor.figures)
                                                ELSE HttpBadRequest)
             /\ tenedor' = [tenedor EXCEPT !.pc = "signalClient"]
    <2>1. PICK m \in Message :
            m = IF tenedor.text = Objects THEN Listing(tenedor.figures) ELSE HttpBadRequest
      BY MessagesWritten DEF TypeOK
    <2>2. Right(m)
      BY <1>6, <2>1, AnswerAtOnce DEF Serving
    <2>3. Contains(m)'
      BY <1>6, <2>1, WriteContains DEF Serving
    <2>4. Right(m)'
      BY <1>2, <2>2 DEF Right, Fits
    <2>5. Threads("wait", "signalClient", "wait", "nobody")'
      BY <1>2, <1>6 DEF Serving, Threads, TypeOK
    <2>6. QED BY <1>2, <1>4, <2>3, <2>4, <2>5 DEF Responded
  <1>7. QED BY <1>1, <1>5, <1>6 DEF TenedorServe

LEMMA RespondingStep ==
  ASSUME TypeOK, Responding, Next
  PROVE  Responded' /\ finished' = finished
  <1>1. TenedorAnswer
    <2>1. TenedorStep
      BY Blocked DEF Responding, Next
    <2>2. QED
      BY <2>1
      DEF Responding, Threads, TenedorStep, TenedorStart, TenedorSignalServer, TenedorSignalClient,
          TenedorWait, TenedorList, TenedorCheck, TenedorServe, TenedorReadServer, TenedorAnswer
  <1>2. /\ write(buildResponse(tenedor.text)) /\ tenedor'.pc = "signalClient"
        /\ tenedor'.loaded = tenedor.loaded /\ tenedor'.figures = tenedor.figures
        /\ UNCHANGED <<semaphore, finished, client, server>>
    BY <1>1 DEF TenedorAnswer, TypeOK
  <1>3. PICK m \in Message : m = buildResponse(tenedor.text)
    BY MessagesWritten DEF TypeOK
  <1>4. Contains(m)'
    BY <1>2, <1>3, WriteContains DEF Responding
  <1>5. Right(m)'
    BY <1>2, <1>3 DEF Responding, Right, Fits
  <1>6. Threads("wait", "signalClient", "wait", "nobody")' /\ Loaded'
    BY <1>2 DEF Responding, Threads, Loaded, Fits
  <1>7. QED BY <1>2, <1>4, <1>5, <1>6 DEF Responded

LEMMA RespondedStep ==
  ASSUME TypeOK, Responded, Next
  PROVE  (Responded' \/ Listens') /\ finished' = finished
  <1> USE DEF Thread
  <1>1. PICK m \in Message : Right(m) /\ Contains(m)
    BY DEF Responded
  \* A step that passes the turn on.
  <1>2. ASSUME UNCHANGED <<buffer, writeIndex, readIndex>>, client'.request = client.request,
               tenedor'.loaded = tenedor.loaded, tenedor'.figures = tenedor.figures
        PROVE  Loaded' /\ \E r \in Message : Right(r)' /\ Contains(r)'
    <2>1. Contains(m)'
      BY <1>1, <1>2, ContainsStays
    <2>2. Right(m)' /\ Loaded'
      BY <1>1, <1>2 DEF Right, Responded, Loaded, Fits
    <2>3. QED BY <2>1, <2>2
  <1>3. CASE Threads("wait", "signalClient", "wait", "nobody")
    <2>1. TenedorSignalClient
      <3>1. TenedorStep
        BY <1>3, Blocked DEF Next
      <3>2. QED
        BY <1>3, <3>1
        DEF Threads, TenedorStep, TenedorStart, TenedorSignalServer, TenedorSignalClient,
          TenedorWait, TenedorList, TenedorCheck, TenedorServe, TenedorReadServer, TenedorAnswer
    <2>2. /\ tenedor'.pc = "waitClient" /\ signal("client")
          /\ tenedor'.loaded = tenedor.loaded /\ tenedor'.figures = tenedor.figures
          /\ UNCHANGED <<finished, client, server, buffer, writeIndex, readIndex>>
      BY <2>1 DEF TenedorSignalClient, BufferUnchanged, TypeOK
    <2>3. Threads("wait", "waitClient", "wait", "client")'
      BY <1>3, <2>2, Wakes DEF Threads
    <2>4. QED BY <1>2, <2>2, <2>3 DEF Responded
  <1>4. CASE Threads("wait", "waitClient", "wait", "client")
    <2>1. ClientWait /\ client.pc = "wait"
      <3>1. ClientStep
        BY <1>4, Blocked DEF Next
      <3>2. QED
        BY <1>4, <3>1
        DEF Threads, ClientStep, ClientWait, ClientAsk, ClientExit, ClientSignal, ClientRead
    <2>2. /\ client'.pc = "read" /\ client'.request = client.request /\ wait("client")
          /\ UNCHANGED <<finished, tenedor, server, buffer, writeIndex, readIndex>>
      BY <2>1 DEF ClientWait, BufferUnchanged, TypeOK
    <2>3. Threads("read", "waitClient", "wait", "nobody")'
      BY <1>4, <2>2, Wakes DEF Threads
    <2>4. QED BY <1>2, <2>2, <2>3 DEF Responded
  <1>5. CASE Threads("read", "waitClient", "wait", "nobody")
    <2>1. ClientRead
      <3>1. ClientStep
        BY <1>5, Blocked DEF Next
      <3>2. QED
        BY <1>5, <3>1
        DEF Threads, ClientStep, ClientWait, ClientAsk, ClientExit, ClientSignal, ClientRead
    <2>2. PICK text : read(text) /\ client' = [client EXCEPT !.pc = "ask", !.response = text]
      BY <2>1 DEF ClientRead
    <2>3. client'.pc = "ask" /\ UNCHANGED <<semaphore, finished, tenedor, server>>
      BY <2>1, <2>2 DEF ClientRead, TypeOK
    <2>4. Empty'
      BY <1>1, <2>2, ReadContains
    <2>5. Threads("ask", "waitClient", "wait", "nobody")' /\ Loaded'
      BY <1>5, <2>3 DEF Threads, Responded, Loaded, Fits
    <2>6. QED BY <2>3, <2>4, <2>5 DEF Listens
  <1>6. QED BY <1>3, <1>4, <1>5 DEF Responded

LEMMA EndsStep ==
  ASSUME TypeOK, Ends, finished, Next
  PROVE  Ends' /\ finished'
  <1> USE DEF Thread
  <1>1. CASE Threads("bye", "waitClient", "wait", "nobody")
    <2>1. ClientSignal /\ client.pc = "bye"
      <3>1. ClientStep
        BY <1>1, Blocked DEF Next
      <3>2. QED
        BY <1>1, <3>1
        DEF Threads, ClientStep, ClientWait, ClientAsk, ClientExit, ClientSignal, ClientRead
    <2>2. client'.pc = "ended" /\ signal("tenedor") /\ UNCHANGED <<finished, tenedor, server>>
      BY <2>1 DEF ClientSignal, TypeOK
    <2>3. Threads("ended", "waitClient", "wait", "tenedor")'
      BY <1>1, <2>2, Wakes DEF Threads
    <2>4. QED BY <2>2, <2>3 DEF Ends
  <1>2. CASE Threads("ended", "waitClient", "wait", "tenedor")
    <2>1. TenedorWait /\ tenedor.pc = "waitClient"
      <3>1. TenedorStep
        BY <1>2, Blocked DEF Next
      <3>2. QED
        BY <1>2, <3>1
        DEF Threads, TenedorStep, TenedorStart, TenedorSignalServer, TenedorSignalClient,
          TenedorWait, TenedorList, TenedorCheck, TenedorServe, TenedorReadServer, TenedorAnswer
    <2>2. tenedor'.pc = "check" /\ wait("tenedor") /\ UNCHANGED <<finished, client, server>>
      BY <2>1 DEF TenedorWait, TypeOK
    <2>3. Threads("ended", "check", "wait", "nobody")'
      BY <1>2, <2>2, Wakes DEF Threads
    <2>4. QED BY <2>2, <2>3 DEF Ends
  <1>3. CASE Threads("ended", "check", "wait", "nobody")
    <2>1. TenedorCheck
      <3>1. TenedorStep
        BY <1>3, Blocked DEF Next
      <3>2. QED
        BY <1>3, <3>1
        DEF Threads, TenedorStep, TenedorStart, TenedorSignalServer, TenedorSignalClient,
          TenedorWait, TenedorList, TenedorCheck, TenedorServe, TenedorReadServer, TenedorAnswer
    <2>2. tenedor'.pc = "ended" /\ UNCHANGED <<semaphore, finished, client, server>>
      BY <2>1 DEF TenedorCheck, TypeOK
    <2>3. Threads("ended", "ended", "wait", "nobody")'
      BY <1>3, <2>2 DEF Threads
    <2>4. QED BY <2>2, <2>3 DEF Ends
  <1>4. CASE Threads("ended", "ended", "wait", "nobody")
    BY <1>4, Blocked DEF Next
  <1>5. QED BY <1>1, <1>2, <1>3, <1>4 DEF Ends

LEMMA TurnInvStep == TypeOK /\ TurnInv /\ [Next]_vars => TurnInv'
  <1>1. ASSUME TypeOK, TurnInv, Next PROVE TurnInv'
    <2>1. CASE finished
      <3>1. Ends' /\ finished'
        BY <1>1, <2>1, EndsStep DEF TurnInv
      <3>2. QED BY <3>1 DEF TurnInv
    <2>2. CASE ~finished
      <3>1. CASE Begins
        BY <1>1, <2>2, <3>1, BeginsStep DEF TurnInv
      <3>2. CASE Asking
        BY <1>1, <2>2, <3>2, AskingStep DEF TurnInv
      <3>3. CASE Answering
        BY <1>1, <2>2, <3>3, AnsweringStep DEF TurnInv
      <3>4. CASE Answered
        BY <1>1, <2>2, <3>4, AnsweredStep DEF TurnInv
      <3>5. CASE Listens
        BY <1>1, <2>2, <3>5, ListensStep DEF TurnInv
      <3>6. CASE Requested
        BY <1>1, <2>2, <3>6, RequestedStep DEF TurnInv
      <3>7. CASE Serving
        BY <1>1, <2>2, <3>7, ServingStep DEF TurnInv
      <3>8. CASE Responding
        BY <1>1, <2>2, <3>8, RespondingStep DEF TurnInv
      <3>9. CASE Responded
        BY <1>1, <2>2, <3>9, RespondedStep DEF TurnInv
      <3>10. QED
        BY <1>1, <2>2, <3>1, <3>2, <3>3, <3>4, <3>5, <3>6, <3>7, <3>8, <3>9 DEF TurnInv
    <2>3. QED BY <2>1, <2>2
  <1>2. ASSUME TurnInv, UNCHANGED vars PROVE TurnInv'
    <2>1. UNCHANGED <<buffer, writeIndex, readIndex, semaphore, finished, client, tenedor, server>>
      BY <1>2 DEF vars, shared
    <2>2. QED
      BY <1>2, <2>1
      DEF TurnInv, Begins, Asking, Answering, Answered, Listens, Requested, Serving, Responding,
          Responded, Ends, Threads, Empty, Loaded, ForList, ForFigure, Question, Right, Contains,
          At, Fits
  <1>3. QED BY <1>1, <1>2

LEMMA TurnAlways == Spec => [](TypeOK /\ TurnInv)
  <1>1. Init => TurnInv
    <2> SUFFICES ASSUME Init PROVE TurnInv
      OBVIOUS
    <2>1. \A u \in Thread : semaphore[u] = IF u = "nobody" THEN 1 ELSE 0
      BY DEF Init, Thread
    <2>2. Begins
      BY <2>1 DEF Init, Begins, Threads, Empty
    <2>3. QED BY <2>2 DEF Init, TurnInv
  <1>2. QED BY <1>1, TurnInvStep, SimulationTyped, PTL DEF Spec

\* SharedMemory::write is called by Client::run, Tenedor::run and DrawingServer::run only
\* when everything written before has been read, however long the messages were.
THEOREM IndicesMeetAlways == Spec => []IndicesMeet
  <1>1. TypeOK /\ TurnInv => IndicesMeet
    BY DEF TurnInv, Begins, Asking, Answering, Answered, Listens, Requested, Serving, Responding,
           Responded, Ends, Threads, ForList, ForFigure, Empty, IndicesMeet
  <1>2. QED BY <1>1, TurnAlways, PTL

\* What Client::run reads is the answer to what it asked, if the request, the answer and
\* the server's list fit the buffer.
THEOREM AnswersFollow == Spec => FittingAnswersFollow
  <1>1. ASSUME TypeOK, TurnInv, Next, client.pc = "read", client'.pc = "ask",
               Fits(client.request), Fits(Answer(client.request)), Fits(Names)
        PROVE  client'.response = Answer(client.request)
    <2>1. Responded /\ Threads("read", "waitClient", "wait", "nobody")
      BY <1>1
      DEF TurnInv, Begins, Asking, Answering, Answered, Listens, Requested, Serving, Responding,
          Responded, Ends, Threads, ForList, ForFigure
    <2>2. ClientRead
      <3>1. ClientStep
        BY <1>1, <2>1, Blocked DEF Next
      <3>2. QED
        BY <1>1, <3>1 DEF ClientStep, ClientWait, ClientAsk, ClientExit, ClientSignal, ClientRead
    <2>3. PICK text : read(text) /\ client' = [client EXCEPT !.pc = "ask", !.response = text]
      BY <2>2 DEF ClientRead
    <2>4. PICK m \in Message : Right(m) /\ Contains(m)
      BY <2>1 DEF Responded
    <2>5. m = Answer(client.request)
      BY <1>1, <2>4 DEF Right
    <2>6. text = m
      BY <1>1, <2>3, <2>4, <2>5, ReadContains
    <2>7. QED BY <1>1, <2>3, <2>5, <2>6 DEF TypeOK
  <1>2. ASSUME TypeOK, TurnInv, [Next]_vars
        PROVE  [client.pc = "read" /\ client'.pc = "ask"
                  /\ Fits(client.request) /\ Fits(Answer(client.request)) /\ Fits(Names)
                  => client'.response = Answer(client.request)]_vars
    BY <1>1, <1>2
  <1>3. QED BY <1>2, TurnAlways, PTL DEF Spec, FittingAnswersFollow

===============================================================================
