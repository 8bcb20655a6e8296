------------------------ MODULE FigureServiceProofs ------------------------
(***************************************************************************)
(* Theorems about FigureService, for any number of browsers, book-keepers, *)
(* descriptors and figures of any length.                                  *)
(***************************************************************************)
EXTENDS FigureService, SequenceTheorems, TLAPS

-----------------------------------------------------------------------------
(* Sequences of parts                                                      *)

LEMMA StatusTyped ==
  /\ \A code \in {"OK", "200", "201", "300", "500"} : Status(code) \in Parts
  /\ Part("list", "none", 0) \in Parts /\ End \in Parts /\ Clipped \in Parts
  /\ \A f \in Figure, n \in Nat : Piece(f, n) \in Parts
  BY DEF Status, Part, End, Clipped, Piece, Parts

LEMMA TailProperties ==
  ASSUME NEW S, NEW s \in Seq(S), s # <<>>
  PROVE  /\ Len(s) \in Nat \ {0} /\ Head(s) = s[1] /\ Head(s) \in S
         /\ Tail(s) \in Seq(S) /\ Len(Tail(s)) = Len(s) - 1
         /\ \A k \in 1..(Len(s) - 1) : Tail(s)[k] = s[k + 1]
  <1>1. Len(s) \in Nat \ {0}
    BY EmptySeq
  <1>2. QED BY <1>1, HeadTailProperties

LEMMA PiecesTyped ==
  ASSUME NEW f \in Figure
  PROVE  Pieces(f) \in Seq(Parts) /\ Len(Pieces(f)) = Size[f] /\ Size[f] \in Nat \ {0}
  <1>1. Size[f] \in Nat \ {0}
    BY SocketAssumption
  <1>2. Pieces(f) \in [1..Size[f] -> Parts]
    BY StatusTyped, <1>1 DEF Pieces
  <1>3. QED BY <1>1, <1>2

LEMMA AnswerTyped ==
  ASSUME NEW r \in Ask
  PROVE  /\ Answer(r) \in Seq(Parts) /\ Len(Answer(r)) >= 2
         /\ Answer(r)[Len(Answer(r))] = End
         /\ \A k \in 1..Len(Answer(r)) : Answer(r)[k].what # "piece"
         /\ \A k \in 1..(Len(Answer(r)) - 1) : Answer(r)[k] # End
         /\ r.kind = "GET" => Answer(r) = <<Status("201"), End>>
  <1>1. CASE r.kind = "OBJECTS"
    <2>1. Answer(r) = <<Status("OK"), Part("list", "none", 0), End>>
      BY <1>1 DEF Answer
    <2>2. QED BY <1>1, <2>1, StatusTyped DEF Status, Part, End
  <1>2. CASE r.kind = "GET"
    <2>1. Answer(r) = <<Status("201"), End>>
      BY <1>2 DEF Answer
    <2>2. QED BY <1>2, <2>1, StatusTyped DEF Status, Part, End
  <1>3. CASE r.kind \notin {"OBJECTS", "GET"}
    <2>1. Answer(r) = <<Status("300"), End>>
      BY <1>3 DEF Answer
    <2>2. QED BY <1>3, <2>1, StatusTyped DEF Status, Part, End
  <1>4. QED BY <1>1, <1>2, <1>3

\* A figure is answered with a status, its pieces and an end.
LEMMA FigureAnswer ==
  ASSUME NEW r \in Ask, r.kind = "GET", r.name \in Figure
  PROVE  /\ Whole(r) \in Seq(Parts) /\ Len(Whole(r)) = Size[r.name] + 2
         /\ Whole(r)[1] = Status("OK") /\ Whole(r)[Size[r.name] + 2] = End
         /\ \A k \in 1..Size[r.name] : Whole(r)[k + 1] = Piece(r.name, k)
  <1>1. PICK f \in Figure : f = r.name
    OBVIOUS
  <1>2. Pieces(f) \in Seq(Parts) /\ Len(Pieces(f)) = Size[f] /\ Size[f] \in Nat \ {0}
    BY PiecesTyped
  <1> DEFINE front == <<Status("OK")>> \o Pieces(f)
             back == <<End>>
  <1>3. /\ <<Status("OK")>> \in Seq(Parts) /\ Len(<<Status("OK")>>) = 1
        /\ back \in Seq(Parts) /\ Len(back) = 1 /\ back[1] = End
    BY StatusTyped
  <1>4. /\ front \in Seq(Parts) /\ Len(front) = Size[f] + 1
        /\ front[1] = Status("OK") /\ \A k \in 1..Size[f] : front[k + 1] = Piece(f, k)
    <2>1. /\ front \in Seq(Parts) /\ Len(front) = 1 + Size[f]
          /\ \A i \in 1..(1 + Size[f]) :
               front[i] = IF i <= 1 THEN <<Status("OK")>>[i] ELSE Pieces(f)[i - 1]
      BY <1>2, <1>3, ConcatProperties
    <2>2. \A k \in 1..Size[f] : front[k + 1] = Piece(f, k)
      BY <1>2, <2>1 DEF Pieces
    <2>3. QED BY <1>2, <2>1, <2>2
  <1>5. Whole(r) = front \o back
    BY <1>1 DEF Whole
  <1> HIDE DEF front, back
  <1>6. PICK w : w = front \o back
    OBVIOUS
  <1>7. /\ w \in Seq(Parts) /\ Len(w) = Len(front) + Len(back)
        /\ \A i \in 1..(Len(front) + Len(back)) :
             w[i] = IF i <= Len(front) THEN front[i] ELSE back[i - Len(front)]
    <2>1. /\ front \o back \in Seq(Parts) /\ Len(front \o back) = Len(front) + Len(back)
          /\ \A i \in 1..(Len(front) + Len(back)) :
               (front \o back)[i] = IF i <= Len(front) THEN front[i] ELSE back[i - Len(front)]
      BY <1>3, <1>4, ConcatProperties
    <2>2. QED BY <1>6, <2>1
  <1>8. Len(w) = Size[f] + 2 /\ w[Size[f] + 2] = End /\ w[1] = Status("OK")
    <2>1. PICK n \in Nat \ {0} : n = Size[f]
      BY <1>2
    <2>2. Len(front) = n + 1 /\ Len(back) = 1 /\ Len(front) + Len(back) = n + 2
      BY <1>3, <1>4, <2>1
    <2>3. n + 2 \in 1..(n + 2) /\ 1 \in 1..(n + 2) /\ n + 2 - (n + 1) = 1 /\ ~(n + 2 <= n + 1)
      BY <2>1
    <2>4. w[n + 2] = back[n + 2 - (n + 1)] /\ w[1] = front[1]
      BY <1>7, <2>2, <2>3
    <2>5. QED BY <1>3, <1>4, <1>7, <2>1, <2>2, <2>3, <2>4
  <1>9. ASSUME NEW k \in 1..Size[f]
        PROVE  w[k + 1] = Piece(f, k)
    <2>1. PICK n \in Nat \ {0} : n = Size[f]
      BY <1>2
    <2>2. Len(front) = n + 1 /\ Len(back) = 1 /\ Len(front) + Len(back) = n + 2
      BY <1>3, <1>4, <2>1
    <2>3. k + 1 \in 1..(n + 2) /\ k + 1 <= n + 1
      BY <2>1
    <2>4. w[k + 1] = front[k + 1]
      BY <1>7, <2>2, <2>3
    <2>5. QED BY <1>4, <2>4
  <1>10. QED BY <1>1, <1>5, <1>6, <1>7, <1>8, <1>9

\* An answer ends where it should, and nowhere before unless the text of a figure does.
LEMMA WholeProperties ==
  ASSUME NEW r \in Ask
  PROVE  /\ Whole(r) \in Seq(Parts) /\ Len(Whole(r)) >= 2
         /\ HasEnd(Whole(r)[Len(Whole(r))])
         /\ \A k \in 1..(Len(Whole(r)) - 1) : HasEnd(Whole(r)[k]) => r.name \in EndWithin
  <1>1. CASE r.kind = "GET" /\ r.name \in Figure
    <2>1. /\ Whole(r) \in Seq(Parts) /\ Len(Whole(r)) = Size[r.name] + 2
          /\ Whole(r)[1] = Status("OK") /\ Whole(r)[Size[r.name] + 2] = End
          /\ \A k \in 1..Size[r.name] : Whole(r)[k + 1] = Piece(r.name, k)
      BY <1>1, FigureAnswer
    <2>2. Size[r.name] \in Nat \ {0}
      BY <1>1, SocketAssumption
    <2>3. ~HasEnd(Status("OK"))
      BY DEF HasEnd, Status, Part, End
    <2>4. \A n \in Nat : HasEnd(Piece(r.name, n)) => r.name \in EndWithin
      BY DEF HasEnd, Piece, Part, End
    <2>5. ASSUME NEW k \in 1..(Len(Whole(r)) - 1), HasEnd(Whole(r)[k])
          PROVE  r.name \in EndWithin
      <3>1. k # 1
        BY <2>1, <2>3, <2>5
      <3>2. k - 1 \in 1..Size[r.name] /\ (k - 1) + 1 = k
        BY <2>1, <2>2, <3>1
      <3>3. Whole(r)[k] = Piece(r.name, k - 1) /\ k - 1 \in Nat
        BY <2>1, <3>2
      <3>4. QED BY <2>4, <2>5, <3>3
    <2>6. QED BY <2>1, <2>2, <2>5 DEF HasEnd
  <1>2. CASE ~(r.kind = "GET" /\ r.name \in Figure)
    <2>1. Whole(r) = Answer(r)
      BY <1>2 DEF Whole
    <2>2. QED BY <2>1, AnswerTyped DEF HasEnd
  <1>3. QED BY <1>1, <1>2

-----------------------------------------------------------------------------
(* Type correctness                                                        *)

LEMMA StartsTyped == TypeOK /\ Starts => TypeOK'
  <1> SUFFICES ASSUME TypeOK, Starts PROVE TypeOK'
    OBVIOUS
  <1>1. PICK p \in Process, to \in {"built", "bound", "up", "dead"} :
          /\ life' = [life EXCEPT ![p] = to]
          /\ UNCHANGED <<waiting, fds, handler, wire, asker, http, browser>>
    BY DEF Starts, BuildSocket, Bind, BindThrows, MarkPassive, Becomes, serverVars
  <1>2. QED BY <1>1 DEF TypeOK

\* A queue of connections loses its first.
LEMMA TakeTyped ==
  ASSUME TypeOK, NEW p \in Process, waiting[p] # <<>>, Take(p)
  PROVE  /\ DOMAIN waiting' = Process
         /\ waiting'["server"] \in Seq(Peer) /\ waiting'["keeper"] \in Seq(Browser)
         /\ waiting'[p] = Tail(waiting[p])
         /\ \A q \in Process \ {p} : waiting'[q] = waiting[q]
         /\ p = "server" => Head(waiting[p]) \in Peer
         /\ p = "keeper" => Head(waiting[p]) \in Browser
  <1>1. /\ DOMAIN waiting = Process
        /\ waiting["server"] \in Seq(Peer) /\ waiting["keeper"] \in Seq(Browser)
    BY DEF TypeOK
  <1>2. /\ DOMAIN waiting' = Process /\ waiting'[p] = Tail(waiting[p])
        /\ \A q \in Process \ {p} : waiting'[q] = waiting[q]
    BY <1>1 DEF Take
  <1>3. CASE p = "server"
    <2>1. Tail(waiting["server"]) \in Seq(Peer) /\ Head(waiting["server"]) \in Peer
      BY <1>1, <1>3, TailProperties
    <2>2. waiting'["keeper"] = waiting["keeper"]
      BY <1>2, <1>3 DEF Process
    <2>3. QED BY <1>1, <1>2, <1>3, <2>1, <2>2
  <1>4. CASE p = "keeper"
    <2>1. Tail(waiting["keeper"]) \in Seq(Browser) /\ Head(waiting["keeper"]) \in Browser
      BY <1>1, <1>4, TailProperties
    <2>2. waiting'["server"] = waiting["server"]
      BY <1>2, <1>4 DEF Process
    <2>3. QED BY <1>1, <1>2, <1>4, <2>1, <2>2
  <1>5. QED BY <1>2, <1>3, <1>4 DEF Process

Handlers == [at : {"none", "refused", "read", "handle", "block", "write", "end"},
             block : Nat, out : Seq(Parts), broken : BOOLEAN]
Askers == [at : {"absent", "idle", "connecting", "connected", "open", "done", "failed"},
           sent : BOOLEAN, got : Seq(Parts), ask : Ask]

LEMMA HeardTyped ==
  ASSUME NEW a \in Askers
  PROVE  Heard(a) \in Ask
  BY DEF Askers, Heard, NoQuestion, Ask

LEMMA HandlersTyped ==
  TypeOK => /\ handler \in [Peer -> Handlers] /\ asker \in [Peer -> Askers]
            /\ \A c \in Peer : Requested(c) = Heard(asker[c]) /\ Requested(c) \in Ask
  <1> SUFFICES ASSUME TypeOK
               PROVE  /\ handler \in [Peer -> Handlers] /\ asker \in [Peer -> Askers]
                      /\ \A c \in Peer : Requested(c) = Heard(asker[c]) /\ Requested(c) \in Ask
    OBVIOUS
  <1>1. handler \in [Peer -> Handlers] /\ asker \in [Peer -> Askers]
    BY DEF TypeOK, Handlers, Askers
  <1>2. \A c \in Peer : Requested(c) = Heard(asker[c])
    BY DEF Requested, Heard
  <1>3. QED BY <1>1, <1>2, HeardTyped

LEMMA EndsTyped ==
  ASSUME TypeOK, NEW h \in [Peer -> Handlers], ServerEnds(h)
  PROVE  TypeOK'
  <1>1. handler' \in [Peer -> Handlers]
    BY DEF ServerEnds, Handlers
  <1>2. /\ life' \in [Process -> {"down", "built", "bound", "up", "dead"}]
        /\ DOMAIN waiting' = Process
        /\ waiting'["server"] \in Seq(Peer) /\ waiting'["keeper"] \in Seq(Browser)
    <2>1. <<>> \in Seq(Peer)
      BY EmptySeq
    <2>2. QED BY <2>1 DEF ServerEnds, TypeOK, Process
  <1>3. UNCHANGED <<fds, wire, asker, http, browser>>
    BY DEF ServerEnds
  <1>4. QED BY <1>1, <1>2, <1>3 DEF TypeOK, Handlers

\* What a step of one thread of the figure server leaves typed.
LEMMA ThreadTyped ==
  ASSUME TypeOK, NEW c \in Peer, NEW h \in Handlers, handler' = [handler EXCEPT ![c] = h],
         wire' \in [Peer -> Seq(Parts)], fds' \in Int, ServerKeeps
  PROVE  TypeOK'
  <1>1. handler' \in [Peer -> Handlers]
    BY HandlersTyped
  <1>2. UNCHANGED <<life, waiting, asker, http, browser>>
    BY DEF ServerKeeps
  <1>3. QED BY <1>1, <1>2 DEF TypeOK, Handlers

LEMMA ServerTyped == TypeOK /\ ServerInv /\ ServerStep => TypeOK'
  <1> SUFFICES ASSUME TypeOK, ServerInv, ServerStep PROVE TypeOK'
    OBVIOUS
  <1>0. handler \in [Peer -> Handlers] /\ wire \in [Peer -> Seq(Parts)] /\ fds \in Int
    BY HandlersTyped DEF TypeOK
  <1>1. CASE ServerDies
    BY <1>0, <1>1, EndsTyped DEF ServerDies
  <1>2. CASE WaitForConnection \/ ThreadFails
    <2> DEFINE c == Head(waiting["server"])
    <2>1. waiting["server"] # <<>> /\ c \in Peer
      BY <1>2, TailProperties DEF WaitForConnection, ThreadFails, TypeOK
    <2>2. \A at \in {"read", "refused"} : [handler EXCEPT ![c].at = at] \in [Peer -> Handlers]
      BY <1>0, <2>1 DEF Handlers
    <2>3. CASE ServerEnds([handler EXCEPT ![c].at = "refused"])
      BY <2>2, <2>3, EndsTyped
    <2>4. CASE /\ Take("server") /\ fds' \in {fds, fds + 1}
               /\ \E at \in {"read", "refused"} : handler' = [handler EXCEPT ![c].at = at]
               /\ UNCHANGED <<life, wire, asker, http, browser>>
      <3>1. /\ DOMAIN waiting' = Process
            /\ waiting'["server"] \in Seq(Peer) /\ waiting'["keeper"] \in Seq(Browser)
        BY <2>1, <2>4, TakeTyped DEF Process
      <3>2. handler' \in [Peer -> Handlers]
        BY <2>2, <2>4
      <3>3. fds' \in Int
        BY <1>0, <2>4
      <3>4. QED BY <2>4, <3>1, <3>2, <3>3 DEF TypeOK, Handlers
    <2>5. QED BY <1>2, <2>3, <2>4 DEF WaitForConnection, ThreadFails
  <1>3. ASSUME NEW c \in Peer,
               Read(c) \/ validateRequest(c) \/ existASCII(c) \/ extractBlock(c) \/ Close(c)
        PROVE  TypeOK'
    <2>1. /\ UNCHANGED wire /\ ServerKeeps /\ fds' \in {fds, fds + 1, fds - 1}
      BY <1>3 DEF Read, validateRequest, existASCII, extractBlock, Close
    <2>2. \E h \in Handlers : handler' = [handler EXCEPT ![c] = h]
      <3>1. CASE Read(c)
        BY <1>0, <3>1 DEF Read, Goes, Handlers
      <3>2. CASE validateRequest(c)
        <4>1. Answer(Requested(c)) \in Seq(Parts)
          BY HandlersTyped, AnswerTyped
        <4>2. QED BY <1>0, <3>2, <4>1 DEF validateRequest, Writes, Handlers
      <3>3. CASE existASCII(c)
        <4>1. <<Status("OK")>> \in Seq(Parts)
          BY StatusTyped
        <4>2. QED BY <1>0, <3>3, <4>1 DEF existASCII, Handlers
      <3>4. CASE extractBlock(c)
        <4> DEFINE f == Requested(c).name
                   n == handler[c].block
                   out == Append(handler[c].out, Piece(f, n))
        <4>1. handler[c] \in Handlers /\ n \in Nat /\ handler[c].out \in Seq(Parts)
          BY <1>0 DEF Handlers
        <4>2. f \in Figure
          BY <3>4, HandlersTyped DEF extractBlock, Handling, ServerInv, Exchange
        <4>3. out \in Seq(Parts) /\ Append(out, End) \in Seq(Parts)
          BY <4>1, <4>2, StatusTyped, AppendProperties
        <4>4. PICK m \in Nat, parts \in Seq(Parts), all \in Seq(Parts) :
                m = n + 1 /\ parts = out /\ all = Append(out, End)
          <5>1. \E m \in Nat : m = n + 1
            BY <4>1
          <5> HIDE DEF n, out
          <5>2. QED BY <4>3, <5>1
        <4>5. \/ handler' = [handler EXCEPT ![c].at = "write", ![c].out = all]
              \/ handler' = [handler EXCEPT ![c].block = m, ![c].out = parts]
          BY <3>4, <4>4 DEF extractBlock, Writes
        <4>6. CASE handler' = [handler EXCEPT ![c].at = "write", ![c].out = all]
          <5>1. handler' = [handler EXCEPT ![c] = [handler[c] EXCEPT !.at = "write", !.out = all]]
            BY <1>0, <4>1, <4>6 DEF Handlers
          <5>2. [handler[c] EXCEPT !.at = "write", !.out = all] \in Handlers
            BY <4>1 DEF Handlers
          <5>3. QED BY <5>1, <5>2
        <4>7. CASE handler' = [handler EXCEPT ![c].block = m, ![c].out = parts]
          <5>1. handler' = [handler EXCEPT ![c] = [handler[c] EXCEPT !.block = m, !.out = parts]]
            BY <1>0, <4>1, <4>7 DEF Handlers
          <5>2. [handler[c] EXCEPT !.block = m, !.out = parts] \in Handlers
            BY <4>1 DEF Handlers
          <5>3. QED BY <5>1, <5>2
        <4>8. QED BY <4>5, <4>6, <4>7
      <3>5. CASE Close(c)
        BY <1>0, <3>5 DEF Close, Goes, Handlers
      <3>6. QED BY <1>3, <3>1, <3>2, <3>3, <3>4, <3>5
    <2>3. fds' \in Int /\ wire' \in [Peer -> Seq(Parts)]
      BY <1>0, <2>1
    <2>4. QED BY <2>1, <2>2, <2>3, ThreadTyped
  <1>4. ASSUME NEW c \in Peer, Write(c)
        PROVE  TypeOK'
    <2>1. /\ handler[c].out # <<>> /\ handler[c].out \in Seq(Parts) /\ ServerKeeps
          /\ handler[c] \in Handlers /\ fds' = fds
      BY <1>0, <1>4 DEF Write, Handlers
    <2>2. Tail(handler[c].out) \in Seq(Parts) /\ Head(handler[c].out) \in Parts
      BY <2>1, TailProperties
    <2>3. \E h \in Handlers : handler' = [handler EXCEPT ![c] = h]
      <3> DEFINE h == [handler[c] EXCEPT !.out = Tail(handler[c].out),
                                         !.broken = handler[c].broken \/ Gone(c)]
      <3>1. h \in Handlers
        BY <2>1, <2>2 DEF Handlers
      <3>2. handler' = [handler EXCEPT ![c] = h]
        BY <1>0, <1>4 DEF Write
      <3>3. QED BY <3>1, <3>2
    <2>4. wire' \in [Peer -> Seq(Parts)]
      <3>1. Append(wire[c], Head(handler[c].out)) \in Seq(Parts)
        BY <1>0, <2>2, AppendProperties
      <3>2. QED BY <1>0, <1>4, <3>1 DEF Write
    <2>5. QED BY <1>0, <2>1, <2>3, <2>4, ThreadTyped
  <1>5. QED
    BY <1>1, <1>2, <1>3, <1>4 DEF ServerStep, AcceptThrows, OpenFails, WriteThrows


LEMMA AskerTyped ==
  ASSUME TypeOK, NEW c \in Peer, AskerStep(c)
  PROVE  TypeOK'
  <1>0. /\ handler \in [Peer -> Handlers] /\ asker \in [Peer -> Askers]
        /\ wire \in [Peer -> Seq(Parts)] /\ asker[c] \in Askers /\ handler[c] \in Handlers
        /\ asker[c].got \in Seq(Parts) /\ wire[c] \in Seq(Parts)
    BY HandlersTyped DEF TypeOK, Askers
  <1>1. UNCHANGED <<life, fds, http, browser>>
    BY DEF AskerStep, Visit, EstablishConnection, WriteRequest, Receive, EndOfAnswer, TimesOut,
           AskerKeeps
  <1>2. /\ DOMAIN waiting' = Process
        /\ waiting'["server"] \in Seq(Peer) /\ waiting'["keeper"] \in Seq(Browser)
    <2>1. /\ DOMAIN waiting = Process /\ waiting["server"] \in Seq(Peer)
          /\ waiting["keeper"] \in Seq(Browser)
      BY DEF TypeOK
    <2>2. CASE waiting' = [waiting EXCEPT !["server"] = Append(@, c)]
      <3>1. Append(waiting["server"], c) \in Seq(Peer)
        BY <2>1, AppendProperties
      <3>2. QED BY <2>1, <2>2, <3>1 DEF Process
    <2>3. CASE UNCHANGED waiting
      BY <2>1, <2>3
    <2>4. QED
      BY <2>2, <2>3 DEF AskerStep, Visit, EstablishConnection, WriteRequest, Receive, EndOfAnswer,
                        TimesOut
  <1>3. CASE Receive(c)
    <2>0. PICK n \in 1..Len(wire[c]) :
            LET got == asker[c].got \o SubSeq(wire[c], 1, n)
                over == ReadAnswer(got)
            IN /\ asker' = [asker EXCEPT ![c].got = got, ![c].at = IF over THEN "done" ELSE @]
               /\ wire' = [wire EXCEPT ![c] = IF over THEN <<>> ELSE SubSeq(@, n + 1, Len(@))]
               /\ handler' = [handler EXCEPT ![c].broken = @ \/ (over /\ n < Len(wire[c]))]
      BY <1>3 DEF Receive
    <2> DEFINE got == asker[c].got \o SubSeq(wire[c], 1, n)
               over == ReadAnswer(got)
    <2>1. /\ over \in BOOLEAN
          /\ asker' = [asker EXCEPT ![c].got = got, ![c].at = IF over THEN "done" ELSE @]
          /\ wire' = [wire EXCEPT ![c] = IF over THEN <<>> ELSE SubSeq(@, n + 1, Len(@))]
          /\ handler' = [handler EXCEPT ![c].broken = @ \/ (over /\ n < Len(wire[c]))]
      <3>1. over \in BOOLEAN
        BY DEF ReadAnswer
      <3>2. QED BY <2>0, <3>1
    <2>2. PICK m \in Nat : m = Len(wire[c])
      BY <1>0
    <2>3. /\ SubSeq(wire[c], 1, n) \in Seq(Parts) /\ SubSeq(wire[c], n + 1, Len(wire[c])) \in Seq(Parts)
          /\ <<>> \in Seq(Parts)
      BY <1>0, <2>2, SubSeqProperties, EmptySeq
    <2>4. got \in Seq(Parts)
      BY <1>0, <2>3, ConcatProperties
    <2> HIDE DEF got, over
    <2>5. asker' \in [Peer -> Askers]
      <3> DEFINE a == [asker[c] EXCEPT !.got = got, !.at = IF over THEN "done" ELSE asker[c].at]
      <3>1. a \in Askers
        BY <1>0, <2>4 DEF Askers
      <3>2. asker' = [asker EXCEPT ![c] = a]
        BY <1>0, <2>1
      <3>3. QED BY <1>0, <3>1, <3>2
    <2>6. wire' \in [Peer -> Seq(Parts)]
      BY <1>0, <2>1, <2>3
    <2>7. handler' \in [Peer -> Handlers]
      BY <1>0, <2>1 DEF Handlers
    <2>8. QED BY <1>1, <1>2, <2>5, <2>6, <2>7 DEF TypeOK, Handlers, Askers
  <1>4. CASE ~Receive(c)
    <2>1. UNCHANGED <<handler, wire>>
      BY <1>4 DEF AskerStep, Visit, EstablishConnection, WriteRequest, EndOfAnswer, TimesOut
    <2>2. asker' \in [Peer -> Askers]
      <3>1. ASSUME NEW at \in {"connecting", "connected", "failed", "done"},
                   asker' = [asker EXCEPT ![c].at = at]
            PROVE  asker' \in [Peer -> Askers]
        <4>1. asker' = [asker EXCEPT ![c] = [asker[c] EXCEPT !.at = at]]
          BY <1>0, <3>1 DEF Askers
        <4>2. QED BY <1>0, <4>1 DEF Askers
      <3>2. CASE asker' = [asker EXCEPT ![c].at = "open", ![c].sent = TRUE]
        <4>1. asker' = [asker EXCEPT ![c] = [asker[c] EXCEPT !.at = "open", !.sent = TRUE]]
          BY <1>0, <3>2 DEF Askers
        <4>2. QED BY <1>0, <4>1 DEF Askers
      <3>3. QED
        BY <1>4, <3>1, <3>2 DEF AskerStep, Visit, EstablishConnection, WriteRequest, EndOfAnswer,
                                TimesOut, Asks
    <2>3. QED BY <1>1, <1>2, <2>1, <2>2 DEF TypeOK, Handlers, Askers
  <1>5. QED BY <1>3, <1>4

Https == [at : {"accept", "read", "handle", "ask", "write"}, client : Browser, got : Nat,
          out : Seq(Parts), broken : BOOLEAN]
Browsers == [at : {"absent", "idle", "open", "gone", "done", "reset"}, page : Page, sent : Nat,
             got : Seq(Parts)]

LEMMA KeepersTyped ==
  TypeOK => http \in Https /\ browser \in [Browser -> Browsers] /\ http.client \in Browser
  BY DEF TypeOK, Https, Browsers

LEMMA BrowserTyped ==
  ASSUME TypeOK, NEW h \in Browser, BrowserStep(h)
  PROVE  TypeOK'
  <1>0. browser \in [Browser -> Browsers]
    BY KeepersTyped
  <1>1. UNCHANGED <<life, fds, handler, wire, asker, http>>
    BY DEF BrowserStep, MakeConnection, SendRequest, Leave, BrowserKeeps, serverVars
  <1>2. browser' \in [Browser -> Browsers]
    <2>1. ASSUME NEW at \in {"open", "gone"}, browser' = [browser EXCEPT ![h].at = at]
          PROVE  browser' \in [Browser -> Browsers]
      <3>1. browser' = [browser EXCEPT ![h] = [browser[h] EXCEPT !.at = at]]
        BY <1>0, <2>1 DEF Browsers
      <3>2. QED BY <1>0, <3>1 DEF Browsers
    <2>2. CASE browser' = [browser EXCEPT ![h].sent = @ + 1]
      <3>1. browser[h] \in Browsers /\ browser[h].sent + 1 \in Nat
        BY <1>0 DEF Browsers
      <3>2. PICK m \in Nat : m = browser[h].sent + 1
        BY <3>1
      <3>3. browser' = [browser EXCEPT ![h] = [browser[h] EXCEPT !.sent = m]]
        BY <1>0, <2>2, <3>2 DEF Browsers
      <3>4. QED BY <1>0, <3>1, <3>3 DEF Browsers
    <2>3. QED BY <2>1, <2>2 DEF BrowserStep, MakeConnection, SendRequest, Leave
  <1>3. /\ DOMAIN waiting' = Process
        /\ waiting'["server"] \in Seq(Peer) /\ waiting'["keeper"] \in Seq(Browser)
    <2>1. /\ DOMAIN waiting = Process /\ waiting["server"] \in Seq(Peer)
          /\ waiting["keeper"] \in Seq(Browser)
      BY DEF TypeOK
    <2>2. CASE waiting' = [waiting EXCEPT !["keeper"] = Append(@, h)]
      <3>1. Append(waiting["keeper"], h) \in Seq(Browser)
        BY <2>1, AppendProperties
      <3>2. QED BY <2>1, <2>2, <3>1 DEF Process
    <2>3. QED BY <2>1, <2>2 DEF BrowserStep, MakeConnection, SendRequest, Leave
  <1>4. QED BY <1>1, <1>2, <1>3 DEF TypeOK, Browsers

LEMMA AcceptingTyped ==
  /\ \A h \in Browser : Accepting(h) \in Https
  /\ (CHOOSE h \in Browser : TRUE) \in Browser
  <1>1. <<>> \in Seq(Parts)
    BY EmptySeq
  <1>2. \A h \in Browser : Accepting(h) \in Https
    BY <1>1 DEF Accepting, Https
  <1>3. (CHOOSE h \in Browser : TRUE) \in Browser
    BY SocketAssumption
  <1>4. QED BY <1>2, <1>3

LEMMA KeeperDiesTyped == TypeOK /\ KeeperDies => TypeOK'
  <1> SUFFICES ASSUME TypeOK, KeeperDies PROVE TypeOK'
    OBVIOUS
  <1>0. /\ browser \in [Browser -> Browsers] /\ asker \in [Peer -> Askers]
    BY KeepersTyped, HandlersTyped
  <1>1. browser' \in [Browser -> Browsers]
    <2>1. ASSUME NEW h \in Browser PROVE browser'[h] \in Browsers
      <3>1. browser[h] \in Browsers
        BY <1>0
      <3>2. CASE browser[h].at # "open"
        BY <3>1, <3>2 DEF KeeperDies, Browsers
      <3>3. CASE browser[h].at = "open" /\ Served /\ h = http.client
        BY <3>1, <3>3 DEF KeeperDies, Browsers
      <3>4. CASE browser[h].at = "open" /\ ~(Served /\ h = http.client)
        BY <3>1, <3>4 DEF KeeperDies, Browsers
      <3>5. QED BY <3>2, <3>3, <3>4
    <2>2. DOMAIN browser' = Browser /\ browser' = [h \in Browser |-> browser'[h]]
      BY DEF KeeperDies
    <2> DEFINE b == [h \in Browser |-> browser'[h]]
    <2>3. b \in [Browser -> Browsers]
      BY <2>1
    <2>4. QED BY <2>2, <2>3
  <1>2. asker' \in [Peer -> Askers]
    BY <1>0 DEF KeeperDies, Askers
  <1>3. /\ life' \in [Process -> {"down", "built", "bound", "up", "dead"}]
        /\ DOMAIN waiting' = Process
        /\ waiting'["server"] \in Seq(Peer) /\ waiting'["keeper"] \in Seq(Browser)
    <2>1. <<>> \in Seq(Browser)
      BY EmptySeq
    <2>2. QED BY <2>1 DEF KeeperDies, TypeOK, Process
  <1>4. UNCHANGED <<fds, handler, wire, http>>
    BY DEF KeeperDies, serverVars
  <1>5. QED BY <1>1, <1>2, <1>3, <1>4 DEF TypeOK, Askers, Browsers

\* What is written to a browser is typed: a list, an error or what requestFromServer
\* has read to its end.
LEMMA TranslatedTyped ==
  ASSUME NEW got \in Seq(Parts), got # <<>>, Len(got) > 1 \/ got[1] # End
  PROVE  Translated(got) \in Seq(Parts)
  <1>1. PICK n \in Nat \ {0} : n = Len(got)
    BY EmptySeq
  <1>2. /\ Front(got) \in Seq(Parts) /\ Len(Front(got)) = n - 1
        /\ Last(got) = got[n]
    BY <1>1, SubSeqProperties DEF Front, Last
  <1> DEFINE body == IF Last(got) = End THEN Front(got) ELSE Append(Front(got), Clipped)
  <1>3. body \in Seq(Parts) /\ body # <<>>
    <2>1. CASE Last(got) = End
      <3>1. n # 1
        <4>1. SUFFICES ASSUME n = 1 PROVE FALSE
          OBVIOUS
        <4>2. Len(got) = 1
          BY <1>1, <4>1
        <4>3. Last(got) = got[1]
          BY <1>2, <4>1
        <4>4. got[1] # End
          BY <4>2
        <4>5. QED BY <2>1, <4>3, <4>4
      <3>2. QED BY <1>2, <2>1, <3>1, EmptySeq
    <2>2. CASE Last(got) # End
      <3>1. Append(Front(got), Clipped) \in Seq(Parts) /\ Len(Append(Front(got), Clipped)) = n
        BY <1>1, <1>2, StatusTyped, AppendProperties
      <3>2. QED BY <1>1, <2>2, <3>1, EmptySeq
    <2>3. QED BY <2>1, <2>2
  <1>4. Tail(body) \in Seq(Parts)
    BY <1>3, TailProperties
  <1>5. /\ <<Status("201")>> \in Seq(Parts) /\ <<Status("200")>> \in Seq(Parts)
    BY StatusTyped
  <1>6. <<Status("200")>> \o Tail(body) \in Seq(Parts)
    <2> HIDE DEF body
    <2>1. QED BY <1>4, <1>5, ConcatProperties
  <1>7. Translated(got) \in {<<Status("201")>>, <<Status("200")>> \o Tail(body)}
    BY DEF Translated
  <1>8. QED BY <1>5, <1>6, <1>7

LEMMA KeeperTyped == TypeOK /\ ServerInv /\ KeeperStep => TypeOK'
  <1> SUFFICES ASSUME TypeOK, ServerInv, KeeperStep PROVE TypeOK'
    OBVIOUS
  <1>0. /\ http \in Https /\ browser \in [Browser -> Browsers] /\ Client \in Browser
        /\ asker \in [Peer -> Askers] /\ http.out \in Seq(Parts) /\ http.got \in Nat
        /\ browser[Client] \in Browsers /\ Client \in Peer
    BY KeepersTyped, HandlersTyped DEF Https, Client, Peer
  <1>1. CASE KeeperDies
    BY <1>1, KeeperDiesTyped
  <1>2. CASE ~KeeperDies
    <2>1. UNCHANGED <<life, fds, handler, wire>>
      BY <1>2 DEF KeeperStep, AcceptConnection, ReadHeader, HandlePage, AskServer, Relay,
                  RequestThrows, WriteHttp, WriteHttpThrows, CloseClient, KeeperKeeps, serverVars
    <2>2. /\ DOMAIN waiting' = Process
          /\ waiting'["server"] \in Seq(Peer) /\ waiting'["keeper"] \in Seq(Browser)
      <3>1. CASE AcceptConnection
        BY <3>1, TakeTyped DEF AcceptConnection, Process
      <3>2. CASE UNCHANGED waiting
        BY <3>2 DEF TypeOK
      <3>3. QED
        BY <1>2, <3>1, <3>2 DEF KeeperStep, ReadHeader, HandlePage, AskServer, Relay,
                                RequestThrows, WriteHttp, WriteHttpThrows, CloseClient
    <2>3. asker' \in [Peer -> Askers]
      <3>1. CASE AskServer
        <4>1. PICK page \in Page :
                /\ page.kind = "get"
                /\ asker' = [asker EXCEPT ![Client].at = "connecting",
                                          ![Client].ask = [kind |-> "GET", name |-> page.name]]
          BY <1>0, <3>1 DEF AskServer, Understood, Browsers, Page, NoPage
        <4>2. [kind |-> "GET", name |-> page.name] \in Ask
          BY <4>1 DEF Page, Ask
        <4>3. PICK ask \in Ask : ask = [kind |-> "GET", name |-> page.name]
          BY <4>2
        <4>4. asker' = [asker EXCEPT ![Client] =
                          [asker[Client] EXCEPT !.at = "connecting", !.ask = ask]]
          BY <1>0, <4>1, <4>3 DEF Askers
        <4>5. QED BY <1>0, <4>4 DEF Askers
      <3>2. CASE UNCHANGED asker
        BY <1>0, <3>2
      <3>3. QED
        BY <1>2, <3>1, <3>2 DEF KeeperStep, AcceptConnection, ReadHeader, HandlePage, Relay,
                                RequestThrows, WriteHttp, WriteHttpThrows, CloseClient
    <2>4. browser' \in [Browser -> Browsers]
      <3>1. CASE WriteHttp
        <4>1. Head(http.out) \in Parts
          BY <1>0, <3>1, TailProperties DEF WriteHttp
        <4>2. PICK got \in Seq(Parts) : got = Append(browser[Client].got, Head(http.out))
          BY <1>0, <4>1, AppendProperties DEF Browsers
        <4>3. \/ browser' = browser
              \/ browser' = [browser EXCEPT ![Client] = [browser[Client] EXCEPT !.got = got]]
          BY <1>0, <3>1, <4>2 DEF WriteHttp, Browsers
        <4>4. [browser[Client] EXCEPT !.got = got] \in Browsers
          BY <1>0 DEF Browsers
        <4>5. QED BY <1>0, <4>3, <4>4
      <3>2. CASE CloseClient
        BY <1>0, <3>2 DEF CloseClient, Browsers
      <3>3. CASE UNCHANGED browser
        BY <1>0, <3>3
      <3>4. QED
        BY <1>2, <3>1, <3>2, <3>3 DEF KeeperStep, AcceptConnection, ReadHeader, HandlePage,
                                      AskServer, Relay, RequestThrows, WriteHttpThrows
    <2>5. http' \in Https
      <3>1. CASE AcceptConnection
        <4>1. Head(waiting["keeper"]) \in Browser
          BY <3>1, TakeTyped DEF AcceptConnection, Process
        <4>2. QED BY <3>1, <4>1, AcceptingTyped DEF AcceptConnection, Https
      <3>2. CASE ReadHeader
        <4>1. browser[Client].sent \in Nat
          BY <1>0 DEF Browsers
        <4>2. CASE \E n \in (http.got + 1)..browser[Client].sent :
                http' = [http EXCEPT !.got = n, !.at = IF n = Fragments THEN "handle" ELSE @]
          <5>1. PICK n \in (http.got + 1)..browser[Client].sent :
                  http' = [http EXCEPT !.got = n, !.at = IF n = Fragments THEN "handle" ELSE @]
            BY <4>2
          <5>2. n \in Nat
            BY <1>0, <4>1
          <5>3. PICK at \in {"accept", "read", "handle", "ask", "write"} :
                  at = IF n = Fragments THEN "handle" ELSE http.at
            BY <1>0 DEF Https
          <5>4. http' = [http EXCEPT !.got = n, !.at = at]
            BY <5>1, <5>3
          <5>5. QED BY <1>0, <5>2, <5>4 DEF Https
        <4>3. CASE http' = [http EXCEPT !.at = "handle"]
          BY <1>0, <4>3 DEF Https
        <4>4. QED BY <3>2, <4>2, <4>3 DEF ReadHeader
      <3>3. CASE \E parts \in Seq(Parts) : HttpWrites(parts)
        BY <1>0, <3>3 DEF HttpWrites, Https
      <3>4. CASE HandlePage
        <4>1. \A page \in Understood :
                 (CASE page.kind \in {"index", "objects"} -> <<Status("200"), Part("list", "none", 0)>>
                    [] page.kind = "get" -> <<Status("201")>>
                    [] OTHER -> <<Status("500")>>) \in Seq(Parts)
          BY StatusTyped
        <4>2. QED BY <3>3, <3>4, <4>1 DEF HandlePage
      <3>5. CASE AskServer
        BY <1>0, <3>5 DEF AskServer, Https
      <3>6. CASE Relay
        <4>1. PICK a \in Askers : a = asker[Client]
          BY <1>0
        <4>2. a.at = "done" /\ Heard(a) \in Ask
          BY <3>6, <4>1, HeardTyped DEF Relay
        <4>3. Len(a.got) > 0 /\ Follows(Whole(Heard(a)), 0, a.got)
          BY <1>0, <4>1, <4>2 DEF ServerInv, Exchange
        <4>4. a.got \in Seq(Parts) /\ a.got # <<>>
          BY <4>3, EmptySeq DEF Askers
        <4>5. a.got[1] # End
          <5>1. Whole(Heard(a))[1] # End
            <6>1. CASE Heard(a).kind = "GET" /\ Heard(a).name \in Figure
              BY <4>2, <6>1, FigureAnswer DEF Status, Part, End
            <6>2. CASE ~(Heard(a).kind = "GET" /\ Heard(a).name \in Figure)
              <7>1. Whole(Heard(a)) = Answer(Heard(a))
                BY <6>2 DEF Whole
              <7>2. Len(Answer(Heard(a))) \in Nat
                BY <4>2, AnswerTyped
              <7>3. 1 \in 1..(Len(Answer(Heard(a))) - 1)
                BY <4>2, <7>2, AnswerTyped
              <7>4. QED BY <4>2, <7>1, <7>3, AnswerTyped
            <6>3. QED BY <6>1, <6>2
          <5>2. a.got[1] = Whole(Heard(a))[0 + 1]
            BY <4>3, <4>4 DEF Follows
          <5>3. QED BY <5>1, <5>2
        <4>6. Translated(a.got) \in Seq(Parts)
          BY <4>4, <4>5, TranslatedTyped
        <4>7. QED BY <3>3, <3>6, <4>1, <4>6 DEF Relay
      <3>7. CASE WriteHttp
        <4>1. Tail(http.out) \in Seq(Parts)
          BY <1>0, <3>7, TailProperties DEF WriteHttp
        <4>2. Left(Client) \in BOOLEAN
          BY DEF Left
        <4>3. QED BY <1>0, <3>7, <4>1, <4>2 DEF WriteHttp, Https
      <3>8. CASE CloseClient
        BY <3>8, AcceptingTyped DEF CloseClient
      <3>9. QED
        BY <1>2, <3>1, <3>2, <3>4, <3>5, <3>6, <3>7, <3>8
           DEF KeeperStep, RequestThrows, WriteHttpThrows
    <2>6. QED BY <2>1, <2>2, <2>3, <2>4, <2>5 DEF TypeOK, Https, Browsers, Askers
  <1>3. QED BY <1>1, <1>2

-----------------------------------------------------------------------------
(* One connection to the figure server: the steps of the server            *)

LEMMA ExchangeAccepted ==
  ASSUME NEW h \in Handlers, NEW a \in Askers, NEW w \in Seq(Parts), NEW dead \in BOOLEAN,
         Exchange(h, a, w, dead), h.at = "none", a.at \notin {"absent", "idle", "connecting"},
         NEW at \in {"read", "refused"}
  PROVE  Exchange([h EXCEPT !.at = at], a, w, dead)
  BY DEF Exchange, Silent, Handlers

LEMMA ExchangeDies ==
  ASSUME NEW h \in Handlers, NEW a \in Askers, NEW w \in Seq(Parts), NEW dead \in BOOLEAN,
         Exchange(h, a, w, dead)
  PROVE  Exchange([h EXCEPT !.at = IF @ \in {"none", "refused"} THEN @ ELSE "end"], a, w, TRUE)
  <1> DEFINE h2 == [h EXCEPT !.at = IF @ \in {"none", "refused"} THEN @ ELSE "end"]
  <1>1. /\ h2.at = IF h.at \in {"none", "refused"} THEN h.at ELSE "end"
        /\ h2.out = h.out /\ h2.broken = h.broken
    BY DEF Handlers
  <1> HIDE DEF h2
  <1>2. Exchange(h2, a, w, TRUE)
    BY <1>1 DEF Exchange, Silent
  <1>3. QED BY <1>2 DEF h2

LEMMA ExchangeRead ==
  ASSUME NEW h \in Handlers, NEW a \in Askers, NEW w \in Seq(Parts), NEW dead \in BOOLEAN,
         Exchange(h, a, w, dead), h.at = "read", a.sent \/ a.at \in {"done", "failed"}
  PROVE  Exchange([h EXCEPT !.at = "handle"], a, w, dead)
  BY DEF Exchange, Silent, Handlers

LEMMA ExchangeAnswer ==
  ASSUME NEW h \in Handlers, NEW a \in Askers, NEW w \in Seq(Parts), NEW dead \in BOOLEAN,
         Exchange(h, a, w, dead), h.at = "handle",
         ~(Heard(a).kind = "GET" /\ Heard(a).name \in Figure)
  PROVE  Exchange([h EXCEPT !.at = "write", !.out = Answer(Heard(a))], a, w, dead)
  <1>1. PICK answer \in Seq(Parts) : answer = Answer(Heard(a)) /\ Len(answer) >= 2
    BY HeardTyped, AnswerTyped
  <1>2. Whole(Heard(a)) = answer
    BY <1>1 DEF Whole
  <1> DEFINE h2 == [h EXCEPT !.at = "write", !.out = answer]
  <1>3. h2.at = "write" /\ h2.out = answer /\ h2.broken = h.broken
    BY DEF Handlers
  <1> HIDE DEF h2
  <1>4. a.got = <<>> /\ w = <<>> /\ ~h.broken /\ a.at # "done"
    BY EmptySeq DEF Exchange, Silent
  <1>5. Len(a.got) = 0 /\ Len(w) = 0 /\ Len(answer) \in Nat
    BY <1>4, EmptySeq
  <1>6. Exchange(h2, a, w, dead)
    BY <1>1, <1>2, <1>3, <1>4, <1>5 DEF Exchange, Silent, Follows
  <1>7. QED BY <1>1, <1>6 DEF h2

LEMMA ExchangeFound ==
  ASSUME NEW h \in Handlers, NEW a \in Askers, NEW w \in Seq(Parts), NEW dead \in BOOLEAN,
         Exchange(h, a, w, dead), h.at = "handle", Heard(a).kind = "GET", Heard(a).name \in Figure
  PROVE  Exchange([h EXCEPT !.at = "block", !.block = 1, !.out = <<Status("OK")>>], a, w, dead)
  <1>1. Heard(a) \in Ask /\ Size[Heard(a).name] \in Nat \ {0}
    BY HeardTyped, SocketAssumption
  <1>2. PICK out \in Seq(Parts) : out = <<Status("OK")>> /\ Len(out) = 1 /\ out[1] = Status("OK")
    <2>1. PICK p \in Parts : p = Status("OK")
      BY StatusTyped
    <2>2. <<p>> \in Seq(Parts) /\ Len(<<p>>) = 1 /\ <<p>>[1] = p
      OBVIOUS
    <2>3. QED BY <2>1, <2>2
  <1>3. PICK answer \in Seq(Parts) :
          answer = Whole(Heard(a)) /\ Len(answer) = Size[Heard(a).name] + 2 /\ answer[1] = Status("OK")
    BY <1>1, FigureAnswer
  <1> DEFINE h2 == [h EXCEPT !.at = "block", !.block = 1, !.out = out]
  <1>4. h2.at = "block" /\ h2.block = 1 /\ h2.out = out /\ h2.broken = h.broken
    BY DEF Handlers
  <1> HIDE DEF h2
  <1>5. a.got = <<>> /\ w = <<>> /\ ~h.broken /\ a.at # "done"
    BY EmptySeq DEF Exchange, Silent
  <1>6. Follows(answer, 0, out)
    BY <1>1, <1>2, <1>3 DEF Follows
  <1>7. Exchange(h2, a, w, dead)
    BY <1>1, <1>2, <1>3, <1>4, <1>5, <1>6 DEF Exchange, Silent
  <1>8. QED BY <1>2, <1>7 DEF h2

\* What follows is followed by the part that comes next.
LEMMA FollowsAppend ==
  ASSUME NEW answer \in Seq(Parts), NEW n \in Nat, NEW s \in Seq(Parts), Follows(answer, n, s),
         NEW j \in 1..Len(answer), j = n + Len(s) + 1
  PROVE  /\ Append(s, answer[j]) \in Seq(Parts) /\ Len(Append(s, answer[j])) = Len(s) + 1
         /\ Follows(answer, n, Append(s, answer[j]))
  <1>0. PICK p \in Parts : p = answer[j]
    OBVIOUS
  <1>1. PICK t \in Seq(Parts) : /\ t = Append(s, p) /\ Len(t) = Len(s) + 1
                                /\ \A i \in 1..Len(s) : t[i] = s[i]
                                /\ t[Len(s) + 1] = p
    <2>1. /\ Append(s, p) \in Seq(Parts) /\ Len(Append(s, p)) = Len(s) + 1
          /\ \A i \in 1..Len(s) : Append(s, p)[i] = s[i]
          /\ Append(s, p)[Len(s) + 1] = p
      BY AppendProperties
    <2>2. QED BY <2>1
  <1>2. PICK m \in Nat, l \in Nat : m = Len(s) /\ l = Len(answer)
    OBVIOUS
  <1>3. ASSUME NEW k \in 1..(m + 1)
        PROVE  t[k] = answer[n + k]
    <2>1. CASE k = m + 1
      <3>1. n + k = j
        BY <1>2, <2>1
      <3>2. QED BY <1>0, <1>1, <1>2, <2>1, <3>1
    <2>2. CASE k \in 1..m
      BY <1>1, <1>2, <2>2 DEF Follows
    <2>3. QED BY <2>1, <2>2
  <1>4. n + (m + 1) <= l
    BY <1>2
  <1>5. Follows(answer, n, t)
    BY <1>1, <1>2, <1>3, <1>4 DEF Follows
  <1>6. QED BY <1>0, <1>1, <1>5

\* What follows without its first part follows one part later.
LEMMA FollowsTail ==
  ASSUME NEW answer \in Seq(Parts), NEW n \in Nat, NEW s \in Seq(Parts), s # <<>>,
         Follows(answer, n, s)
  PROVE  /\ Head(s) = answer[n + 1] /\ n + 1 <= Len(answer)
         /\ Follows(answer, n + 1, Tail(s))
  <1>1. PICK m \in Nat \ {0}, l \in Nat : m = Len(s) /\ l = Len(answer)
    BY EmptySeq
  <1>2. PICK t \in Seq(Parts) : /\ t = Tail(s) /\ Len(t) = m - 1
                                /\ \A k \in 1..(m - 1) : t[k] = s[k + 1]
    BY <1>1, TailProperties
  <1>3. ASSUME NEW k \in 1..(m - 1)
        PROVE  t[k] = answer[n + 1 + k]
    <2>1. k + 1 \in 1..m /\ n + (k + 1) = n + 1 + k
      BY <1>1
    <2>2. QED BY <1>1, <1>2, <2>1 DEF Follows
  <1>4. Head(s) = answer[n + 1]
    BY <1>1, TailProperties DEF Follows
  <1>5. QED BY <1>1, <1>2, <1>3, <1>4 DEF Follows

LEMMA ExchangeBlock ==
  ASSUME NEW h \in Handlers, NEW a \in Askers, NEW w \in Seq(Parts), NEW dead \in BOOLEAN,
         Exchange(h, a, w, dead), h.at = "block"
  PROVE  LET f == Heard(a).name
             out == Append(h.out, Piece(f, h.block))
         IN /\ h.block # Size[f] =>
                 Exchange([h EXCEPT !.block = h.block + 1, !.out = out], a, w, dead)
            /\ h.block = Size[f] =>
                 Exchange([h EXCEPT !.at = "write", !.out = Append(out, End)], a, w, dead)
  <1>1. PICK r \in Ask : r = Heard(a)
    BY HeardTyped
  <1>2. PICK f \in Figure : f = r.name /\ r.kind = "GET"
    BY <1>1 DEF Exchange
  <1>3. PICK size \in Nat \ {0} : size = Size[f]
    BY SocketAssumption
  <1>4. PICK answer \in Seq(Parts) :
          /\ answer = Whole(r) /\ Len(answer) = size + 2 /\ answer[size + 2] = End
          /\ \A k \in 1..size : answer[k + 1] = Piece(f, k)
    BY <1>2, <1>3, FigureAnswer
  <1>5. PICK b \in 1..size : b = h.block
    BY <1>1, <1>2, <1>3 DEF Exchange
  <1>6. h.out \in Seq(Parts) /\ Len(h.out) = b /\ Follows(answer, 0, h.out)
    BY <1>1, <1>4, <1>5 DEF Exchange, Handlers
  <1>7. PICK out \in Seq(Parts) :
          out = Append(h.out, Piece(f, b)) /\ Len(out) = b + 1 /\ Follows(answer, 0, out)
    <2>1. PICK j \in 1..Len(answer) : j = b + 1 /\ answer[j] = Piece(f, b)
      <3>1. b + 1 \in 1..Len(answer) /\ answer[b + 1] = Piece(f, b)
        BY <1>4, <1>5
      <3>2. QED BY <3>1
    <2>4. j = 0 + Len(h.out) + 1 /\ 0 \in Nat
      BY <1>6, <2>1
    <2>2. /\ Append(h.out, answer[j]) \in Seq(Parts)
          /\ Len(Append(h.out, answer[j])) = Len(h.out) + 1
          /\ Follows(answer, 0, Append(h.out, answer[j]))
      BY <1>6, <2>4, FollowsAppend
    <2>3. QED BY <1>6, <2>1, <2>2
  <1>8. a.got = <<>> /\ w = <<>> /\ ~h.broken /\ a.at # "done" /\ (a.sent \/ a.at = "failed")
    BY EmptySeq DEF Exchange, Silent
  <1>9. Len(a.got) = 0 /\ Len(w) = 0
    BY <1>8, EmptySeq
  <1>10. ASSUME b # size
         PROVE  Exchange([h EXCEPT !.block = b + 1, !.out = out], a, w, dead)
    <2> DEFINE h2 == [h EXCEPT !.block = b + 1, !.out = out]
    <2>1. h2.at = "block" /\ h2.block = b + 1 /\ h2.out = out /\ h2.broken = h.broken
      BY <1>10 DEF Handlers
    <2>2. b + 1 \in 1..size
      BY <1>3, <1>5, <1>10
    <2> HIDE DEF h2
    <2>3. Exchange(h2, a, w, dead)
      BY <1>1, <1>2, <1>3, <1>4, <1>5, <1>7, <1>8, <1>9, <2>1, <2>2 DEF Exchange, Silent
    <2>4. QED BY <2>3 DEF h2
  <1>11. ASSUME b = size
         PROVE  Exchange([h EXCEPT !.at = "write", !.out = Append(out, End)], a, w, dead)
    <2>1. PICK all \in Seq(Parts) :
            all = Append(out, End) /\ Len(all) = size + 2 /\ Follows(answer, 0, all)
      <3>1. PICK j \in 1..Len(answer) : j = size + 2 /\ answer[j] = End
        <4>1. size + 2 \in 1..Len(answer) /\ answer[size + 2] = End
          BY <1>4
        <4>2. QED BY <4>1
      <3>2. j = 0 + Len(out) + 1 /\ 0 \in Nat /\ Len(out) + 1 = size + 2
        BY <1>7, <1>11, <3>1
      <3>3. /\ Append(out, answer[j]) \in Seq(Parts) /\ Len(Append(out, answer[j])) = Len(out) + 1
            /\ Follows(answer, 0, Append(out, answer[j]))
        <4>1. Follows(answer, 0, out)
          BY <1>7
        <4>2. QED BY <3>2, <4>1, FollowsAppend
      <3>4. QED BY <3>1, <3>2, <3>3
    <2> DEFINE h2 == [h EXCEPT !.at = "write", !.out = all]
    <2>2. h2.at = "write" /\ h2.out = all /\ h2.broken = h.broken
      BY DEF Handlers
    <2> HIDE DEF h2
    <2>3. Exchange(h2, a, w, dead)
      <3>1. 0 + Len(w) = 0 /\ 0 + Len(w) + Len(all) = Len(answer) /\ Len(answer) # 0
        BY <1>3, <1>4, <1>9, <2>1
      <3>2. QED BY <1>1, <1>4, <1>8, <1>9, <2>1, <2>2, <3>1 DEF Exchange, Silent
    <2>4. QED BY <2>1, <2>3 DEF h2
  <1>12. QED BY <1>1, <1>2, <1>3, <1>5, <1>7, <1>10, <1>11

LEMMA ExchangeWrite ==
  ASSUME NEW h \in Handlers, NEW a \in Askers, NEW w \in Seq(Parts),
         Exchange(h, a, w, FALSE), h.at = "write", h.out # <<>>,
         NEW gone \in BOOLEAN, gone = (a.at \in {"done", "failed"})
  PROVE  Exchange([h EXCEPT !.out = Tail(h.out), !.broken = h.broken \/ gone], a,
                  IF gone THEN w ELSE Append(w, Head(h.out)), FALSE)
  <1>1. PICK r \in Ask : r = Heard(a)
    BY HeardTyped
  <1>2. PICK answer \in Seq(Parts) : answer = Whole(r)
    BY WholeProperties
  <1>3. PICK l \in Nat, n \in Nat, v \in Nat, o \in Nat \ {0} :
          l = Len(answer) /\ n = Len(a.got) /\ v = Len(w) /\ o = Len(h.out)
    <2>1. a.got \in Seq(Parts) /\ h.out \in Seq(Parts)
      BY DEF Askers, Handlers
    <2>2. Len(h.out) \in Nat \ {0}
      BY <2>1, EmptySeq
    <2>3. QED BY <2>1, <2>2
  <1>4. PICK t \in Seq(Parts) : t = Tail(h.out) /\ Len(t) = o - 1
    <2>1. h.out \in Seq(Parts)
      BY DEF Handlers
    <2>2. Tail(h.out) \in Seq(Parts) /\ Len(Tail(h.out)) = o - 1
      BY <1>3, <2>1, TailProperties
    <2>3. QED BY <2>2
  <1> DEFINE h2 == [h EXCEPT !.out = t, !.broken = h.broken \/ gone]
  <1>5. h2.at = "write" /\ h2.out = t /\ h2.broken = (h.broken \/ gone)
    BY DEF Handlers
  <1> HIDE DEF h2
  <1>6. t # <<>> => h.out # <<>>
    OBVIOUS
  <1>7. n # l
    BY <1>1, <1>2, <1>3 DEF Exchange
  <1>8. a.sent \/ gone
    BY DEF Exchange
  <1>9. CASE gone
    <2>1. a.at = "done" => a.ask.name \in EndWithin
      BY <1>1, <1>2, <1>3, <1>7 DEF Exchange, Heard
    <2>2. Exchange(h2, a, w, FALSE)
      BY <1>1, <1>2, <1>3, <1>5, <1>7, <1>8, <1>9, <2>1 DEF Exchange, Silent
    <2>3. QED BY <1>4, <1>9, <2>2 DEF h2
  <1>10. CASE ~gone
    <2>0. n + v + o = l
      BY <1>1, <1>2, <1>3, <1>10 DEF Exchange
    <2>8. PICK m \in Nat, j \in Nat : m = n + v /\ j = m + 1
      OBVIOUS
    <2>1. Follows(answer, n, w) /\ Follows(answer, m, h.out) /\ Follows(answer, 0, a.got)
      BY <1>1, <1>2, <1>3, <1>10, <2>8 DEF Exchange
    <2>2. Head(h.out) = answer[j] /\ Head(h.out) \in Parts /\ Follows(answer, j, t)
      <3>1. h.out \in Seq(Parts)
        BY DEF Handlers
      <3>2. /\ Head(h.out) = answer[m + 1] /\ Head(h.out) \in Parts
            /\ Follows(answer, m + 1, Tail(h.out))
        BY <2>1, <3>1, FollowsTail, TailProperties
      <3>3. QED BY <1>4, <2>8, <3>2
    <2>3. PICK x \in Seq(Parts) :
            x = Append(w, Head(h.out)) /\ Len(x) = v + 1 /\ Follows(answer, n, x)
      <3>1. j = n + v + 1 /\ j \in 1..l
        BY <2>0, <2>8
      <3>2. j = n + Len(w) + 1 /\ j \in 1..Len(answer)
        BY <1>3, <3>1
      <3>3. /\ Append(w, answer[j]) \in Seq(Parts) /\ Len(Append(w, answer[j])) = Len(w) + 1
            /\ Follows(answer, n, Append(w, answer[j]))
        BY <2>1, <3>2, FollowsAppend
      <3>4. QED BY <1>3, <2>2, <3>3
    <2>4. n + Len(x) = j /\ n + Len(x) + Len(t) = l
      <3>1. Len(x) = v + 1 /\ Len(t) = o - 1
        BY <1>4, <2>3
      <3>2. QED BY <2>0, <2>8, <3>1
    <2>5. Follows(answer, n + Len(x), t)
      BY <2>2, <2>4
    <2>6. Exchange(h2, a, x, FALSE)
      BY <1>1, <1>2, <1>3, <1>4, <1>5, <1>6, <1>7, <1>8, <1>10, <2>3, <2>4, <2>5
         DEF Exchange, Silent
    <2>7. QED BY <1>4, <1>10, <2>3, <2>6 DEF h2
  <1>11. QED BY <1>9, <1>10

LEMMA ExchangeClosed ==
  ASSUME NEW h \in Handlers, NEW a \in Askers, NEW w \in Seq(Parts),
         Exchange(h, a, w, FALSE), h.at = "write", h.out = <<>>
  PROVE  Exchange([h EXCEPT !.at = "end"], a, w, FALSE)
  <1>1. Len(h.out) = 0 /\ Len(a.got) \in Nat /\ Len(w) \in Nat
    BY EmptySeq DEF Askers
  <1>2. QED BY <1>1 DEF Exchange, Silent, Handlers

-----------------------------------------------------------------------------
(* One connection to the figure server: the steps of its other end         *)

\* Nothing has been sent yet.
LEMMA ExchangeBegins ==
  ASSUME NEW h \in Handlers, NEW a \in Askers, NEW w \in Seq(Parts), NEW dead \in BOOLEAN,
         Exchange(h, a, w, dead), NEW b \in Askers,
         a.at \in {"absent", "idle", "connecting"},
         b.at \in {"connecting", "connected", "failed"},
         b.sent = a.sent, b.got = a.got
  PROVE  Exchange(h, b, w, dead)
  <1>1. /\ h.at = "none" /\ ~a.sent /\ a.got = <<>> /\ w = <<>> /\ Heard(a) = Heard(b)
        /\ h.out = <<>> /\ ~h.broken
    BY DEF Exchange, Silent, Heard
  <1>2. QED BY <1>1 DEF Exchange, Silent

LEMMA ExchangeOpens ==
  ASSUME NEW h \in Handlers, NEW a \in Askers, NEW w \in Seq(Parts), NEW dead \in BOOLEAN,
         Exchange(h, a, w, dead), a.at = "connected", h.at \notin {"end", "refused"}
  PROVE  Exchange(h, [a EXCEPT !.at = "open", !.sent = TRUE], w, dead)
  <1> DEFINE b == [a EXCEPT !.at = "open", !.sent = TRUE]
  <1>1. b.at = "open" /\ b.sent /\ b.got = a.got /\ b.ask = a.ask
    BY DEF Askers
  <1>2. ~a.sent /\ a.got = <<>> /\ w = <<>> /\ h.at \in {"none", "read"}
    BY DEF Exchange, Handlers
  <1>3. Len(<<>>) = 0
    BY EmptySeq
  <1>4. Len(Whole(Heard(b))) \in Nat
    <2>1. Heard(b) \in Ask
      BY <1>1 DEF Heard, Askers
    <2>2. QED BY <2>1, WholeProperties
  <1> HIDE DEF b
  <1>5. Exchange(h, b, w, dead)
    BY <1>1, <1>2, <1>3, <1>4 DEF Exchange, Silent, Follows
  <1>6. QED BY <1>5 DEF b

LEMMA ExchangeFails ==
  ASSUME NEW h \in Handlers, NEW a \in Askers, NEW w \in Seq(Parts), NEW dead \in BOOLEAN,
         Exchange(h, a, w, dead), a.at \in {"connected", "open"}
  PROVE  Exchange(h, [a EXCEPT !.at = "failed"], w, dead)
  <1> DEFINE b == [a EXCEPT !.at = "failed"]
  <1>1. b.at = "failed" /\ b.sent = a.sent /\ b.got = a.got /\ Heard(b) = Heard(a)
    BY DEF Askers, Heard
  <1> HIDE DEF b
  <1>2. Exchange(h, b, w, dead)
    BY <1>1 DEF Exchange, Silent
  <1>3. QED BY <1>2 DEF b

LEMMA ExchangeEnds ==
  ASSUME NEW h \in Handlers, NEW a \in Askers, NEW w \in Seq(Parts), NEW dead \in BOOLEAN,
         Exchange(h, a, w, dead), a.at = "open", w = <<>>, a.got # <<>>,
         h.at \in {"none", "refused", "end"}
  PROVE  Exchange(h, [a EXCEPT !.at = "done"], w, dead)
  <1> DEFINE b == [a EXCEPT !.at = "done"]
  <1>1. b.at = "done" /\ b.sent = a.sent /\ b.got = a.got /\ Heard(b) = Heard(a) /\ b.ask = a.ask
    BY DEF Askers, Heard
  <1> HIDE DEF b
  <1>2. a.sent /\ h.at = "end" /\ Len(w) = 0 /\ Len(a.got) \in Nat \ {0}
    BY EmptySeq DEF Exchange, Silent, Askers
  <1>3. Exchange(h, b, w, dead)
    BY <1>1, <1>2 DEF Exchange, Silent
  <1>4. QED BY <1>3 DEF b

\* What has been read is followed by the first parts of what is on its way.
LEMMA FollowsConcat ==
  ASSUME NEW answer \in Seq(Parts), NEW s \in Seq(Parts), NEW w \in Seq(Parts),
         Follows(answer, 0, s), NEW n \in Nat, n = Len(s), Follows(answer, n, w),
         NEW k \in 1..Len(w)
  PROVE  LET got == s \o SubSeq(w, 1, k)
             left == SubSeq(w, k + 1, Len(w))
         IN /\ got \in Seq(Parts) /\ Len(got) = n + k /\ Follows(answer, 0, got)
            /\ \A i \in 1..n : got[i] = s[i]
            /\ left \in Seq(Parts) /\ Len(left) = Len(w) - k /\ Follows(answer, n + k, left)
  <1>1. PICK v \in Nat, l \in Nat : v = Len(w) /\ l = Len(answer)
    OBVIOUS
  <1>2. /\ s \in Seq(Parts) /\ n + v <= l /\ k \in 1..v
        /\ \A i \in 1..n : s[i] = answer[i]
        /\ \A i \in 1..v : w[i] = answer[n + i]
    <2>1. \A i \in 1..n : s[i] = answer[0 + i] /\ 0 + i = i
      BY DEF Follows
    <2>2. QED BY <1>1, <2>1 DEF Follows
  <1>3. PICK x \in Seq(Parts) :
          x = SubSeq(w, 1, k) /\ Len(x) = k /\ \A i \in 1..k : x[i] = w[i]
    <2>1. \A i \in 1..k : w[i] \in Parts
      BY <1>1
    <2>2. /\ SubSeq(w, 1, k) \in Seq(Parts)
          /\ Len(SubSeq(w, 1, k)) = IF 1 <= k THEN k - 1 + 1 ELSE 0
          /\ \A i \in 1..(k - 1 + 1) : SubSeq(w, 1, k)[i] = w[1 + i - 1]
      BY <1>1, <2>1, SubSeqProperties
    <2>3. k - 1 + 1 = k /\ 1 <= k /\ \A i \in 1..k : 1 + i - 1 = i
      BY <1>1
    <2>4. QED BY <2>2, <2>3
  <1>4. PICK got \in Seq(Parts) :
          /\ got = s \o x /\ Len(got) = n + k
          /\ \A i \in 1..(n + k) : got[i] = IF i <= n THEN s[i] ELSE x[i - n]
    <2>1. /\ s \o x \in Seq(Parts) /\ Len(s \o x) = Len(s) + Len(x)
          /\ \A i \in 1..(Len(s) + Len(x)) :
               (s \o x)[i] = IF i <= Len(s) THEN s[i] ELSE x[i - Len(s)]
      BY <1>3, ConcatProperties
    <2>2. Len(s) = n /\ Len(x) = k /\ Len(s) + Len(x) = n + k
      BY <1>3
    <2>3. /\ Len(s \o x) = n + k
          /\ \A i \in 1..(n + k) : (s \o x)[i] = IF i <= n THEN s[i] ELSE x[i - n]
      BY <2>1, <2>2
    <2>4. QED BY <2>1, <2>3
  <1>5. ASSUME NEW i \in 1..(n + k)
        PROVE  got[i] = answer[0 + i]
    <2>1. CASE i <= n
      BY <1>2, <1>4, <2>1
    <2>2. CASE ~(i <= n)
      <3>1. i - n \in 1..k /\ i - n \in 1..v /\ n + (i - n) = i
        BY <1>2, <2>2
      <3>2. QED BY <1>2, <1>3, <1>4, <2>2, <3>1
    <2>3. QED BY <2>1, <2>2
  <1>6. 0 + (n + k) <= l
    BY <1>2
  <1>7. Follows(answer, 0, got)
    BY <1>1, <1>4, <1>5, <1>6 DEF Follows
  <1>8. PICK y \in Seq(Parts) :
          /\ y = SubSeq(w, k + 1, v) /\ Len(y) = v - k
          /\ \A i \in 1..(v - k) : y[i] = w[k + i]
    <2>1. k + 1 \in Int /\ \A i \in (k + 1)..v : w[i] \in Parts
      BY <1>1, <1>2
    <2>2. /\ SubSeq(w, k + 1, v) \in Seq(Parts)
          /\ Len(SubSeq(w, k + 1, v)) = IF k + 1 <= v THEN v - (k + 1) + 1 ELSE 0
          /\ \A i \in 1..(v - (k + 1) + 1) : SubSeq(w, k + 1, v)[i] = w[k + 1 + i - 1]
      BY <2>1, SubSeqProperties
    <2>3. /\ v - (k + 1) + 1 = v - k /\ (~(k + 1 <= v) => v - k = 0)
          /\ \A i \in 1..(v - k) : k + 1 + i - 1 = k + i
      BY <1>2
    <2>4. Len(SubSeq(w, k + 1, v)) = v - k
      BY <2>2, <2>3
    <2>5. \A i \in 1..(v - k) : SubSeq(w, k + 1, v)[i] = w[k + i]
      BY <2>2, <2>3
    <2>6. QED BY <2>2, <2>4, <2>5
  <1>9. ASSUME NEW i \in 1..(v - k)
        PROVE  y[i] = answer[n + k + i]
    <2>1. k + i \in 1..v /\ n + (k + i) = n + k + i
      BY <1>2
    <2>2. QED BY <1>2, <1>8, <2>1
  <1>10. n + k + (v - k) <= l
    BY <1>2
  <1>11. Follows(answer, n + k, y)
    BY <1>1, <1>8, <1>9, <1>10 DEF Follows
  <1>12. \A i \in 1..n : got[i] = s[i]
    BY <1>4
  <1>13. QED BY <1>1, <1>3, <1>4, <1>7, <1>8, <1>11, <1>12

LEMMA ExchangeReceived ==
  ASSUME NEW h \in Handlers, NEW a \in Askers, NEW w \in Seq(Parts), NEW dead \in BOOLEAN,
         Exchange(h, a, w, dead), a.at = "open", w # <<>>, NEW k \in 1..Len(w),
         NEW got, got = a.got \o SubSeq(w, 1, k), NEW over \in BOOLEAN, over <=> ReadAnswer(got),
         NEW h2, h2.at = h.at, h2.block = h.block, h2.out = h.out,
         h2.broken => h.broken \/ (over /\ k < Len(w)),
         NEW a2, a2.at = (IF over THEN "done" ELSE "open"), a2.sent = a.sent, a2.got = got,
         a2.ask = a.ask,
         NEW w2, w2 = (IF over THEN <<>> ELSE SubSeq(w, k + 1, Len(w)))
  PROVE  Exchange(h2, a2, w2, dead)
  <1>1. PICK r \in Ask : r = Heard(a)
    BY HeardTyped
  <1>2. PICK answer \in Seq(Parts) : answer = Whole(r)
    BY WholeProperties
  <1>3. PICK l \in Nat, n \in Nat, v \in Nat, o \in Nat :
          l = Len(answer) /\ n = Len(a.got) /\ v = Len(w) /\ o = Len(h.out)
    <2>1. a.got \in Seq(Parts) /\ h.out \in Seq(Parts)
      BY DEF Askers, Handlers
    <2>2. QED BY <2>1
  <1>4. a.sent /\ h.at \notin Silent \cup {"block"} /\ r = a.ask /\ h.at \in {"write", "end"}
    BY <1>1 DEF Exchange, Silent, Handlers, Heard
  <1>5. /\ Follows(answer, 0, a.got) /\ Follows(answer, n, w)
        /\ \A i \in 1..n : ~HasEnd(a.got[i])
    BY <1>1, <1>2, <1>3 DEF Exchange
  <1>6. /\ h.at = "write" => n + v + o = l
        /\ h.at = "end" /\ ~dead => n + v = l
    BY <1>1, <1>2, <1>3 DEF Exchange
  <1>7. h.at = "write" => Follows(answer, n + v, h.out)
    BY <1>1, <1>2, <1>3 DEF Exchange
  <1>8. n + v <= l
    BY <1>3, <1>5 DEF Follows
  <1>20. /\ a.got \o SubSeq(w, 1, k) \in Seq(Parts) /\ Len(a.got \o SubSeq(w, 1, k)) = n + k
         /\ Follows(answer, 0, a.got \o SubSeq(w, 1, k))
         /\ \A i \in 1..n : (a.got \o SubSeq(w, 1, k))[i] = a.got[i]
         /\ SubSeq(w, k + 1, Len(w)) \in Seq(Parts) /\ Len(SubSeq(w, k + 1, Len(w))) = Len(w) - k
         /\ Follows(answer, n + k, SubSeq(w, k + 1, Len(w)))
    <2>1. a.got \in Seq(Parts) /\ n = Len(a.got)
      BY <1>3 DEF Askers
    <2>2. QED BY <1>5, <2>1, FollowsConcat
  <1>9. PICK left \in Seq(Parts) : left = SubSeq(w, k + 1, Len(w)) /\ Len(left) = v - k
                                   /\ Follows(answer, n + k, left)
    <2>1. Len(SubSeq(w, k + 1, Len(w))) = v - k
      BY <1>3, <1>20
    <2>2. QED BY <1>20, <2>1
  <1>10. /\ got \in Seq(Parts) /\ Len(got) = n + k /\ Follows(answer, 0, got)
         /\ \A i \in 1..n : got[i] = a.got[i]
    BY <1>20
  <1>11. PICK m \in Nat \ {0} : m = n + k /\ m = Len(got) /\ m <= l /\ m <= n + v
    <2>1. k \in 1..v
      BY <1>3
    <2>2. n + k \in Nat \ {0} /\ n + k <= n + v /\ n + k <= l
      BY <1>8, <2>1
    <2>3. n + k = Len(got)
      BY <1>10
    <2>4. QED BY <2>2, <2>3
  <1>12. /\ h2.at = h.at /\ h2.block = h.block /\ h2.out = h.out
         /\ h2.broken => h.broken \/ (over /\ k < v)
    BY <1>3
  <1>13. /\ a2.at = (IF over THEN "done" ELSE "open") /\ a2.sent /\ a2.got = got /\ a2.ask = r
         /\ Heard(a2) = r
    BY <1>4 DEF Heard
  <1>14. h.at = "write" /\ h.broken /\ h.out # <<>> => r.name \in EndWithin
    BY <1>4 DEF Exchange
  <1>15. h.at = "write" /\ m = l => h.out = <<>>
    <2> SUFFICES ASSUME h.at = "write", m = l PROVE h.out = <<>>
      OBVIOUS
    <2>1. o = 0
      BY <1>6, <1>11
    <2>2. QED BY <1>3, <2>1, EmptySeq DEF Handlers
  <1>18. DOMAIN got = 1..m
    BY <1>10, <1>11
  <1>16. CASE over
    <2>1. m = l \/ r.name \in EndWithin
      <3>1. PICK i \in 1..m : HasEnd(got[i])
        BY <1>16, <1>18 DEF ReadAnswer
      <3>2. HasEnd(answer[i]) /\ i \in 1..l
        <4>1. 0 + i = i /\ i \in 1..l
          BY <1>11
        <4>2. QED BY <1>10, <1>11, <3>1, <4>1 DEF Follows
      <3>3. CASE i = l
        BY <1>11, <3>3
      <3>4. CASE i \in 1..(l - 1)
        BY <1>2, <1>3, <3>2, <3>4, WholeProperties
      <3>5. QED BY <3>2, <3>3, <3>4
    <2>2. k < v => m # l
      BY <1>8, <1>11
    <2>3. h2.at = "write" /\ h2.broken /\ h2.out # <<>> => r.name \in EndWithin
      BY <1>12, <1>14, <2>1, <2>2
    <2>4. Follows(answer, 0, got) /\ Len(got) = m /\ got # <<>>
      BY <1>10, <1>11, EmptySeq
    <2>5. a2.at = "done" /\ h2.at \notin Silent \cup {"block"}
      BY <1>4, <1>12, <1>13, <1>16
    <2>6. Exchange(h2, a2, w2, dead)
      <3> DEFINE answer2 == Whole(Heard(a2))
                 n2 == Len(a2.got)
      <3>1. answer2 = answer /\ n2 = m /\ n2 > 0
        BY <1>2, <1>11, <1>13
      <3>2. h2.at \notin Silent /\ h2.at # "block" /\ a2.sent
        BY <1>13, <2>5
      <3>3. Follows(answer2, 0, a2.got)
        BY <1>13, <2>4, <3>1
      <3>4. dead \/ n2 = Len(answer2) \/ Heard(a2).name \in EndWithin
        BY <1>3, <1>13, <2>1, <3>1
      <3>5. h2.at = "write" /\ n2 = Len(answer2) => h2.out = <<>>
        BY <1>3, <1>12, <1>15, <3>1
      <3>6. h2.at = "write" /\ h2.broken /\ h2.out # <<>> => a2.ask.name \in EndWithin
        BY <1>13, <2>3
      <3>7. QED
        BY <2>5, <3>1, <3>2, <3>3, <3>4, <3>5, <3>6 DEF Exchange
    <2>7. QED BY <2>6
  <1>17. CASE ~over
    <2>1. \A i \in 1..m : ~HasEnd(got[i])
      BY <1>17, <1>18 DEF ReadAnswer
    <2>2. m + Len(left) = n + v
      <3>1. Len(left) = v - k
        BY <1>9
      <3>2. QED BY <1>11, <3>1
    <2>3. Follows(answer, m, left)
      BY <1>9, <1>11
    <2>4. /\ h.at = "write" => Follows(answer, m + Len(left), h.out) /\ m + Len(left) + o = l
          /\ h.at = "end" /\ ~dead => m + Len(left) = l
      BY <1>6, <1>7, <2>2
    <2>5. Exchange(h2, a2, left, dead)
      BY <1>1, <1>2, <1>3, <1>4, <1>10, <1>11, <1>12, <1>13, <1>14, <1>15, <1>17, <2>1, <2>3, <2>4
         DEF Exchange
    <2>6. QED BY <1>9, <1>17, <2>5
  <1>19. QED BY <1>16, <1>17

-----------------------------------------------------------------------------
(* The steps keep what is known of the figure server                       *)

LEMMA ExchangeDead ==
  ASSUME NEW h \in Handlers, NEW a \in Askers, NEW w \in Seq(Parts), NEW dead \in BOOLEAN,
         Exchange(h, a, w, dead)
  PROVE  Exchange(h, a, w, TRUE)
  BY DEF Exchange

Early == {"absent", "idle", "connecting"}

\* One connection changes, and neither its place among those that wait for accept.
LEMMA OneExchange ==
  ASSUME TypeOK, ServerInv, NEW c \in Peer,
         \A d \in Peer \ {c} :
            handler'[d] = handler[d] /\ asker'[d] = asker[d] /\ wire'[d] = wire[d],
         Exchange(handler'[c], asker'[c], wire'[c], ServerDead),
         handler[c].at = "none" => handler'[c].at = "none",
         asker[c].at \notin Early => asker'[c].at \notin Early,
         UNCHANGED life, waiting'["server"] = waiting["server"], fds' <= MaxFd
  PROVE  ServerInv'
  <1>1. ServerDead' = ServerDead
    BY DEF ServerDead
  <1>2. \A d \in Peer : Exchange(handler'[d], asker'[d], wire'[d], ServerDead')
    <2> SUFFICES ASSUME NEW d \in Peer
                 PROVE  Exchange(handler'[d], asker'[d], wire'[d], ServerDead)
      BY <1>1
    <2>1. CASE d = c
      BY <2>1
    <2>2. CASE d # c
      <3>1. Exchange(handler[d], asker[d], wire[d], ServerDead)
        BY DEF ServerInv
      <3>2. handler'[d] = handler[d] /\ asker'[d] = asker[d] /\ wire'[d] = wire[d]
        BY <2>2
      <3>3. QED BY <3>1, <3>2
    <2>3. QED BY <2>1, <2>2
  <1>3. life'["server"] \in {"down", "built", "bound"} => \A d \in Peer : handler'[d].at = "none"
    <2>1. \A d \in Peer : handler[d].at = "none" => handler'[d].at = "none"
      OBVIOUS
    <2>2. QED BY <2>1 DEF ServerInv
  <1>4. IsInjective(waiting'["server"])
    BY DEF ServerInv
  <1>5. \A i \in 1..Len(waiting'["server"]) :
          /\ handler'[waiting'["server"][i]].at = "none"
          /\ asker'[waiting'["server"][i]].at \notin Early
    <2> SUFFICES ASSUME NEW i \in 1..Len(waiting["server"])
                 PROVE  /\ handler'[waiting["server"][i]].at = "none"
                        /\ asker'[waiting["server"][i]].at \notin Early
      OBVIOUS
    <2>1. PICK d \in Peer : d = waiting["server"][i]
      <3>1. PICK q \in Seq(Peer) : q = waiting["server"]
        BY DEF TypeOK
      <3>2. q[i] \in Peer
        BY <3>1
      <3>3. QED BY <3>1, <3>2
    <2>2. handler[d].at = "none" /\ asker[d].at \notin Early
      BY <2>1 DEF ServerInv, Early
    <2>3. QED BY <2>1, <2>2
  <1>6. QED BY <1>2, <1>3, <1>4, <1>5 DEF ServerInv, Early

LEMMA TypedExchange ==
  ASSUME TypeOK, ServerInv, NEW c \in Peer
  PROVE  /\ handler[c] \in Handlers /\ asker[c] \in Askers /\ wire[c] \in Seq(Parts)
         /\ ServerDead \in BOOLEAN /\ Exchange(handler[c], asker[c], wire[c], ServerDead)
  BY HandlersTyped DEF TypeOK, ServerInv, ServerDead

LEMMA StartsServer ==
  ASSUME TypeOK, ServerInv, Starts
  PROVE  ServerInv'
  <1>1. PICK p \in Process, to \in {"built", "bound", "up", "dead"} :
          /\ life' = [life EXCEPT ![p] = to] /\ life[p] \in {"down", "built", "bound"}
          /\ UNCHANGED <<waiting, fds, handler, wire, asker, http, browser>>
    BY DEF Starts, BuildSocket, Bind, BindThrows, MarkPassive, Becomes, serverVars
  <1>2. life \in [Process -> {"down", "built", "bound", "up", "dead"}]
    BY DEF TypeOK
  <1>3. \A c \in Peer : Exchange(handler[c], asker[c], wire[c], ServerDead')
    <2> SUFFICES ASSUME NEW c \in Peer
                 PROVE  Exchange(handler[c], asker[c], wire[c], ServerDead')
      OBVIOUS
    <2>1. ServerDead' = ServerDead \/ ServerDead' = TRUE
      BY <1>1, <1>2 DEF ServerDead, Process
    <2>2. QED BY <2>1, TypedExchange, ExchangeDead
  <1>4. life'["server"] \in {"down", "built", "bound"} => \A c \in Peer : handler[c].at = "none"
    BY <1>1, <1>2 DEF ServerInv, Process
  <1>5. QED BY <1>1, <1>3, <1>4 DEF ServerInv

LEMMA EndsServer ==
  ASSUME TypeOK, ServerInv, NEW h \in [Peer -> Handlers], ServerEnds(h),
         \A c \in Peer : Exchange(h[c], asker[c], wire[c], ServerDead)
  PROVE  ServerInv'
  <1>1. /\ life' = [life EXCEPT !["server"] = "dead"]
        /\ waiting' = [waiting EXCEPT !["server"] = <<>>]
        /\ handler' = [c \in Peer |->
              [h[c] EXCEPT !.at = IF @ \in {"none", "refused"} THEN @ ELSE "end"]]
        /\ UNCHANGED <<fds, wire, asker, http, browser>>
    BY DEF ServerEnds
  <1>2. life'["server"] = "dead" /\ ServerDead' = TRUE /\ waiting'["server"] = <<>>
    BY <1>1 DEF TypeOK, ServerDead, Process
  <1>3. \A c \in Peer : Exchange(handler'[c], asker[c], wire[c], TRUE)
    <2> SUFFICES ASSUME NEW c \in Peer PROVE Exchange(handler'[c], asker[c], wire[c], TRUE)
      OBVIOUS
    <2>1. h[c] \in Handlers
      OBVIOUS
    <2>2. handler'[c] = [h[c] EXCEPT !.at = IF @ \in {"none", "refused"} THEN @ ELSE "end"]
      BY <1>1
    <2>3. Exchange([h[c] EXCEPT !.at = IF @ \in {"none", "refused"} THEN @ ELSE "end"],
                   asker[c], wire[c], TRUE)
      BY <2>1, TypedExchange, ExchangeDies
    <2>4. QED BY <2>2, <2>3
  <1>4. IsInjective(waiting'["server"]) /\ Len(waiting'["server"]) = 0
    BY <1>2, EmptySeq DEF IsInjective
  <1>5. fds' <= MaxFd
    BY <1>1 DEF ServerInv
  <1>6. UNCHANGED <<wire, asker>>
    BY <1>1
  <1>7. \A c \in Peer : Exchange(handler'[c], asker'[c], wire'[c], ServerDead')
    BY <1>2, <1>3, <1>6
  <1>8. ~(life'["server"] \in {"down", "built", "bound"})
    BY <1>2
  <1>9. 1..Len(waiting'["server"]) = {}
    BY <1>4
  <1>10. QED BY <1>4, <1>5, <1>7, <1>8, <1>9 DEF ServerInv

\* The connections that wait for accept, but for the first.
LEMMA TailWaits ==
  ASSUME NEW S, NEW q \in Seq(S), q # <<>>, IsInjective(q)
  PROVE  /\ IsInjective(Tail(q))
         /\ \A i \in 1..Len(Tail(q)) : \E k \in 1..Len(q) : Tail(q)[i] = q[k] /\ q[k] # Head(q)
  <1>1. PICK n \in Nat \ {0} : n = Len(q)
    BY EmptySeq
  <1>2. /\ Head(q) = q[1] /\ Tail(q) \in Seq(S) /\ Len(Tail(q)) = n - 1
        /\ \A k \in 1..(n - 1) : Tail(q)[k] = q[k + 1]
    BY <1>1, TailProperties
  <1>3. \A i, k \in 1..n : q[i] = q[k] => i = k
    BY <1>1 DEF IsInjective
  <1>4. DOMAIN Tail(q) = 1..(n - 1)
    BY <1>2
  <1>5. \A i \in 1..(n - 1) : i + 1 \in 1..n /\ i + 1 # 1
    OBVIOUS
  <1>6. IsInjective(Tail(q))
    <2> SUFFICES ASSUME NEW i \in 1..(n - 1), NEW k \in 1..(n - 1), Tail(q)[i] = Tail(q)[k]
                 PROVE  i = k
      BY <1>4 DEF IsInjective
    <2>1. i + 1 = k + 1
      BY <1>2, <1>3, <1>5
    <2>2. QED BY <2>1
  <1>7. ASSUME NEW i \in 1..(n - 1)
        PROVE  \E k \in 1..n : Tail(q)[i] = q[k] /\ q[k] # Head(q)
    <2>1. q[i + 1] # q[1] /\ 1 \in 1..n /\ i + 1 \in 1..n
      BY <1>1, <1>3, <1>5
    <2>2. QED BY <1>2, <2>1
  <1>8. QED BY <1>1, <1>2, <1>6, <1>7

LEMMA AppendWaits ==
  ASSUME NEW S, NEW q \in Seq(S), NEW e \in S, IsInjective(q), \A i \in 1..Len(q) : q[i] # e
  PROVE  /\ IsInjective(Append(q, e)) /\ Len(Append(q, e)) = Len(q) + 1
         /\ \A i \in 1..Len(q) : Append(q, e)[i] = q[i]
         /\ Append(q, e)[Len(q) + 1] = e
  <1>1. PICK n \in Nat : n = Len(q)
    OBVIOUS
  <1>2. /\ Append(q, e) \in Seq(S) /\ Len(Append(q, e)) = n + 1
        /\ \A i \in 1..n : Append(q, e)[i] = q[i]
        /\ Append(q, e)[n + 1] = e
    BY <1>1, AppendProperties
  <1>3. PICK p : p = Append(q, e)
    OBVIOUS
  <1>4. DOMAIN p = 1..(n + 1) /\ \A i \in 1..(n + 1) : i \in 1..n \/ i = n + 1
    BY <1>2, <1>3
  <1>5. \A i, k \in 1..n : q[i] = q[k] => i = k
    BY <1>1 DEF IsInjective
  <1>6. \A i \in 1..n : p[i] = q[i] /\ q[i] # e
    BY <1>1, <1>2, <1>3
  <1>7. p[n + 1] = e
    BY <1>2, <1>3
  <1>8. IsInjective(p)
    BY <1>4, <1>5, <1>6, <1>7 DEF IsInjective
  <1>9. QED BY <1>1, <1>2, <1>3, <1>8

\* A connection is accepted, or refused for want of a thread.
LEMMA AcceptedServer ==
  ASSUME TypeOK, ServerInv, WaitForConnection \/ ThreadFails
  PROVE  ServerInv'
  <1>1. PICK q \in Seq(Peer) : q = waiting["server"] /\ q # <<>>
    BY DEF TypeOK, WaitForConnection, ThreadFails
  <1>2. PICK c \in Peer : c = Head(q) /\ c = q[1]
    BY <1>1, TailProperties
  <1>3. 1 \in 1..Len(q)
    BY <1>1, TailProperties
  <1>4. handler[c].at = "none" /\ asker[c].at \notin Early
    BY <1>1, <1>2, <1>3 DEF ServerInv, Early
  <1>5. handler \in [Peer -> Handlers]
    BY HandlersTyped
  <1>6. ASSUME NEW at \in {"read", "refused"}
        PROVE  /\ [handler EXCEPT ![c].at = at] \in [Peer -> Handlers]
               /\ \A d \in Peer : Exchange([handler EXCEPT ![c].at = at][d], asker[d], wire[d],
                                           ServerDead)
    <2>1. [handler EXCEPT ![c].at = at] \in [Peer -> Handlers]
      BY <1>5 DEF Handlers
    <2>2. ASSUME NEW d \in Peer
          PROVE  Exchange([handler EXCEPT ![c].at = at][d], asker[d], wire[d], ServerDead)
      <3>1. CASE d = c
        <4>1. Exchange([handler[c] EXCEPT !.at = at], asker[c], wire[c], ServerDead)
          BY <1>4, TypedExchange, ExchangeAccepted DEF Early
        <4>2. [handler EXCEPT ![c].at = at][c] = [handler[c] EXCEPT !.at = at]
          BY <1>5
        <4>3. QED BY <3>1, <4>1, <4>2
      <3>2. CASE d # c
        <4>1. [handler EXCEPT ![c].at = at][d] = handler[d]
          BY <1>5, <3>2
        <4>2. QED BY <4>1, TypedExchange
      <3>3. QED BY <3>1, <3>2
    <2>3. QED BY <2>1, <2>2
  <1>7. CASE ServerEnds([handler EXCEPT ![c].at = "refused"])
    BY <1>6, <1>7, EndsServer
  <1>8. CASE /\ Take("server") /\ fds' \in {fds, fds + 1} /\ fds < MaxFd
             /\ \E at \in {"read", "refused"} : handler' = [handler EXCEPT ![c].at = at]
             /\ UNCHANGED <<life, wire, asker, http, browser>> /\ ServerUp
    <2>1. PICK at \in {"read", "refused"} : handler' = [handler EXCEPT ![c].at = at]
      BY <1>8
    <2>2. \A d \in Peer : Exchange(handler'[d], asker'[d], wire'[d], ServerDead')
      <3>1. ServerDead' = ServerDead /\ UNCHANGED <<wire, asker>>
        BY <1>8 DEF ServerDead
      <3>2. QED BY <1>6, <2>1, <3>1
    <2>3. ~(life'["server"] \in {"down", "built", "bound"})
      BY <1>8 DEF ServerUp
    <2>4. waiting'["server"] = Tail(q)
      BY <1>1, <1>8, TakeTyped DEF Process
    <2>5. IsInjective(q)
      BY <1>1 DEF ServerInv
    <2>6. IsInjective(waiting'["server"])
      BY <1>1, <2>4, <2>5, TailWaits
    <2>7. ASSUME NEW i \in 1..Len(Tail(q))
          PROVE  handler'[Tail(q)[i]].at = "none" /\ asker'[Tail(q)[i]].at \notin Early
      <3>1. PICK k \in 1..Len(q) : Tail(q)[i] = q[k] /\ q[k] # c
        BY <1>1, <1>2, <2>5, TailWaits
      <3>2. PICK d \in Peer : d = q[k]
        OBVIOUS
      <3>3. handler[d].at = "none" /\ asker[d].at \notin Early
        BY <1>1, <3>2 DEF ServerInv, Early
      <3>4. handler'[d] = handler[d] /\ asker' = asker
        BY <1>5, <1>8, <2>1, <3>1, <3>2
      <3>5. QED BY <3>1, <3>2, <3>3, <3>4
    <2>8. fds' <= MaxFd
      <3>1. fds \in Int /\ MaxFd \in Nat
        BY SocketAssumption DEF TypeOK
      <3>2. QED BY <1>8, <3>1
    <2>9. \A i \in 1..Len(waiting'["server"]) :
             /\ handler'[waiting'["server"][i]].at = "none"
             /\ asker'[waiting'["server"][i]].at \notin Early
      BY <2>4, <2>7
    <2>10. QED BY <2>2, <2>3, <2>6, <2>8, <2>9 DEF ServerInv, Early
  <1>9. QED BY <1>1, <1>2, <1>7, <1>8 DEF WaitForConnection, ThreadFails

\* A thread of the figure server takes a step.
LEMMA ThreadServer ==
  ASSUME TypeOK, ServerInv, NEW c \in Peer, NEW at, Handling(c, at), at # "none",
         NEW h, handler' = [handler EXCEPT ![c] = h], h.at # "none",
         NEW w, wire' = [wire EXCEPT ![c] = w],
         Exchange(h, asker[c], w, FALSE), ServerKeeps, fds' <= MaxFd
  PROVE  ServerInv'
  <1>1. handler \in [Peer -> Handlers] /\ wire \in [Peer -> Seq(Parts)]
    BY HandlersTyped DEF TypeOK
  <1>2. \A d \in Peer \ {c} :
            handler'[d] = handler[d] /\ asker'[d] = asker[d] /\ wire'[d] = wire[d]
    BY <1>1 DEF ServerKeeps
  <1>3. ServerDead = FALSE
    BY DEF Handling, ServerUp, ServerDead
  <1>4. Exchange(handler'[c], asker'[c], wire'[c], ServerDead)
    <2>1. handler'[c] = h /\ wire'[c] = w /\ asker' = asker
      BY <1>1 DEF ServerKeeps
    <2>2. QED BY <1>3, <2>1
  <1>5. handler[c].at = "none" => handler'[c].at = "none"
    BY DEF Handling
  <1>6. UNCHANGED <<life, asker>> /\ waiting'["server"] = waiting["server"]
    BY DEF ServerKeeps
  <1>7. QED BY <1>2, <1>4, <1>5, <1>6, OneExchange

LEMMA ServerServer ==
  ASSUME TypeOK, ServerInv, ServerStep
  PROVE  ServerInv'
  <1>0. /\ handler \in [Peer -> Handlers] /\ wire \in [Peer -> Seq(Parts)]
        /\ \A c \in Peer : Requested(c) = Heard(asker[c])
    BY HandlersTyped DEF TypeOK
  <1>1. CASE ServerDies
    BY <1>0, <1>1, TypedExchange, EndsServer DEF ServerDies
  <1>2. CASE WaitForConnection \/ ThreadFails
    BY <1>2, AcceptedServer
  <1>3. ASSUME NEW c \in Peer,
               Read(c) \/ validateRequest(c) \/ existASCII(c) \/ extractBlock(c) \/ Write(c)
                 \/ Close(c)
        PROVE  ServerInv'
    <2> DEFINE a == asker[c]
               g == handler[c]
    <2>1. ServerKeeps /\ ServerUp /\ wire = [wire EXCEPT ![c] = wire[c]]
      BY <1>0, <1>3 DEF Read, validateRequest, existASCII, extractBlock, Write, Close, Handling
    <2>2. /\ g \in Handlers /\ a \in Askers /\ wire[c] \in Seq(Parts)
          /\ Exchange(g, a, wire[c], FALSE)
      BY <2>1, TypedExchange DEF ServerUp, ServerDead
    <2>3. fds' <= MaxFd
      <3>1. fds \in Int /\ MaxFd \in Nat /\ fds <= MaxFd
        BY SocketAssumption DEF TypeOK, ServerInv
      <3>2. fds' = fds \/ (fds' = fds + 1 /\ fds < MaxFd) \/ fds' = fds - 1
        BY <1>3 DEF Read, validateRequest, existASCII, extractBlock, Write, Close
      <3>3. QED BY <3>1, <3>2
    <2>4. CASE Read(c)
      <3> DEFINE h == [g EXCEPT !.at = "handle"]
      <3>1. Handling(c, "read") /\ (a.sent \/ a.at \in {"done", "failed"}) /\ UNCHANGED wire
        BY <2>4 DEF Read, Gone
      <3>2. Exchange(h, a, wire[c], FALSE)
        BY <2>2, <3>1, ExchangeRead DEF Handling
      <3>3. handler' = [handler EXCEPT ![c] = h] /\ h.at # "none"
        BY <1>0, <2>2, <2>4 DEF Read, Goes, Handlers
      <3> HIDE DEF h
      <3>4. wire' = [wire EXCEPT ![c] = wire[c]]
        BY <2>1, <3>1
      <3>5. QED BY <2>1, <2>3, <3>1, <3>2, <3>3, <3>4, ThreadServer
    <2>5. CASE validateRequest(c)
      <3> DEFINE h == [g EXCEPT !.at = "write", !.out = Answer(Heard(a))]
      <3>1. /\ Handling(c, "handle") /\ UNCHANGED wire
            /\ ~(Heard(a).kind = "GET" /\ Heard(a).name \in Figure)
        BY <1>0, <2>5 DEF validateRequest, Found
      <3>2. Exchange(h, a, wire[c], FALSE)
        BY <2>2, <3>1, ExchangeAnswer DEF Handling
      <3>3. handler' = [handler EXCEPT ![c] = h] /\ h.at # "none"
        <4>1. PICK out : out = Answer(Heard(a))
          OBVIOUS
        <4>2. handler' = [handler EXCEPT ![c].at = "write", ![c].out = out]
          BY <1>0, <2>5, <4>1 DEF validateRequest, Writes
        <4>3. handler' = [handler EXCEPT ![c] = [g EXCEPT !.at = "write", !.out = out]]
          BY <1>0, <2>2, <4>2 DEF Handlers
        <4>4. [g EXCEPT !.at = "write", !.out = out].at = "write"
          BY <2>2 DEF Handlers
        <4>5. QED BY <4>1, <4>3, <4>4
      <3> HIDE DEF h
      <3>4. wire' = [wire EXCEPT ![c] = wire[c]]
        BY <2>1, <3>1
      <3>5. QED BY <2>1, <2>3, <3>1, <3>2, <3>3, <3>4, ThreadServer
    <2>6. CASE existASCII(c)
      <3> DEFINE h == [g EXCEPT !.at = "block", !.block = 1, !.out = <<Status("OK")>>]
      <3>1. /\ Handling(c, "handle") /\ UNCHANGED wire
            /\ Heard(a).kind = "GET" /\ Heard(a).name \in Figure
        BY <1>0, <2>6 DEF existASCII, Found
      <3>2. Exchange(h, a, wire[c], FALSE)
        BY <2>2, <3>1, ExchangeFound DEF Handling
      <3>3. handler' = [handler EXCEPT ![c] = h] /\ h.at # "none"
        <4>1. PICK out : out = <<Status("OK")>>
          OBVIOUS
        <4>2. handler' = [handler EXCEPT ![c].at = "block", ![c].block = 1, ![c].out = out]
          BY <2>6, <4>1 DEF existASCII
        <4>3. handler' = [handler EXCEPT ![c] = [g EXCEPT !.at = "block", !.block = 1, !.out = out]]
          BY <1>0, <2>2, <4>2 DEF Handlers
        <4>4. [g EXCEPT !.at = "block", !.block = 1, !.out = out].at = "block"
          BY <2>2 DEF Handlers
        <4>5. QED BY <4>1, <4>3, <4>4
      <3> HIDE DEF h
      <3>4. wire' = [wire EXCEPT ![c] = wire[c]]
        BY <2>1, <3>1
      <3>5. QED BY <2>1, <2>3, <3>1, <3>2, <3>3, <3>4, ThreadServer
    <2>7. CASE extractBlock(c)
      <3>1. PICK out, all, n : /\ out = Append(g.out, Piece(Heard(a).name, g.block))
                               /\ all = Append(out, End) /\ n = g.block + 1
        OBVIOUS
      <3>2. /\ g.block # Size[Heard(a).name] =>
                 Exchange([g EXCEPT !.block = n, !.out = out], a, wire[c], FALSE)
            /\ g.block = Size[Heard(a).name] =>
                 Exchange([g EXCEPT !.at = "write", !.out = all], a, wire[c], FALSE)
        BY <2>2, <2>7, <3>1, ExchangeBlock DEF extractBlock, Handling
      <3>3. /\ Handling(c, "block") /\ UNCHANGED wire
            /\ IF g.block = Size[Heard(a).name]
               THEN handler' = [handler EXCEPT ![c].at = "write", ![c].out = all]
               ELSE handler' = [handler EXCEPT ![c].block = n, ![c].out = out]
        BY <1>0, <2>7, <3>1 DEF extractBlock, LastBlock, Writes
      <3>4. wire' = [wire EXCEPT ![c] = wire[c]]
        BY <2>1, <3>3
      <3>5. CASE g.block = Size[Heard(a).name]
        <4> DEFINE h == [g EXCEPT !.at = "write", !.out = all]
        <4>1. handler' = [handler EXCEPT ![c] = h] /\ h.at # "none"
          BY <1>0, <2>2, <3>3, <3>5 DEF Handlers
        <4>2. Exchange(h, a, wire[c], FALSE)
          BY <3>2, <3>5
        <4> HIDE DEF h
        <4>3. QED BY <2>1, <2>3, <3>3, <3>4, <4>1, <4>2, ThreadServer
      <3>6. CASE g.block # Size[Heard(a).name]
        <4> DEFINE h == [g EXCEPT !.block = n, !.out = out]
        <4>1. handler' = [handler EXCEPT ![c] = h] /\ h.at = "block"
          BY <1>0, <2>2, <3>3, <3>6 DEF Handlers, Handling
        <4>2. Exchange(h, a, wire[c], FALSE)
          BY <3>2, <3>6
        <4> HIDE DEF h
        <4>3. QED BY <2>1, <2>3, <3>3, <3>4, <4>1, <4>2, ThreadServer
      <3>7. QED BY <3>5, <3>6
    <2>8. CASE Write(c)
      <3>8. PICK gone \in BOOLEAN : gone = Gone(c)
        <4>1. Gone(c) \in BOOLEAN
          BY DEF Gone
        <4>2. QED BY <4>1
      <3>9. PICK tail, w : /\ tail = Tail(g.out)
                           /\ w = IF gone THEN wire[c] ELSE Append(wire[c], Head(g.out))
        OBVIOUS
      <3>1. /\ gone = (a.at \in {"done", "failed"}) /\ tail = Tail(g.out)
            /\ w = IF gone THEN wire[c] ELSE Append(wire[c], Head(g.out))
        BY <3>8, <3>9 DEF Gone
      <3> DEFINE h == [g EXCEPT !.out = tail, !.broken = g.broken \/ gone]
      <3>2. Gone(c) = gone
        BY <3>8
      <3>3. Exchange(h, a, w, FALSE)
        BY <2>2, <2>8, <3>1, ExchangeWrite DEF Write, Handling
      <3>4. handler' = [handler EXCEPT ![c] = h] /\ h.at = "write"
        <4>1. handler' = [handler EXCEPT ![c].out = tail, ![c].broken = @ \/ gone]
          BY <2>8, <3>1, <3>2 DEF Write
        <4>2. PICK broken : broken = (g.broken \/ gone)
          OBVIOUS
        <4>3. QED BY <1>0, <2>2, <2>8, <4>1, <4>2 DEF Handlers, Write, Handling
      <3>5. wire' = [wire EXCEPT ![c] = w]
        BY <1>0, <2>8, <3>1, <3>2 DEF Write
      <3>6. Handling(c, "write")
        BY <2>8 DEF Write
      <3> HIDE DEF h
      <3>7. QED BY <2>1, <2>3, <3>3, <3>4, <3>5, <3>6, ThreadServer
    <2>9. CASE Close(c)
      <3> DEFINE h == [g EXCEPT !.at = "end"]
      <3>1. Handling(c, "write") /\ g.out = <<>> /\ UNCHANGED wire
        BY <2>9 DEF Close, Closes
      <3>2. Exchange(h, a, wire[c], FALSE)
        BY <2>2, <3>1, ExchangeClosed DEF Handling
      <3>3. handler' = [handler EXCEPT ![c] = h] /\ h.at # "none"
        BY <1>0, <2>2, <2>9 DEF Close, Goes, Handlers
      <3> HIDE DEF h
      <3>4. wire' = [wire EXCEPT ![c] = wire[c]]
        BY <2>1, <3>1
      <3>5. QED BY <2>1, <2>3, <3>1, <3>2, <3>3, <3>4, ThreadServer
    <2>10. QED BY <1>3, <2>4, <2>5, <2>6, <2>7, <2>8, <2>9
  <1>4. QED BY <1>1, <1>2, <1>3 DEF ServerStep, AcceptThrows, OpenFails, WriteThrows

\* The other end of a connection takes a step that neither end of the server notices.
LEMMA AskerServerOne ==
  ASSUME TypeOK, ServerInv, NEW c \in Peer, NEW b, asker' = [asker EXCEPT ![c] = b],
         UNCHANGED <<life, fds, handler, wire>>, waiting'["server"] = waiting["server"],
         Exchange(handler[c], b, wire[c], ServerDead),
         asker[c].at \notin Early => b.at \notin Early
  PROVE  ServerInv'
  <1>1. asker \in [Peer -> Askers]
    BY HandlersTyped
  <1>2. asker'[c] = b /\ \A d \in Peer \ {c} : asker'[d] = asker[d]
    BY <1>1
  <1>3. fds' <= MaxFd
    BY DEF ServerInv
  <1>4. Exchange(handler'[c], asker'[c], wire'[c], ServerDead)
    BY <1>2
  <1>5. QED BY <1>2, <1>3, <1>4, OneExchange

LEMMA AskerServer ==
  ASSUME TypeOK, ServerInv, NEW c \in Peer, AskerStep(c)
  PROVE  ServerInv'
  <1>0. /\ handler \in [Peer -> Handlers] /\ asker \in [Peer -> Askers]
        /\ wire \in [Peer -> Seq(Parts)]
    BY HandlersTyped DEF TypeOK
  <1> DEFINE a == asker[c]
             g == handler[c]
  <1>1. /\ g \in Handlers /\ a \in Askers /\ wire[c] \in Seq(Parts) /\ ServerDead \in BOOLEAN
        /\ Exchange(g, a, wire[c], ServerDead)
    BY TypedExchange
  <1>2. UNCHANGED <<life, fds, http, browser>>
    BY DEF AskerStep, Visit, EstablishConnection, WriteRequest, Receive, EndOfAnswer, TimesOut,
           AskerKeeps
  <1>3. ASSUME NEW at \in {"connecting", "connected", "failed", "done"}, Asks(c, at)
        PROVE  asker' = [asker EXCEPT ![c] = [a EXCEPT !.at = at]]
    BY <1>0, <1>3 DEF Asks
  <1>4. ASSUME NEW at \in {"connecting", "connected", "failed", "done"}
        PROVE  /\ [a EXCEPT !.at = at] \in Askers /\ [a EXCEPT !.at = at].at = at
               /\ [a EXCEPT !.at = at].sent = a.sent /\ [a EXCEPT !.at = at].got = a.got
    BY <1>1 DEF Askers
  <1>5. ASSUME NEW at \in {"connecting", "connected", "failed"}, a.at \in Early
        PROVE  Exchange(g, [a EXCEPT !.at = at], wire[c], ServerDead)
    <2>1. PICK b \in Askers : /\ b = [a EXCEPT !.at = at] /\ b.at = at
                              /\ b.sent = a.sent /\ b.got = a.got
      BY <1>4
    <2>2. a.at \in {"absent", "idle", "connecting"}
      BY <1>5 DEF Early
    <2> HIDE DEF a, g
    <2>3. Exchange(g, b, wire[c], ServerDead)
      BY <1>1, <2>1, <2>2, ExchangeBegins
    <2>4. QED BY <2>1, <2>3
  <1>6. CASE Visit(c)
    <2>1. Asks(c, "connecting") /\ a.at \in Early /\ UNCHANGED <<waiting, handler, wire>>
      BY <1>6 DEF Visit, Early
    <2>2. QED BY <1>2, <1>3, <1>5, <2>1, AskerServerOne
  <1>7. CASE EstablishConnection(c) /\ UNCHANGED waiting
    <2>1. Asks(c, "failed") /\ a.at \in Early /\ UNCHANGED <<handler, wire>>
      <3>1. waiting["server"] \in Seq(Peer)
        BY DEF TypeOK
      <3>2. Len(Append(waiting["server"], c)) = Len(waiting["server"]) + 1
        BY <3>1, AppendProperties
      <3>3. ~(waiting' = [waiting EXCEPT !["server"] = Append(@, c)])
        <4> SUFFICES ASSUME waiting' = [waiting EXCEPT !["server"] = Append(@, c)] PROVE FALSE
          OBVIOUS
        <4>1. waiting'["server"] = Append(waiting["server"], c)
          BY DEF TypeOK, Process
        <4>2. Append(waiting["server"], c) = waiting["server"]
          BY <1>7, <4>1
        <4>3. Len(waiting["server"]) = Len(waiting["server"]) + 1 /\ Len(waiting["server"]) \in Nat
          BY <3>1, <3>2, <4>2
        <4>4. QED BY <4>3
      <3>4. QED BY <1>7, <3>3 DEF EstablishConnection, AskerAt, Early
    <2>2. QED BY <1>2, <1>3, <1>5, <1>7, <2>1, AskerServerOne
  <1>8. CASE EstablishConnection(c) /\ ~UNCHANGED waiting
    <2>1. /\ a.at = "connecting" /\ ServerUp /\ Asks(c, "connected") /\ UNCHANGED <<handler, wire>>
          /\ waiting' = [waiting EXCEPT !["server"] = Append(@, c)]
      BY <1>8 DEF EstablishConnection, AskerAt
    <2>2. PICK q \in Seq(Peer) : q = waiting["server"] /\ waiting'["server"] = Append(q, c)
      BY <2>1 DEF TypeOK, Process
    <2>3. PICK b \in Askers : /\ b.at = "connected" /\ asker' = [asker EXCEPT ![c] = b]
                              /\ Exchange(g, b, wire[c], ServerDead)
      <3> DEFINE b == [a EXCEPT !.at = "connected"]
      <3>1. b \in Askers /\ b.at = "connected" /\ asker' = [asker EXCEPT ![c] = b]
        BY <1>3, <1>4, <2>1
      <3>2. Exchange(g, b, wire[c], ServerDead)
        BY <1>5, <2>1 DEF Early
      <3> HIDE DEF b
      <3>3. QED BY <3>1, <3>2
    <2>4. \A d \in Peer : asker'[d] = IF d = c THEN b ELSE asker[d]
      BY <1>0, <2>3
    <2>5. ServerDead' = ServerDead /\ UNCHANGED <<handler, wire>>
      BY <1>2, <2>1 DEF ServerDead
    <2>6. \A d \in Peer : Exchange(handler'[d], asker'[d], wire'[d], ServerDead')
      <3> SUFFICES ASSUME NEW d \in Peer
                   PROVE  Exchange(handler[d], asker'[d], wire[d], ServerDead)
        BY <2>5
      <3>1. CASE d = c
        BY <2>3, <2>4, <3>1
      <3>2. CASE d # c
        <4>1. asker'[d] = asker[d]
          BY <2>4, <3>2
        <4>2. QED BY <4>1, TypedExchange
      <3>3. QED BY <3>1, <3>2
    <2>7. IsInjective(q)
      BY <2>2 DEF ServerInv
    <2>8. ASSUME NEW i \in 1..Len(q)
          PROVE  q[i] # c /\ handler[q[i]].at = "none" /\ asker'[q[i]].at \notin Early
      <3>1. PICK d \in Peer : d = q[i]
        OBVIOUS
      <3>2. handler[d].at = "none" /\ asker[d].at \notin Early
        BY <2>2, <3>1 DEF ServerInv, Early
      <3>3. d # c
        BY <2>1, <3>2 DEF Early
      <3>4. asker'[d] = asker[d]
        BY <2>4, <3>3
      <3>5. QED BY <3>1, <3>2, <3>3, <3>4
    <2>9. PICK n, p : n \in Nat /\ n = Len(q) /\ p = Append(q, c)
      <3>1. PICK p : p = Append(q, c)
        OBVIOUS
      <3>2. QED BY <3>1
    <2>10. /\ IsInjective(p) /\ Len(p) = n + 1
           /\ \A i \in 1..n : p[i] = q[i]
           /\ p[n + 1] = c
      BY <2>7, <2>8, <2>9, AppendWaits
    <2>11. g.at = "none" /\ asker'[c].at \notin Early
      <3>1. g.at = "none"
        BY <1>1, <2>1 DEF Exchange
      <3>2. QED BY <2>3, <2>4, <3>1 DEF Early
    <2>12. ASSUME NEW i \in 1..(n + 1)
           PROVE  handler'[p[i]].at = "none" /\ asker'[p[i]].at \notin Early
      <3>1. CASE i \in 1..n
        BY <2>5, <2>8, <2>9, <2>10, <3>1
      <3>2. CASE i = n + 1
        BY <2>5, <2>10, <2>11, <3>2
      <3>3. QED BY <2>9, <3>1, <3>2
    <2>13. /\ IsInjective(waiting'["server"])
           /\ \A i \in 1..Len(waiting'["server"]) :
                 /\ handler'[waiting'["server"][i]].at = "none"
                 /\ asker'[waiting'["server"][i]].at \notin Early
      BY <2>2, <2>9, <2>10, <2>12
    <2>14. ~(life'["server"] \in {"down", "built", "bound"}) /\ fds' <= MaxFd
      BY <1>2, <2>1 DEF ServerUp, ServerInv
    <2>15. QED BY <2>6, <2>13, <2>14 DEF ServerInv, Early
  <1>9. CASE WriteRequest(c)
    <2>1. a.at = "connected" /\ UNCHANGED <<waiting, handler, wire>>
      BY <1>9 DEF WriteRequest, AskerAt
    <2>2. CASE Asks(c, "failed")
      <3>1. Exchange(g, [a EXCEPT !.at = "failed"], wire[c], ServerDead)
        BY <1>1, <2>1, ExchangeFails
      <3>2. [a EXCEPT !.at = "failed"].at \notin Early
        BY <1>4 DEF Early
      <3>3. QED BY <1>2, <1>3, <2>1, <2>2, <3>1, <3>2, AskerServerOne
    <2>3. CASE ~Ended(c) /\ asker' = [asker EXCEPT ![c].at = "open", ![c].sent = TRUE]
      <3> DEFINE b == [a EXCEPT !.at = "open", !.sent = TRUE]
      <3>1. asker' = [asker EXCEPT ![c] = b] /\ b.at \notin Early
        BY <1>0, <1>1, <2>3 DEF Askers, Early
      <3>2. Exchange(g, b, wire[c], ServerDead)
        BY <1>1, <2>1, <2>3, ExchangeOpens DEF Ended
      <3> HIDE DEF b
      <3>3. QED BY <1>2, <2>1, <3>1, <3>2, AskerServerOne
    <2>4. QED BY <1>9, <2>2, <2>3 DEF WriteRequest
  <1>10. CASE Receive(c)
    <2>1. PICK k \in 1..Len(wire[c]) :
            LET got == a.got \o SubSeq(wire[c], 1, k)
                over == ReadAnswer(got)
            IN /\ asker' = [asker EXCEPT ![c].got = got, ![c].at = IF over THEN "done" ELSE @]
               /\ wire' = [wire EXCEPT ![c] = IF over THEN <<>> ELSE SubSeq(@, k + 1, Len(@))]
               /\ handler' = [handler EXCEPT ![c].broken = @ \/ (over /\ k < Len(wire[c]))]
      BY <1>10 DEF Receive
    <2>2. PICK got : got = a.got \o SubSeq(wire[c], 1, k)
      OBVIOUS
    <2>3. PICK over \in BOOLEAN : over = ReadAnswer(got)
      <3>1. ReadAnswer(got) \in BOOLEAN
        BY DEF ReadAnswer
      <3>2. QED BY <3>1
    <2>4. /\ asker' = [asker EXCEPT ![c].got = got, ![c].at = IF over THEN "done" ELSE @]
          /\ wire' = [wire EXCEPT ![c] = IF over THEN <<>> ELSE SubSeq(@, k + 1, Len(@))]
          /\ handler' = [handler EXCEPT ![c].broken = @ \/ (over /\ k < Len(wire[c]))]
      BY <2>1, <2>2, <2>3
    <2>5. a.at = "open" /\ wire[c] # <<>> /\ UNCHANGED waiting
      BY <1>10 DEF Receive, AskerAt
    <2> DEFINE h2 == [g EXCEPT !.broken = @ \/ (over /\ k < Len(wire[c]))]
               a2 == [a EXCEPT !.got = got, !.at = IF over THEN "done" ELSE @]
               w2 == IF over THEN <<>> ELSE SubSeq(wire[c], k + 1, Len(wire[c]))
    <2>6. Exchange(h2, a2, w2, ServerDead)
      <3>1. PICK w \in Seq(Parts), dead \in BOOLEAN : w = wire[c] /\ dead = ServerDead
        BY <1>1
      <3>2. Exchange(g, a, w, dead) /\ w # <<>> /\ k \in 1..Len(w)
        BY <1>1, <2>5, <3>1
      <3>3. got = a.got \o SubSeq(w, 1, k)
        BY <2>2, <3>1
      <3>4. /\ h2.at = g.at /\ h2.block = g.block /\ h2.out = g.out
            /\ h2.broken => g.broken \/ (over /\ k < Len(w))
        BY <1>1, <3>1 DEF Handlers
      <3>6. /\ a2.at = (IF over THEN "done" ELSE "open") /\ a2.sent = a.sent /\ a2.got = got
            /\ a2.ask = a.ask
        BY <1>1, <2>5 DEF Askers
      <3>7. w2 = (IF over THEN <<>> ELSE SubSeq(w, k + 1, Len(w)))
        BY <3>1
      <3>8. over <=> ReadAnswer(got)
        BY <2>3
      <3> HIDE DEF a, g, h2, a2, w2
      <3>5. Exchange(h2, a2, w2, dead)
        BY <1>1, <2>5, <3>2, <3>3, <3>4, <3>6, <3>7, <3>8, ExchangeReceived
      <3>9. QED BY <3>1, <3>5
    <2>7. /\ handler'[c] = h2 /\ asker'[c] = a2 /\ wire'[c] = w2
          /\ \A d \in Peer \ {c} :
               handler'[d] = handler[d] /\ asker'[d] = asker[d] /\ wire'[d] = wire[d]
      <3>1. handler'[c] = h2 /\ \A d \in Peer \ {c} : handler'[d] = handler[d]
        BY <1>0, <2>4
      <3>2. asker'[c] = a2 /\ \A d \in Peer \ {c} : asker'[d] = asker[d]
        BY <1>0, <1>1, <2>4
      <3>3. wire'[c] = w2 /\ \A d \in Peer \ {c} : wire'[d] = wire[d]
        BY <1>0, <2>4
      <3>4. QED BY <3>1, <3>2, <3>3
    <2>8. h2.at = g.at /\ a2.at \notin Early
      BY <1>1, <2>5 DEF Handlers, Askers, Early
    <2> HIDE DEF h2, a2, w2
    <2>9. fds' <= MaxFd
      BY <1>2 DEF ServerInv
    <2>10. Exchange(handler'[c], asker'[c], wire'[c], ServerDead)
      BY <2>6, <2>7
    <2>11. /\ handler[c].at = "none" => handler'[c].at = "none"
           /\ asker'[c].at \notin Early
      BY <2>7, <2>8
    <2>12. QED BY <1>2, <2>5, <2>7, <2>9, <2>10, <2>11, OneExchange
  <1>11. CASE EndOfAnswer(c) \/ TimesOut(c)
    <2>1. a.at = "open" /\ wire[c] = <<>> /\ UNCHANGED <<waiting, handler, wire>>
      BY <1>11 DEF EndOfAnswer, TimesOut, AskerAt
    <2>2. CASE Asks(c, "failed")
      <3>1. Exchange(g, [a EXCEPT !.at = "failed"], wire[c], ServerDead)
        BY <1>1, <2>1, ExchangeFails
      <3>2. [a EXCEPT !.at = "failed"].at \notin Early
        BY <1>4 DEF Early
      <3>3. QED BY <1>2, <1>3, <2>1, <2>2, <3>1, <3>2, AskerServerOne
    <2>3. CASE Asks(c, "done") /\ a.got # <<>> /\ Ended(c)
      <3>1. g.at \in {"none", "refused", "end"}
        BY <2>3 DEF Ended
      <3>2. Exchange(g, [a EXCEPT !.at = "done"], wire[c], ServerDead)
        BY <1>1, <2>1, <2>3, <3>1, ExchangeEnds
      <3>3. [a EXCEPT !.at = "done"].at \notin Early
        BY <1>4 DEF Early
      <3>4. QED BY <1>2, <1>3, <2>1, <2>3, <3>2, <3>3, AskerServerOne
    <2>4. QED BY <1>11, <2>2, <2>3 DEF EndOfAnswer, TimesOut
  <1>12. QED BY <1>6, <1>7, <1>8, <1>9, <1>10, <1>11 DEF AskerStep

LEMMA QuietServer ==
  ASSUME ServerInv, UNCHANGED <<fds, handler, wire, asker>>,
         life'["server"] = life["server"], waiting'["server"] = waiting["server"]
  PROVE  ServerInv'
  <1>1. ServerDead' = ServerDead
    BY DEF ServerDead
  <1>2. \A c \in Peer : Exchange(handler'[c], asker'[c], wire'[c], ServerDead')
    BY <1>1 DEF ServerInv
  <1>3. QED BY <1>2 DEF ServerInv

LEMMA KeeperServer ==
  ASSUME TypeOK, ServerInv, KeeperInv, KeeperStep
  PROVE  ServerInv'
  <1>0. /\ asker \in [Peer -> Askers] /\ Client \in Browser /\ Client \in Peer
        /\ browser \in [Browser -> Browsers]
    BY KeepersTyped, HandlersTyped DEF Client, Peer
  <1>1. CASE KeeperDies
    <2>1. UNCHANGED <<fds, handler, wire>> /\ life'["server"] = life["server"]
          /\ waiting'["server"] = waiting["server"]
      BY <1>1 DEF KeeperDies, TypeOK, Process, serverVars
    <2>2. ASSUME NEW c \in Peer
          PROVE  /\ asker'[c] = asker[c] \/ (/\ asker[c].at \in {"connected", "open"}
                                             /\ asker'[c] = [asker[c] EXCEPT !.at = "failed"])
                 /\ asker[c].at \notin Early => asker'[c].at \notin Early
      <3>1. asker'[c] = asker[c] \/ (/\ asker[c].at \in {"connected", "open"}
                                     /\ asker'[c] = [asker[c] EXCEPT !.at = "failed"])
        BY <1>1 DEF KeeperDies
      <3>2. [asker[c] EXCEPT !.at = "failed"].at = "failed"
        BY <1>0 DEF Askers
      <3>3. QED BY <3>1, <3>2 DEF Early
    <2>3. ServerDead' = ServerDead
      BY <2>1 DEF ServerDead
    <2>4. \A c \in Peer : Exchange(handler'[c], asker'[c], wire'[c], ServerDead')
      <3> SUFFICES ASSUME NEW c \in Peer
                   PROVE  Exchange(handler[c], asker'[c], wire[c], ServerDead)
        BY <2>1, <2>3
      <3>1. CASE asker'[c] = asker[c]
        BY <3>1, TypedExchange
      <3>2. CASE /\ asker[c].at \in {"connected", "open"}
                 /\ asker'[c] = [asker[c] EXCEPT !.at = "failed"]
        <4>1. Exchange(handler[c], [asker[c] EXCEPT !.at = "failed"], wire[c], ServerDead)
          BY <3>2, TypedExchange, ExchangeFails
        <4>2. QED BY <3>2, <4>1
      <3>3. QED BY <2>2, <3>1, <3>2
    <2>5. \A i \in 1..Len(waiting["server"]) : asker'[waiting["server"][i]].at \notin Early
      <3> SUFFICES ASSUME NEW i \in 1..Len(waiting["server"])
                   PROVE  asker'[waiting["server"][i]].at \notin Early
        OBVIOUS
      <3>1. PICK q \in Seq(Peer) : q = waiting["server"]
        BY DEF TypeOK
      <3>2. PICK c \in Peer : c = q[i]
        BY <3>1
      <3>3. asker[c].at \notin Early
        BY <3>1, <3>2 DEF ServerInv, Early
      <3>4. QED BY <2>2, <3>1, <3>2, <3>3
    <2>6. QED BY <2>1, <2>4, <2>5 DEF ServerInv, Early
  <1>2. CASE AskServer
    <2>1. PICK name :
            asker' = [asker EXCEPT ![Client].at = "connecting",
                                   ![Client].ask = [kind |-> "GET", name |-> name]]
      BY <1>2 DEF AskServer
    <2>2. UNCHANGED <<life, fds, handler, wire, waiting>>
      BY <1>2 DEF AskServer, KeeperKeeps, serverVars
    <2>3. asker[Client].at = "idle"
      BY <1>2 DEF AskServer, KeeperUp, KeeperInv, Turn, Client
    <2>4. PICK c \in Peer : c = Client
      BY <1>0
    <2>5. PICK ask : ask = [kind |-> "GET", name |-> name]
      OBVIOUS
    <2> DEFINE b == [asker[c] EXCEPT !.at = "connecting", !.ask = ask]
    <2>6. asker' = [asker EXCEPT ![c] = b]
      <3>1. asker' = [asker EXCEPT ![c].at = "connecting", ![c].ask = ask]
        BY <2>1, <2>4, <2>5
      <3>2. asker[c] \in Askers
        BY <1>0
      <3>3. QED BY <1>0, <3>1, <3>2 DEF Askers
    <2>7. b \in Askers /\ b.at = "connecting" /\ b.sent = asker[c].sent /\ b.got = asker[c].got
      <3>1. asker' \in [Peer -> Askers]
        <4>1. TypeOK'
          BY <1>2, KeeperTyped DEF KeeperStep
        <4>2. QED BY <4>1 DEF TypeOK, Askers
      <3>2. b \in Askers
        BY <1>0, <2>6, <3>1
      <3>3. asker[c] \in Askers
        BY <1>0
      <3>4. QED BY <3>2, <3>3 DEF Askers
    <2>8. Exchange(handler[c], b, wire[c], ServerDead)
      <3>1. asker[c].at \in {"absent", "idle", "connecting"} /\ asker[c] \in Askers
        BY <1>0, <2>3, <2>4
      <3>2. /\ handler[c] \in Handlers /\ wire[c] \in Seq(Parts) /\ ServerDead \in BOOLEAN
            /\ Exchange(handler[c], asker[c], wire[c], ServerDead)
        BY TypedExchange
      <3>3. b.at \in {"connecting", "connected", "failed"}
        BY <2>7
      <3> HIDE DEF b
      <3>4. QED BY <2>7, <3>1, <3>2, <3>3, ExchangeBegins
    <2>9. asker[c].at \notin Early => b.at \notin Early
      BY <2>3, <2>4 DEF Early
    <2> HIDE DEF b
    <2>10. QED BY <2>2, <2>6, <2>8, <2>9, AskerServerOne
  <1>3. CASE ~KeeperDies /\ ~AskServer
    <2>1. UNCHANGED <<life, fds, handler, wire, asker>> /\ waiting'["server"] = waiting["server"]
      <3>1. UNCHANGED <<life, fds, handler, wire, asker>>
        BY <1>3 DEF KeeperStep, AcceptConnection, ReadHeader, HandlePage, Relay, RequestThrows,
                    WriteHttp, WriteHttpThrows, CloseClient, KeeperKeeps, serverVars
      <3>2. CASE AcceptConnection
        BY <3>1, <3>2, TakeTyped DEF AcceptConnection, Process
      <3>3. CASE UNCHANGED waiting
        BY <3>1, <3>3
      <3>4. QED
        BY <1>3, <3>1, <3>2, <3>3
           DEF KeeperStep, ReadHeader, HandlePage, Relay, RequestThrows, WriteHttp, WriteHttpThrows,
               CloseClient
    <2>2. QED BY <2>1, QuietServer
  <1>4. QED BY <1>1, <1>2, <1>3

LEMMA BrowserServer ==
  ASSUME TypeOK, ServerInv, NEW h \in Browser, BrowserStep(h)
  PROVE  ServerInv'
  <1>1. UNCHANGED <<life, fds, handler, wire, asker>>
    BY DEF BrowserStep, MakeConnection, SendRequest, Leave, BrowserKeeps, serverVars
  <1>2. waiting'["server"] = waiting["server"]
    BY DEF BrowserStep, MakeConnection, SendRequest, Leave, TypeOK, Process
  <1>3. QED BY <1>1, <1>2, QuietServer

-----------------------------------------------------------------------------
(* What a browser is sent                                                  *)

\* An answer that is translated: what was read, but for its end.
LEMMA TranslatedParts ==
  ASSUME NEW got \in Seq(Parts), NEW n \in Nat \ {0}, n = Len(got), n > 1 \/ got[1] # End,
         got[1] # Status("201"), NEW t, t = Translated(got)
  PROVE  /\ t \in Seq(Parts) /\ t[1] = Status("200")
         /\ got[n] = End => Len(t) = n - 1
         /\ got[n] # End => Len(t) = n /\ (n > 1 => t[n] = Clipped)
         /\ \A k \in 2..(n - 1) : t[k] = got[k]
  <1>1. /\ Head(got) = got[1] /\ got # <<>>
        /\ Len(got) > 1 \/ got[1] # End
    BY EmptySeq
  <1>2. Front(got) \in Seq(Parts) /\ Len(Front(got)) = n - 1 /\ Last(got) = got[n]
        /\ \A k \in 1..(n - 1) : Front(got)[k] = got[k]
    <2>1. 1 \in Int /\ n - 1 \in Int /\ \A i \in 1..(n - 1) : got[i] \in Parts
      OBVIOUS
    <2>2. Front(got) = SubSeq(got, 1, n - 1) /\ Last(got) = got[n]
      BY DEF Front, Last
    <2>3. /\ SubSeq(got, 1, n - 1) \in Seq(Parts)
          /\ Len(SubSeq(got, 1, n - 1)) = IF 1 <= n - 1 THEN n - 1 - 1 + 1 ELSE 0
          /\ \A i \in 1..(n - 1 - 1 + 1) : SubSeq(got, 1, n - 1)[i] = got[1 + i - 1]
      BY <2>1, SubSeqProperties
    <2>4. n - 1 - 1 + 1 = n - 1 /\ (~(1 <= n - 1) => n - 1 = 0)
          /\ \A i \in 1..(n - 1) : 1 + i - 1 = i
      OBVIOUS
    <2>5. Len(SubSeq(got, 1, n - 1)) = n - 1
      BY <2>3, <2>4
    <2>6. \A i \in 1..(n - 1) : SubSeq(got, 1, n - 1)[i] = got[i]
      BY <2>3, <2>4
    <2>7. QED BY <2>2, <2>3, <2>5, <2>6
  <1>3. PICK body \in Seq(Parts) :
          /\ body = IF Last(got) = End THEN Front(got) ELSE Append(Front(got), Clipped)
          /\ got[n] = End => Len(body) = n - 1
          /\ got[n] # End => Len(body) = n /\ body[n] = Clipped
          /\ \A k \in 1..(n - 1) : body[k] = got[k]
    <2>1. CASE got[n] = End
      BY <1>2, <2>1
    <2>2. CASE got[n] # End
      <3>1. PICK f \in Seq(Parts), c \in Parts : f = Front(got) /\ c = Clipped
        BY <1>2, StatusTyped
      <3>2. /\ Append(f, c) \in Seq(Parts) /\ Len(Append(f, c)) = Len(f) + 1
            /\ \A k \in 1..Len(f) : Append(f, c)[k] = f[k]
            /\ Append(f, c)[Len(f) + 1] = c
        BY AppendProperties
      <3>3. Len(f) = n - 1 /\ Len(f) + 1 = n
        BY <1>2, <3>1
      <3>4. Len(Append(f, c)) = n /\ Append(f, c)[n] = c
        BY <3>2, <3>3
      <3>5. \A k \in 1..(n - 1) : Append(f, c)[k] = got[k]
        BY <1>2, <3>1, <3>2, <3>3
      <3>6. QED BY <1>2, <2>2, <3>1, <3>2, <3>4, <3>5
    <2>3. QED BY <2>1, <2>2
  <1>4. PICK m \in Nat \ {0} : m = Len(body)
    <2>1. Len(body) # 0
      <3>1. CASE got[n] = End
        <4>1. n # 1
          BY <1>1, <3>1
        <4>2. QED BY <1>3, <3>1, <4>1
      <3>2. CASE got[n] # End
        BY <1>3, <3>2
      <3>3. QED BY <3>1, <3>2
    <2>2. QED BY <2>1
  <1>5. PICK rest \in Seq(Parts) : rest = Tail(body) /\ Len(rest) = m - 1
                                   /\ \A k \in 1..(m - 1) : rest[k] = body[k + 1]
    <2>1. body # <<>>
      BY <1>4, EmptySeq
    <2>2. /\ Tail(body) \in Seq(Parts) /\ Len(Tail(body)) = m - 1
          /\ \A k \in 1..(m - 1) : Tail(body)[k] = body[k + 1]
      BY <1>4, <2>1, TailProperties
    <2>3. QED BY <2>2
  <1>6. PICK s \in Seq(Parts) : s = <<Status("200")>> /\ Len(s) = 1 /\ s[1] = Status("200")
    <2>1. PICK p \in Parts : p = Status("200")
      BY StatusTyped
    <2>2. <<p>> \in Seq(Parts) /\ Len(<<p>>) = 1 /\ <<p>>[1] = p
      OBVIOUS
    <2>3. QED BY <2>1, <2>2
  <1>7. t = s \o rest
    BY <1>1, <1>3, <1>5, <1>6 DEF Translated
  <1>8. t \in Seq(Parts) /\ Len(t) = m /\ t[1] = Status("200") /\ \A k \in 2..m : t[k] = body[k]
    <2>1. /\ s \o rest \in Seq(Parts) /\ Len(s \o rest) = Len(s) + Len(rest)
          /\ \A i \in 1..(Len(s) + Len(rest)) :
               (s \o rest)[i] = IF i <= Len(s) THEN s[i] ELSE rest[i - Len(s)]
      BY ConcatProperties
    <2>2. Len(s) + Len(rest) = m /\ Len(s) = 1
      BY <1>5, <1>6
    <2>3. \A i \in 1..m : t[i] = IF i <= 1 THEN s[i] ELSE rest[i - 1]
      BY <1>7, <2>1, <2>2
    <2>4. 1 \in 1..m
      OBVIOUS
    <2>5. ASSUME NEW k \in 2..m PROVE t[k] = body[k]
      <3>1. k \in 1..m /\ ~(k <= 1) /\ k - 1 \in 1..(m - 1) /\ k - 1 + 1 = k
        OBVIOUS
      <3>2. QED BY <1>5, <2>3, <3>1
    <2>6. t[1] = Status("200")
      BY <1>6, <2>3, <2>4
    <2>7. QED BY <1>7, <2>1, <2>2, <2>5, <2>6
  <1>9. \A k \in 2..(n - 1) : t[k] = got[k]
    <2> SUFFICES ASSUME NEW k \in 2..(n - 1) PROVE t[k] = got[k]
      OBVIOUS
    <2>1. m = n - 1 \/ m = n
      BY <1>3, <1>4
    <2>2. k \in 2..m /\ k \in 1..(n - 1)
      BY <2>1
    <2>3. QED BY <1>3, <1>8, <2>2
  <1>10. got[n] # End => Len(t) = n /\ (n > 1 => t[n] = Clipped)
    <2> SUFFICES ASSUME got[n] # End PROVE Len(t) = n /\ (n > 1 => t[n] = Clipped)
      OBVIOUS
    <2>1. m = n /\ body[n] = Clipped
      BY <1>3, <1>4
    <2>2. n > 1 => n \in 2..m
      BY <2>1
    <2>3. QED BY <1>8, <2>1, <2>2
  <1>11. got[n] = End => Len(t) = n - 1
    BY <1>3, <1>4, <1>8
  <1>12. QED BY <1>8, <1>9, <1>10, <1>11

\* What is relayed is the beginning of the figure, or all of it.
LEMMA FitsRelay ==
  ASSUME NEW page \in Page, page.kind = "get", NEW r \in Ask,
         r = [kind |-> "GET", name |-> page.name], NEW got \in Seq(Parts), NEW dead \in BOOLEAN,
         Follows(Whole(r), 0, got), Len(got) > 0,
         dead \/ Len(got) = Len(Whole(r)) \/ r.name \in EndWithin,
         NEW t, t = Translated(got)
  PROVE  t \in Seq(Parts) /\ Fits(page, t) /\ (~dead => FitsWhole(page, t))
  <1>1. PICK n \in Nat \ {0} : n = Len(got)
    OBVIOUS
  <1>2. PICK answer \in Seq(Parts) : answer = Whole(r)
    BY WholeProperties
  <1>3. n <= Len(answer) /\ \A k \in 1..n : got[k] = answer[k]
    <2>1. \A k \in 1..n : got[k] = answer[0 + k] /\ 0 + k = k
      BY <1>1, <1>2 DEF Follows
    <2>2. 0 + n <= Len(answer)
      BY <1>1, <1>2 DEF Follows
    <2>3. QED BY <2>1, <2>2
  <1>4. CASE page.name \notin Figure
    <2>1. answer = <<Status("201"), End>>
      <3>1. answer = Answer(r)
        BY <1>2, <1>4 DEF Whole
      <3>2. QED BY <3>1, AnswerTyped
    <2>2. answer[1] = Status("201")
      BY <2>1
    <2>3. got[1] = Status("201") /\ Head(got) = got[1]
      BY <1>1, <1>3, <2>2
    <2>4. t = <<Status("201")>>
      BY <2>3 DEF Translated
    <2>5. <<Status("201")>>[1] = Status("201") /\ <<Status("201")>> \in Seq(Parts)
      BY StatusTyped
    <2>6. t[1] # Status("200")
      BY <2>4, <2>5 DEF Status, Part
    <2>7. QED BY <2>4, <2>5, <2>6 DEF Fits, FitsWhole
  <1>5. CASE page.name \in Figure
    <2>1. PICK f \in Figure : f = page.name /\ r.name = f /\ r.kind = "GET"
      BY <1>5
    <2>2. PICK size \in Nat \ {0} : size = Size[f]
      BY SocketAssumption
    <2>3. /\ Len(answer) = size + 2 /\ answer[1] = Status("OK") /\ answer[size + 2] = End
          /\ \A k \in 1..size : answer[k + 1] = Piece(f, k)
      BY <1>2, <2>1, <2>2, FigureAnswer
    <2>4. ASSUME NEW k \in 2..(size + 1)
          PROVE  answer[k] = Piece(f, k - 1) /\ answer[k] # End
      <3>1. k - 1 \in 1..size /\ (k - 1) + 1 = k
        OBVIOUS
      <3>2. answer[k] = Piece(f, k - 1)
        BY <2>3, <3>1
      <3>3. QED BY <3>2 DEF Piece, Part, End
    <2>5. got[1] = Status("OK") /\ 1 \in 1..n
      BY <1>3, <2>3
    <2>6. got[1] # End /\ got[1] # Status("201")
      BY <2>5 DEF Status, End, Part
    <2>7. got[n] = End <=> n = size + 2
      <3>1. CASE n = size + 2
        BY <1>3, <2>3, <3>1
      <3>2. CASE n # size + 2
        <4>1. n <= size + 1
          BY <1>3, <2>3, <3>2
        <4>2. CASE n = 1
          BY <2>6, <3>2, <4>2
        <4>3. CASE n # 1
          <5>1. n \in 2..(size + 1) /\ n \in 1..n
            BY <4>1, <4>3
          <5>2. QED BY <1>3, <2>4, <3>2, <5>1
        <4>4. QED BY <4>2, <4>3
      <3>3. QED BY <3>1, <3>2
    <2>8. /\ t \in Seq(Parts) /\ t[1] = Status("200")
          /\ got[n] = End => Len(t) = n - 1
          /\ got[n] # End => Len(t) = n /\ (n > 1 => t[n] = Clipped)
          /\ \A k \in 2..(n - 1) : t[k] = got[k]
      BY <1>1, <2>6, TranslatedParts
    <2>9. ASSUME NEW k \in 2..(n - 1)
          PROVE  t[k] = Piece(f, k - 1)
      <3>1. k \in 2..(size + 1) /\ k \in 1..n
        BY <1>3, <2>3
      <3>2. t[k] = answer[k]
        BY <1>3, <2>8, <3>1
      <3>3. QED BY <2>4, <3>1, <3>2
    <2>10. CASE n = size + 2
      <3>1. Len(t) = size + 1
        BY <2>7, <2>8, <2>10
      <3>2. \A k \in 2..(size + 1) : t[k] = Piece(f, k - 1)
        BY <2>9, <2>10
      <3>3. FitsWhole(page, t)
        BY <2>1, <2>2, <3>1, <3>2 DEF FitsWhole
      <3>4. Fits(page, t)
        BY <2>1, <2>2, <3>1, <3>2 DEF Fits
      <3>5. QED BY <2>8, <3>3, <3>4
    <2>11. CASE n # size + 2
      <3>1. Len(t) = n /\ n <= size + 1 /\ (n > 1 => t[n] = Clipped)
        <4>1. Len(t) = n /\ (n > 1 => t[n] = Clipped)
          BY <2>7, <2>8, <2>11
        <4>2. n <= size + 1
          BY <1>3, <2>3, <2>11
        <4>3. QED BY <4>1, <4>2
      <3>2. \A k \in 2..n : t[k] = Piece(f, k - 1) \/ (k = n /\ t[k] = Clipped)
        <4> SUFFICES ASSUME NEW k \in 2..n
                     PROVE  t[k] = Piece(f, k - 1) \/ (k = n /\ t[k] = Clipped)
          OBVIOUS
        <4>1. CASE k = n
          BY <3>1, <4>1
        <4>2. CASE k # n
          <5>1. k \in 2..(n - 1)
            BY <4>2
          <5>2. QED BY <2>9, <5>1
        <4>3. QED BY <4>1, <4>2
      <3>3. Fits(page, t)
        BY <2>1, <2>2, <3>1, <3>2 DEF Fits
      <3>4. ~dead => f \in EndWithin
        BY <1>1, <1>2, <2>1, <2>3, <2>11
      <3>5. ~dead => FitsWhole(page, t)
        BY <2>1, <3>4 DEF FitsWhole
      <3>6. QED BY <2>8, <3>3, <3>5
    <2>12. QED BY <2>10, <2>11
  <1>6. QED BY <1>4, <1>5

\* The beginning of an answer fits as the answer does.
LEMMA FitsPrefix ==
  ASSUME NEW page, NEW s \in Seq(Parts), NEW t \in Seq(Parts), Fits(page, s), Len(t) <= Len(s),
         \A k \in 1..Len(t) : t[k] = s[k]
  PROVE  Fits(page, t)
  <1> SUFFICES ASSUME page.kind = "get", t # <<>>, t[1] = Status("200")
               PROVE  /\ page.name \in Figure /\ Len(t) <= Size[page.name] + 1
                      /\ \A k \in 2..Len(t) : \/ t[k] = Piece(page.name, k - 1)
                                              \/ k = Len(t) /\ t[k] = Clipped
    BY DEF Fits
  <1>1. PICK m \in Nat \ {0}, n \in Nat \ {0} : m = Len(t) /\ n = Len(s) /\ m <= n
    BY EmptySeq
  <1>2. s # <<>> /\ s[1] = Status("200")
    BY <1>1, EmptySeq
  <1>3. /\ page.name \in Figure /\ n <= Size[page.name] + 1
        /\ \A k \in 2..n : \/ s[k] = Piece(page.name, k - 1)
                           \/ k = n /\ s[k] = Clipped
    BY <1>1, <1>2 DEF Fits
  <1>4. Size[page.name] \in Nat
    BY <1>3, SocketAssumption
  <1>5. ASSUME NEW k \in 2..m
        PROVE  t[k] = Piece(page.name, k - 1) \/ (k = m /\ t[k] = Clipped)
    <2>1. k \in 2..n /\ k \in 1..m
      BY <1>1
    <2>2. t[k] = s[k]
      BY <1>1, <2>1
    <2>3. k = n => k = m
      BY <1>1
    <2>4. QED BY <1>3, <2>1, <2>2, <2>3
  <1>6. QED BY <1>1, <1>3, <1>4, <1>5

-----------------------------------------------------------------------------
(* The steps keep what is known of the book-keeper                         *)

Away == {"absent", "idle"}

\* The book-keeper takes no step, and nobody it knows goes back to where it began.
LEMMA QuietKeeper ==
  ASSUME TypeOK, KeeperInv, UNCHANGED <<http, browser>>, waiting'["keeper"] = waiting["keeper"],
         \A h \in Browser : /\ asker'[h].ask = asker[h].ask
                            /\ asker[h].at \in Away => asker'[h].at = asker[h].at
                            /\ asker[h].at \notin Away => asker'[h].at \notin Away,
         life'["keeper"] \in {"down", "built", "bound"} =>
           life["keeper"] \in {"down", "built", "bound"},
         life["keeper"] = "dead" => life'["keeper"] = "dead",
         NoneDead' => NoneDead
  PROVE  KeeperInv'
  <1>1. /\ life'["keeper"] \in {"down", "built", "bound"} =>
             \A h \in Browser : browser'[h].at \in Away
        /\ IsInjective(waiting'["keeper"])
    BY DEF KeeperInv, Away
  <1>2. PICK q \in Seq(Browser) : q = waiting["keeper"]
    BY DEF TypeOK
  <1>3. \A i \in 1..Len(waiting'["keeper"]) :
          LET h == waiting'["keeper"][i]
          IN browser'[h].at \in {"open", "gone"} /\ asker'[h].at = "idle" /\ browser'[h].got = <<>>
    <2> SUFFICES ASSUME NEW i \in 1..Len(q)
                 PROVE  /\ browser[q[i]].at \in {"open", "gone"} /\ asker'[q[i]].at = "idle"
                        /\ browser[q[i]].got = <<>>
      BY <1>2
    <2>1. PICK h \in Browser : h = q[i]
      OBVIOUS
    <2>2. browser[h].at \in {"open", "gone"} /\ asker[h].at = "idle" /\ browser[h].got = <<>>
      BY <1>2, <2>1 DEF KeeperInv
    <2>3. QED BY <2>1, <2>2 DEF Away
  <1>4. \A h \in Browser :
          /\ browser'[h].at \in Away => asker'[h].at = browser'[h].at /\ browser'[h].got = <<>>
          /\ Fits(browser'[h].page, browser'[h].got)
          /\ browser'[h].at = "done" /\ NoneDead' => FitsWhole(browser'[h].page, browser'[h].got)
    BY DEF KeeperInv, Away
  <1>5. http'.at # "accept" => Turn'
    <2> SUFFICES ASSUME http.at # "accept" PROVE Turn'
      OBVIOUS
    <2>1. PICK h \in Browser : h = http.client
      BY DEF TypeOK
    <2>2. /\ h \notin Range(waiting["keeper"]) /\ browser[h].at \notin {"absent", "idle"}
          /\ life["keeper"] # "dead" => browser[h].at \in {"open", "gone"}
          /\ http.broken => \E g \in Browser : browser[g].at = "gone"
          /\ http.at \in {"read", "handle"} => asker[h].at = "idle"
          /\ http.at \in {"read", "handle", "ask"} => browser[h].got = <<>>
      BY <2>1 DEF KeeperInv, Turn
    <2>3. http.at = "ask" =>
            /\ browser[h].page.kind = "get"
            /\ asker[h].ask = [kind |-> "GET", name |-> browser[h].page.name]
            /\ asker[h].at \notin {"absent", "idle"}
      BY <2>1 DEF KeeperInv, Turn
    <2>4. http.at = "write" /\ browser[h].at = "open" =>
            LET s == browser[h].got \o http.out
            IN Fits(browser[h].page, s) /\ (NoneDead => FitsWhole(browser[h].page, s))
      BY <2>1 DEF KeeperInv, Turn
    <2>5. /\ http.at \in {"read", "handle"} => asker'[h].at = "idle"
          /\ http.at = "ask" =>
               /\ asker'[h].ask = [kind |-> "GET", name |-> browser[h].page.name]
               /\ asker'[h].at \notin {"absent", "idle"}
      BY <2>2, <2>3 DEF Away
    <2>6. /\ life'["keeper"] # "dead" => browser[h].at \in {"open", "gone"}
          /\ http.at = "write" /\ browser[h].at = "open" =>
               LET s == browser[h].got \o http.out
               IN Fits(browser[h].page, s) /\ (NoneDead' => FitsWhole(browser[h].page, s))
      BY <2>2, <2>4
    <2>7. QED BY <2>1, <2>2, <2>3, <2>5, <2>6 DEF Turn
  <1>6. QED BY <1>1, <1>3, <1>4, <1>5 DEF KeeperInv, Away

LEMMA StartsKeeper ==
  ASSUME TypeOK, KeeperInv, Starts
  PROVE  KeeperInv'
  <1>1. PICK p \in Process, to \in {"built", "bound", "up", "dead"} :
          /\ life' = [life EXCEPT ![p] = to] /\ life[p] \in {"down", "built", "bound"}
          /\ UNCHANGED <<waiting, fds, handler, wire, asker, http, browser>>
    BY DEF Starts, BuildSocket, Bind, BindThrows, MarkPassive, Becomes, serverVars
  <1>2. life \in [Process -> {"down", "built", "bound", "up", "dead"}]
    BY DEF TypeOK
  <1>3. /\ life'["keeper"] \in {"down", "built", "bound"} =>
             life["keeper"] \in {"down", "built", "bound"}
        /\ life["keeper"] = "dead" => life'["keeper"] = "dead"
        /\ NoneDead' => NoneDead
    <2>1. CASE p = "keeper"
      BY <1>1, <1>2, <2>1 DEF Process, NoneDead
    <2>2. CASE p = "server"
      BY <1>1, <1>2, <2>2 DEF Process, NoneDead
    <2>3. QED BY <2>1, <2>2 DEF Process
  <1>4. QED BY <1>1, <1>3, QuietKeeper

LEMMA ServerKeeper ==
  ASSUME TypeOK, KeeperInv, ServerStep
  PROVE  KeeperInv'
  <1>1. UNCHANGED <<asker, http, browser>>
    BY DEF ServerStep, WaitForConnection, AcceptThrows, ThreadFails, Read, validateRequest,
           existASCII, OpenFails, extractBlock, Write, WriteThrows, Close, ServerKeeps, ServerDies,
           ServerEnds
  <1>2. life' = life \/ life' = [life EXCEPT !["server"] = "dead"]
    BY DEF ServerStep, WaitForConnection, AcceptThrows, ThreadFails, Read, validateRequest,
           existASCII, OpenFails, extractBlock, Write, WriteThrows, Close, ServerKeeps, ServerDies,
           ServerEnds
  <1>3. waiting'["keeper"] = waiting["keeper"]
    <2>1. \/ waiting' = waiting \/ waiting' = [waiting EXCEPT !["server"] = <<>>]
          \/ waiting' = [waiting EXCEPT !["server"] = Tail(@)]
      BY DEF ServerStep, WaitForConnection, AcceptThrows, ThreadFails, Read, validateRequest,
             existASCII, OpenFails, extractBlock, Write, WriteThrows, Close, ServerKeeps,
             ServerDies, ServerEnds, Take
    <2>2. QED BY <2>1 DEF TypeOK, Process
  <1>4. life'["keeper"] = life["keeper"] /\ (NoneDead' => NoneDead)
    BY <1>2 DEF TypeOK, Process, NoneDead
  <1>5. QED BY <1>1, <1>3, <1>4, QuietKeeper

LEMMA AskerKeeper ==
  ASSUME TypeOK, KeeperInv, NEW c \in Peer, AskerStep(c)
  PROVE  KeeperInv'
  <1>0. asker \in [Peer -> Askers]
    BY HandlersTyped
  <1>1. UNCHANGED <<life, http, browser>>
    BY DEF AskerStep, Visit, EstablishConnection, WriteRequest, Receive, EndOfAnswer, TimesOut,
           AskerKeeps
  <1>2. waiting'["keeper"] = waiting["keeper"]
    BY DEF AskerStep, Visit, EstablishConnection, WriteRequest, Receive, EndOfAnswer, TimesOut,
           TypeOK, Process
  <1>3. ASSUME NEW h \in Browser
        PROVE  /\ asker'[h].ask = asker[h].ask
               /\ asker[h].at \in Away => asker'[h].at = asker[h].at
               /\ asker[h].at \notin Away => asker'[h].at \notin Away
    <2>0. h \in Peer /\ asker[h] \in Askers
      BY <1>0 DEF Peer
    <2>1. CASE h # c
      <3>1. asker'[h] = asker[h]
        BY <1>0, <2>0, <2>1
           DEF AskerStep, Visit, EstablishConnection, WriteRequest, Receive, EndOfAnswer, TimesOut,
               Asks
      <3>2. QED BY <3>1
    <2>2. CASE h = c
      <3>1. ~Visit(c)
        BY <2>2, SocketAssumption DEF Visit
      <3>2. asker[c].at \notin Away
        BY <3>1 DEF AskerStep, EstablishConnection, WriteRequest, Receive, EndOfAnswer, TimesOut,
                    AskerAt, Away
      <3>3. asker'[c].ask = asker[c].ask /\ asker'[c].at \notin Away
        <4>1. CASE Receive(c)
          <5>1. PICK n \in 1..Len(wire[c]) :
                  LET got == asker[c].got \o SubSeq(wire[c], 1, n)
                      over == ReadAnswer(got)
                  IN asker' = [asker EXCEPT ![c].got = got, ![c].at = IF over THEN "done" ELSE @]
            BY <4>1 DEF Receive
          <5>2. PICK got, over : /\ got = asker[c].got \o SubSeq(wire[c], 1, n)
                                 /\ over = ReadAnswer(got)
            OBVIOUS
          <5>3. PICK at : at = IF over THEN "done" ELSE asker[c].at
            OBVIOUS
          <5>4. asker' = [asker EXCEPT ![c].got = got, ![c].at = at]
            BY <5>1, <5>2, <5>3
          <5>5. asker'[c].ask = asker[c].ask /\ asker'[c].at = at
            BY <1>0, <5>4 DEF Askers
          <5>6. at \notin Away
            BY <3>2, <5>3 DEF Away
          <5>7. QED BY <5>5, <5>6
        <4>2. CASE ~Receive(c)
          <5>1. CASE \E at \in {"connected", "failed", "done"} : Asks(c, at)
            BY <1>0, <5>1 DEF Asks, Askers, Away
          <5>2. CASE asker' = [asker EXCEPT ![c].at = "open", ![c].sent = TRUE]
            BY <1>0, <5>2 DEF Askers, Away
          <5>3. QED BY <3>1, <4>2, <5>1, <5>2
                       DEF AskerStep, EstablishConnection, WriteRequest, EndOfAnswer, TimesOut
        <4>3. QED BY <4>1, <4>2
      <3>4. QED BY <2>2, <3>2, <3>3
    <2>3. QED BY <2>1, <2>2
  <1>4. life'["keeper"] = life["keeper"] /\ (NoneDead' => NoneDead)
    BY <1>1 DEF NoneDead
  <1>5. QED BY <1>1, <1>2, <1>3, <1>4, QuietKeeper

LEMMA BrowserKeeper ==
  ASSUME TypeOK, KeeperInv, NEW h \in Browser, BrowserStep(h)
  PROVE  KeeperInv'
  <1>0. browser \in [Browser -> Browsers] /\ browser[h] \in Browsers
    BY KeepersTyped
  <1>1. UNCHANGED <<life, asker, http>>
    BY DEF BrowserStep, MakeConnection, SendRequest, Leave, BrowserKeeps
  <1>2. \A g \in Browser : /\ browser'[g].page = browser[g].page /\ browser'[g].got = browser[g].got
                           /\ g # h => browser'[g] = browser[g]
    <2> SUFFICES ASSUME NEW g \in Browser
                 PROVE  /\ browser'[g].page = browser[g].page /\ browser'[g].got = browser[g].got
                        /\ g # h => browser'[g] = browser[g]
      OBVIOUS
    <2>1. PICK n : n = browser[h].sent + 1
      OBVIOUS
    <2>2. \/ browser' = [browser EXCEPT ![h].at = "open"]
          \/ browser' = [browser EXCEPT ![h].at = "gone"]
          \/ browser' = [browser EXCEPT ![h].sent = n]
      BY <2>1 DEF BrowserStep, MakeConnection, SendRequest, Leave
    <2>3. browser[g] \in Browsers
      BY <1>0
    <2>4. QED BY <1>0, <2>2, <2>3 DEF Browsers
  <1>3. \/ /\ MakeConnection(h) /\ browser[h].at = "idle" /\ browser'[h].at = "open"
        \/ /\ UNCHANGED waiting
           /\ browser'[h].at = browser[h].at \/ (browser[h].at = "open" /\ browser'[h].at = "gone")
    <2>1. CASE MakeConnection(h)
      BY <1>0, <2>1 DEF MakeConnection, Browsers
    <2>2. CASE SendRequest(h)
      <3>1. PICK n : n = browser[h].sent + 1
        OBVIOUS
      <3>2. browser' = [browser EXCEPT ![h].sent = n] /\ UNCHANGED waiting
        BY <2>2, <3>1 DEF SendRequest
      <3>3. QED BY <1>0, <3>2 DEF Browsers
    <2>3. CASE Leave(h)
      BY <1>0, <2>3 DEF Leave, Browsers
    <2>4. QED BY <2>1, <2>2, <2>3 DEF BrowserStep
  <1>4. PICK q \in Seq(Browser) : q = waiting["keeper"]
    BY DEF TypeOK
  <1>5. /\ IsInjective(q)
        /\ \A i \in 1..Len(q) : /\ browser[q[i]].at \in {"open", "gone"}
                                /\ asker[q[i]].at = "idle" /\ browser[q[i]].got = <<>>
    BY <1>4 DEF KeeperInv
  <1>6. \A g \in Browser :
          /\ browser[g].at \in Away => asker[g].at = browser[g].at /\ browser[g].got = <<>>
          /\ Fits(browser[g].page, browser[g].got)
          /\ browser[g].at = "done" /\ NoneDead => FitsWhole(browser[g].page, browser[g].got)
    BY DEF KeeperInv, Away
  <1>7. /\ life'["keeper"] \in {"down", "built", "bound"} =>
             \A g \in Browser : browser'[g].at \in {"absent", "idle"}
    <2> SUFFICES ASSUME life["keeper"] \in {"down", "built", "bound"}, NEW g \in Browser
                 PROVE  browser'[g].at \in {"absent", "idle"}
      BY <1>1
    <2>1. browser[g].at \in {"absent", "idle"} /\ browser[h].at \in {"absent", "idle"}
      BY DEF KeeperInv
    <2>2. ~MakeConnection(h)
      BY DEF MakeConnection
    <2>3. QED BY <1>2, <1>3, <2>1, <2>2
  <1>8. /\ IsInjective(waiting'["keeper"])
        /\ \A i \in 1..Len(waiting'["keeper"]) :
             LET g == waiting'["keeper"][i]
             IN browser'[g].at \in {"open", "gone"} /\ asker'[g].at = "idle" /\ browser'[g].got = <<>>
    <2>1. ASSUME NEW i \in 1..Len(q)
          PROVE  /\ browser'[q[i]].at \in {"open", "gone"} /\ asker'[q[i]].at = "idle"
                 /\ browser'[q[i]].got = <<>>
      <3>1. PICK g \in Browser : g = q[i]
        OBVIOUS
      <3>2. browser[g].at \in {"open", "gone"} /\ asker[g].at = "idle" /\ browser[g].got = <<>>
        BY <1>5, <3>1
      <3>3. browser'[g].at \in {"open", "gone"}
        BY <1>2, <1>3, <3>2
      <3>4. QED BY <1>1, <1>2, <3>1, <3>2, <3>3
    <2>2. CASE UNCHANGED waiting
      BY <1>4, <1>5, <2>1, <2>2
    <2>3. CASE MakeConnection(h) /\ browser[h].at = "idle" /\ browser'[h].at = "open"
      <3>7. PICK n \in Nat : n = Len(q)
        OBVIOUS
      <3>8. PICK p : p = Append(q, h)
        OBVIOUS
      <3>9. waiting'["keeper"] = Append(q, h)
        BY <1>4, <2>3 DEF MakeConnection, TypeOK, Process
      <3>1. p = Append(q, h) /\ n = Len(q) /\ waiting'["keeper"] = p
        BY <3>7, <3>8, <3>9
      <3>2. \A i \in 1..Len(q) : q[i] # h
        BY <1>5, <2>3
      <3>3. /\ IsInjective(p) /\ Len(p) = n + 1 /\ p[n + 1] = h
            /\ \A i \in 1..n : p[i] = q[i]
        BY <1>5, <3>1, <3>2, AppendWaits
      <3>4. browser'[h].at = "open" /\ asker'[h].at = "idle" /\ browser'[h].got = <<>>
        <4>1. asker[h].at = "idle" /\ browser[h].got = <<>>
          BY <1>6, <2>3 DEF Away
        <4>2. QED BY <1>1, <1>2, <2>3, <4>1
      <3>5. ASSUME NEW i \in 1..(n + 1)
            PROVE  /\ browser'[p[i]].at \in {"open", "gone"} /\ asker'[p[i]].at = "idle"
                   /\ browser'[p[i]].got = <<>>
        <4>1. CASE i \in 1..n
          <5>1. p[i] = q[i] /\ i \in 1..Len(q)
            BY <3>1, <3>3, <4>1
          <5>2. QED BY <2>1, <5>1
        <4>2. CASE i = n + 1
          BY <3>3, <3>4, <4>2
        <4>3. QED BY <4>1, <4>2
      <3>6. QED BY <3>1, <3>3, <3>5
    <2>4. QED BY <1>3, <2>2, <2>3
  <1>9. ASSUME NEW g \in Browser
        PROVE  /\ browser'[g].at \in {"absent", "idle"} =>
                    asker'[g].at = browser'[g].at /\ browser'[g].got = <<>>
               /\ Fits(browser'[g].page, browser'[g].got)
               /\ browser'[g].at = "done" /\ NoneDead' =>
                    FitsWhole(browser'[g].page, browser'[g].got)
    <2>1. NoneDead' = NoneDead
      BY <1>1 DEF NoneDead
    <2>2. Fits(browser'[g].page, browser'[g].got)
      BY <1>2, <1>6
    <2>3. /\ browser'[g].at = "done" => browser[g].at = "done"
          /\ browser'[g].at \in Away => browser'[g].at = browser[g].at
      BY <1>2, <1>3 DEF Away
    <2>4. QED BY <1>1, <1>2, <1>6, <2>1, <2>2, <2>3 DEF Away
  <1>10. http'.at # "accept" => Turn'
    <2> SUFFICES ASSUME http.at # "accept" PROVE Turn'
      BY <1>1
    <2>1. PICK g \in Browser : g = http.client
      BY DEF TypeOK
    <2>2. /\ g \notin Range(waiting["keeper"]) /\ browser[g].at \notin {"absent", "idle"}
          /\ life["keeper"] # "dead" => browser[g].at \in {"open", "gone"}
          /\ http.broken => \E e \in Browser : browser[e].at = "gone"
          /\ http.at \in {"read", "handle"} => asker[g].at = "idle"
          /\ http.at \in {"read", "handle", "ask"} => browser[g].got = <<>>
      BY <2>1 DEF KeeperInv, Turn
    <2>3. http.at = "ask" =>
            /\ browser[g].page.kind = "get"
            /\ asker[g].ask = [kind |-> "GET", name |-> browser[g].page.name]
            /\ asker[g].at \notin {"absent", "idle"}
      BY <2>1 DEF KeeperInv, Turn
    <2>4. http.at = "write" /\ browser[g].at = "open" =>
            LET s == browser[g].got \o http.out
            IN Fits(browser[g].page, s) /\ (NoneDead => FitsWhole(browser[g].page, s))
      BY <2>1 DEF KeeperInv, Turn
    <2>5. g # h \/ ~(MakeConnection(h) /\ browser[h].at = "idle")
      BY <2>2
    <2>6. /\ browser'[g].at \notin {"absent", "idle"}
          /\ life["keeper"] # "dead" => browser'[g].at \in {"open", "gone"}
          /\ browser'[g].at = "open" => browser[g].at = "open"
      BY <1>2, <1>3, <2>2, <2>5
    <2>7. g \notin Range(waiting'["keeper"])
      <3>1. CASE UNCHANGED waiting
        BY <2>2, <3>1
      <3>2. CASE MakeConnection(h) /\ browser[h].at = "idle"
        <4>1. waiting'["keeper"] = Append(q, h) /\ g # h
          BY <1>4, <2>5, <3>2 DEF MakeConnection, TypeOK, Process
        <4>2. PICK n \in Nat : n = Len(q)
          OBVIOUS
        <4>3. /\ Append(q, h) \in Seq(Browser) /\ Len(Append(q, h)) = n + 1
              /\ \A i \in 1..n : Append(q, h)[i] = q[i]
              /\ Append(q, h)[n + 1] = h
          BY <4>2, AppendProperties
        <4>4. \A i \in 1..n : q[i] # g
          BY <1>4, <2>2, <4>2 DEF Range
        <4>5. \A i \in 1..(n + 1) : Append(q, h)[i] # g
          <5> SUFFICES ASSUME NEW i \in 1..(n + 1) PROVE Append(q, h)[i] # g
            OBVIOUS
          <5>1. CASE i \in 1..n
            BY <4>3, <4>4, <5>1
          <5>2. CASE i = n + 1
            <6>1. Append(q, h)[n + 1] = h /\ g # h
              BY <4>1, <4>3
            <6>2. QED BY <5>2, <6>1
          <5>3. i \in 1..n \/ i = n + 1
            OBVIOUS
          <5>4. QED BY <5>1, <5>2, <5>3
        <4>6. DOMAIN Append(q, h) = 1..(n + 1)
          BY <4>3
        <4>7. QED BY <4>1, <4>5, <4>6 DEF Range
      <3>3. QED BY <1>3, <3>1, <3>2
    <2>8. http.broken => \E e \in Browser : browser'[e].at = "gone"
      <3> SUFFICES ASSUME http.broken PROVE \E e \in Browser : browser'[e].at = "gone"
        OBVIOUS
      <3>1. PICK e \in Browser : browser[e].at = "gone"
        BY <2>2
      <3>2. browser'[e].at = "gone"
        BY <1>2, <1>3, <3>1
      <3>3. QED BY <3>2
    <2>9. browser'[g].page = browser[g].page /\ browser'[g].got = browser[g].got
      BY <1>2
    <2>10. /\ http' = http /\ asker' = asker /\ life' = life /\ NoneDead' = NoneDead
      BY <1>1 DEF NoneDead
    <2>11. QED BY <2>1, <2>2, <2>3, <2>4, <2>6, <2>7, <2>8, <2>9, <2>10 DEF Turn
  <1>11. QED BY <1>7, <1>8, <1>9, <1>10 DEF KeeperInv

\* A step of the HTTP thread that serves one browser.
LEMMA ClientKeeper ==
  ASSUME TypeOK, KeeperInv, KeeperUp("read") \/ KeeperUp("handle") \/ KeeperUp("ask")
                              \/ KeeperUp("write"),
         NEW c \in Browser, c = Client, UNCHANGED <<life, waiting>>,
         \A h \in Browser \ {c} : browser'[h] = browser[h] /\ asker'[h] = asker[h],
         browser'[c].at \notin {"absent", "idle"}, browser'[c].page = browser[c].page,
         Fits(browser[c].page, browser'[c].got),
         browser'[c].at = "done" /\ NoneDead => FitsWhole(browser[c].page, browser'[c].got),
         http'.at # "accept" => Turn'
  PROVE  KeeperInv'
  <1>1. Turn /\ life["keeper"] = "up"
    BY DEF KeeperInv, KeeperUp
  <1>2. PICK q \in Seq(Browser) : q = waiting["keeper"] /\ waiting'["keeper"] = q
    BY DEF TypeOK
  <1>3. \A i \in 1..Len(q) :
          /\ browser'[q[i]].at \in {"open", "gone"} /\ asker'[q[i]].at = "idle"
          /\ browser'[q[i]].got = <<>>
    <2> SUFFICES ASSUME NEW i \in 1..Len(q)
                 PROVE  /\ browser'[q[i]].at \in {"open", "gone"} /\ asker'[q[i]].at = "idle"
                        /\ browser'[q[i]].got = <<>>
      OBVIOUS
    <2>1. PICK h \in Browser : h = q[i]
      OBVIOUS
    <2>2. browser[h].at \in {"open", "gone"} /\ asker[h].at = "idle" /\ browser[h].got = <<>>
      BY <1>2, <2>1 DEF KeeperInv
    <2>3. c \notin Range(waiting["keeper"])
      BY <1>1 DEF Turn, Client
    <2>4. h # c
      BY <1>2, <2>1, <2>3 DEF Range
    <2>5. QED BY <2>1, <2>2, <2>4
  <1>4. IsInjective(q)
    BY <1>2 DEF KeeperInv
  <1>5. NoneDead' = NoneDead
    BY DEF NoneDead
  <1>6. ASSUME NEW h \in Browser
        PROVE  /\ browser'[h].at \in {"absent", "idle"} =>
                    asker'[h].at = browser'[h].at /\ browser'[h].got = <<>>
               /\ Fits(browser'[h].page, browser'[h].got)
               /\ browser'[h].at = "done" /\ NoneDead' =>
                    FitsWhole(browser'[h].page, browser'[h].got)
    <2>1. CASE h = c
      BY <1>5, <2>1
    <2>2. CASE h # c
      <3>1. browser'[h] = browser[h] /\ asker'[h] = asker[h]
        BY <2>2
      <3>2. QED BY <1>5, <3>1 DEF KeeperInv
    <2>3. QED BY <2>1, <2>2
  <1>7. ~(life'["keeper"] \in {"down", "built", "bound"})
    BY <1>1
  <1>8. QED BY <1>2, <1>3, <1>4, <1>6, <1>7 DEF KeeperInv

\* What is known of the browser that is served.
LEMMA ClientFacts ==
  ASSUME TypeOK, KeeperInv, http.at # "accept", NEW c, c = http.client
  PROVE  /\ c \in Browser /\ c \in Peer /\ browser[c] \in Browsers /\ asker[c] \in Askers
         /\ http \in Https /\ http.out \in Seq(Parts) /\ browser[c].got \in Seq(Parts)
         /\ c \notin Range(waiting["keeper"]) /\ browser[c].at \notin {"absent", "idle"}
         /\ life["keeper"] # "dead" => browser[c].at \in {"open", "gone"}
         /\ http.broken => \E g \in Browser : browser[g].at = "gone"
         /\ http.at \in {"read", "handle"} => asker[c].at = "idle"
         /\ http.at \in {"read", "handle", "ask"} => browser[c].got = <<>>
         /\ http.at = "ask" =>
              /\ browser[c].page.kind = "get"
              /\ asker[c].ask = [kind |-> "GET", name |-> browser[c].page.name]
              /\ asker[c].at \notin {"absent", "idle"}
         /\ http.at = "write" /\ browser[c].at = "open" =>
              /\ Fits(browser[c].page, browser[c].got \o http.out)
              /\ NoneDead => FitsWhole(browser[c].page, browser[c].got \o http.out)
         /\ Fits(browser[c].page, browser[c].got)
         /\ browser[c].at = "done" /\ NoneDead => FitsWhole(browser[c].page, browser[c].got)
  <1>1. c \in Browser /\ http \in Https /\ browser[c] \in Browsers
    BY KeepersTyped
  <1>2. c \in Peer /\ asker[c] \in Askers
    BY <1>1, HandlersTyped DEF Peer
  <1>3. http.out \in Seq(Parts) /\ browser[c].got \in Seq(Parts)
    BY <1>1 DEF Https, Browsers
  <1>4. Turn
    BY DEF KeeperInv
  <1>5. /\ Fits(browser[c].page, browser[c].got)
        /\ browser[c].at = "done" /\ NoneDead => FitsWhole(browser[c].page, browser[c].got)
    BY <1>1 DEF KeeperInv
  <1>6. /\ c \notin Range(waiting["keeper"]) /\ browser[c].at \notin {"absent", "idle"}
        /\ life["keeper"] # "dead" => browser[c].at \in {"open", "gone"}
        /\ http.broken => \E g \in Browser : browser[g].at = "gone"
        /\ http.at \in {"read", "handle"} => asker[c].at = "idle"
        /\ http.at \in {"read", "handle", "ask"} => browser[c].got = <<>>
    BY <1>4 DEF Turn
  <1>7. http.at = "ask" =>
              /\ browser[c].page.kind = "get"
              /\ asker[c].ask = [kind |-> "GET", name |-> browser[c].page.name]
              /\ asker[c].at \notin {"absent", "idle"}
    BY <1>4 DEF Turn
  <1>8. http.at = "write" /\ browser[c].at = "open" =>
              /\ Fits(browser[c].page, browser[c].got \o http.out)
              /\ NoneDead => FitsWhole(browser[c].page, browser[c].got \o http.out)
    BY <1>4 DEF Turn
  <1>9. QED BY <1>1, <1>2, <1>3, <1>5, <1>6, <1>7, <1>8

\* The turn after a step that changes what the thread does, and not whom it serves.
LEMMA TurnGoesOn ==
  ASSUME TypeOK, KeeperInv, http.at # "accept", life["keeper"] = "up", NEW c \in Browser,
         c = http.client, http'.client = c, UNCHANGED <<life, waiting>>,
         browser'[c].at \in {"open", "gone"}, browser'[c].page = browser[c].page,
         http'.broken => \E g \in Browser : browser'[g].at = "gone",
         http'.at \in {"read", "handle"} => asker'[c].at = "idle",
         http'.at \in {"read", "handle", "ask"} => browser'[c].got = <<>>,
         http'.at = "ask" =>
           /\ browser[c].page.kind = "get"
           /\ asker'[c].ask = [kind |-> "GET", name |-> browser[c].page.name]
           /\ asker'[c].at \notin {"absent", "idle"},
         NEW s, s = browser'[c].got \o http'.out,
         http'.at = "write" /\ browser'[c].at = "open" =>
           Fits(browser[c].page, s) /\ (NoneDead => FitsWhole(browser[c].page, s))
  PROVE  Turn'
  <1>1. c \notin Range(waiting'["keeper"])
    BY ClientFacts
  <1>2. NoneDead' = NoneDead
    BY DEF NoneDead
  <1>3. QED BY <1>1, <1>2 DEF Turn

\* A part that is written and what is left make what was left before.
LEMMA WrittenSame ==
  ASSUME NEW got \in Seq(Parts), NEW out \in Seq(Parts), out # <<>>
  PROVE  /\ Append(got, Head(out)) \o Tail(out) = got \o out
         /\ got \o out \in Seq(Parts)
  <1>1. /\ Len(out) \in Nat \ {0} /\ Head(out) = out[1] /\ Head(out) \in Parts
        /\ Tail(out) \in Seq(Parts) /\ Len(Tail(out)) = Len(out) - 1
        /\ \A k \in 1..(Len(out) - 1) : Tail(out)[k] = out[k + 1]
    BY TailProperties
  <1>2. PICK n \in Nat \ {0} : n = Len(out)
    BY <1>1
  <1>3. PICK m \in Nat : m = Len(got)
    OBVIOUS
  <1>4. PICK part \in Parts : part = Head(out)
    BY <1>1
  <1>5. PICK rest \in Seq(Parts) : rest = Tail(out)
    BY <1>1
  <1>6. PICK more \in Seq(Parts) : more = Append(got, part)
    BY AppendProperties
  <1>7. Len(rest) = n - 1 /\ \A k \in 1..(n - 1) : rest[k] = out[k + 1]
    BY <1>1, <1>2, <1>5
  <1>8. Len(more) = m + 1 /\ more[m + 1] = part /\ \A k \in 1..m : more[k] = got[k]
    BY <1>3, <1>6, AppendProperties
  <1>9. /\ more \o rest \in Seq(Parts) /\ Len(more \o rest) = Len(more) + Len(rest)
        /\ \A i \in 1..(Len(more) + Len(rest)) :
             (more \o rest)[i] = IF i <= Len(more) THEN more[i] ELSE rest[i - Len(more)]
    BY ConcatProperties
  <1>10. /\ got \o out \in Seq(Parts) /\ Len(got \o out) = Len(got) + Len(out)
         /\ \A i \in 1..(Len(got) + Len(out)) :
              (got \o out)[i] = IF i <= Len(got) THEN got[i] ELSE out[i - Len(got)]
    BY ConcatProperties
  <1>11. Len(more) + Len(rest) = m + n /\ Len(got) + Len(out) = m + n
    BY <1>2, <1>3, <1>7, <1>8
  <1>12. ASSUME NEW i \in 1..(m + n)
         PROVE  (more \o rest)[i] = (got \o out)[i]
    <2>1. /\ (more \o rest)[i] = IF i <= m + 1 THEN more[i] ELSE rest[i - (m + 1)]
          /\ (got \o out)[i] = IF i <= m THEN got[i] ELSE out[i - m]
      BY <1>3, <1>8, <1>9, <1>10, <1>11
    <2>2. CASE i <= m
      <3>1. i \in 1..m /\ i <= m + 1
        BY <2>2
      <3>2. QED BY <1>8, <2>1, <2>2, <3>1
    <2>3. CASE i = m + 1
      <3>1. i <= m + 1 /\ ~(i <= m) /\ i - m = 1
        BY <2>3
      <3>2. QED BY <1>1, <1>4, <1>8, <2>1, <2>3, <3>1
    <2>4. CASE i > m + 1
      <3>1. ~(i <= m) /\ ~(i <= m + 1) /\ i - (m + 1) \in 1..(n - 1)
            /\ i - (m + 1) + 1 = i - m
        BY <2>4
      <3>2. QED BY <1>7, <2>1, <3>1
    <2>5. i <= m \/ i = m + 1 \/ i > m + 1
      OBVIOUS
    <2>6. QED BY <2>2, <2>3, <2>4, <2>5
  <1>13. more \o rest = got \o out
    <2>1. Len(more \o rest) = m + n /\ Len(got \o out) = m + n
      BY <1>9, <1>10, <1>11
    <2>2. PICK s \in Seq(Parts) : s = more \o rest
      BY <1>9
    <2>3. PICK t \in Seq(Parts) : t = got \o out
      BY <1>10
    <2>4. Len(s) = m + n /\ Len(t) = m + n /\ \A i \in 1..(m + n) : s[i] = t[i]
      BY <1>12, <2>1, <2>2, <2>3
    <2>5. s = t
      BY <2>4
    <2>6. QED BY <2>2, <2>3, <2>5
  <1>14. QED BY <1>4, <1>5, <1>6, <1>10, <1>13

LEMMA PrefixOfConcat ==
  ASSUME NEW s \in Seq(Parts), NEW t \in Seq(Parts)
  PROVE  Len(s) <= Len(s \o t) /\ \A k \in 1..Len(s) : s[k] = (s \o t)[k]
  <1>1. /\ Len(s \o t) = Len(s) + Len(t)
        /\ \A i \in 1..(Len(s) + Len(t)) :
             (s \o t)[i] = IF i <= Len(s) THEN s[i] ELSE t[i - Len(s)]
    BY ConcatProperties
  <1>2. PICK m \in Nat, n \in Nat : m = Len(s) /\ n = Len(t)
    OBVIOUS
  <1>3. \A k \in 1..m : k \in 1..(m + n) /\ k <= m
    OBVIOUS
  <1>4. QED BY <1>1, <1>2, <1>3

LEMMA AcceptKeeper ==
  ASSUME TypeOK, KeeperInv, AcceptConnection
  PROVE  KeeperInv'
  <1>1. PICK q \in Seq(Browser) : q = waiting["keeper"] /\ q # <<>>
    BY DEF TypeOK, AcceptConnection
  <1>2. waiting'["keeper"] = Tail(q) /\ Head(q) \in Browser
    BY <1>1, TakeTyped DEF AcceptConnection, Process
  <1>3. PICK c \in Browser : c = Head(q) /\ c = q[1] /\ 1 \in 1..Len(q)
    BY <1>1, <1>2, TailProperties
  <1>4. /\ life["keeper"] = "up" /\ UNCHANGED <<life, asker, browser>>
        /\ http' = [Accepting(c) EXCEPT !.at = "read"]
    BY <1>1, <1>3 DEF AcceptConnection, KeeperUp, KeeperKeeps
  <1>5. /\ IsInjective(q)
        /\ \A i \in 1..Len(q) : /\ browser[q[i]].at \in {"open", "gone"}
                                /\ asker[q[i]].at = "idle" /\ browser[q[i]].got = <<>>
    BY <1>1 DEF KeeperInv
  <1>6. /\ IsInjective(Tail(q)) /\ Tail(q) \in Seq(Browser)
        /\ \A i \in 1..Len(Tail(q)) : \E k \in 1..Len(q) : Tail(q)[i] = q[k] /\ q[k] # Head(q)
    BY <1>1, <1>5, TailWaits, TailProperties
  <1>7. \A i \in 1..Len(Tail(q)) :
          /\ browser[Tail(q)[i]].at \in {"open", "gone"}
          /\ asker[Tail(q)[i]].at = "idle" /\ browser[Tail(q)[i]].got = <<>>
    BY <1>5, <1>6
  <1>8. c \notin Range(Tail(q))
    <2>1. DOMAIN Tail(q) = 1..Len(Tail(q))
      BY <1>6
    <2>2. \A i \in 1..Len(Tail(q)) : Tail(q)[i] # c
      BY <1>3, <1>6
    <2>3. QED BY <2>1, <2>2 DEF Range
  <1>9. http'.at = "read" /\ http'.client = c /\ http'.broken = FALSE
    BY <1>4 DEF Accepting
  <1>10. /\ browser[c].at \in {"open", "gone"}
         /\ asker[c].at = "idle" /\ browser[c].got = <<>>
    BY <1>3, <1>5
  <1>11. Turn'
    BY <1>2, <1>4, <1>8, <1>9, <1>10 DEF Turn
  <1>12. NoneDead' = NoneDead
    BY <1>4 DEF NoneDead
  <1>13. \A h \in Browser :
          /\ browser'[h].at \in {"absent", "idle"} =>
               asker'[h].at = browser'[h].at /\ browser'[h].got = <<>>
          /\ Fits(browser'[h].page, browser'[h].got)
          /\ browser'[h].at = "done" /\ NoneDead' => FitsWhole(browser'[h].page, browser'[h].got)
    BY <1>4, <1>12 DEF KeeperInv
  <1>14. ~(life'["keeper"] \in {"down", "built", "bound"})
    BY <1>4
  <1>15. \A i \in 1..Len(waiting'["keeper"]) :
             LET h == waiting'["keeper"][i]
             IN browser'[h].at \in {"open", "gone"} /\ asker'[h].at = "idle" /\ browser'[h].got = <<>>
    BY <1>2, <1>4, <1>7
  <1>16. IsInjective(waiting'["keeper"])
    BY <1>2, <1>6
  <1>17. QED BY <1>11, <1>13, <1>14, <1>15, <1>16 DEF KeeperInv

LEMMA DiesKeeper ==
  ASSUME TypeOK, KeeperInv, KeeperDies
  PROVE  KeeperInv'
  <1>0. /\ browser \in [Browser -> Browsers] /\ asker \in [Peer -> Askers]
        /\ \A h \in Browser : h \in Peer
    BY KeepersTyped, HandlersTyped DEF Peer
  <1>1. life'["keeper"] = "dead" /\ waiting'["keeper"] = <<>> /\ http' = http
    BY DEF KeeperDies, TypeOK, Process
  <1>2. ASSUME NEW h \in Browser
        PROVE  /\ browser'[h].page = browser[h].page /\ browser'[h].got = browser[h].got
               /\ browser[h].at # "open" => browser'[h].at = browser[h].at
               /\ browser[h].at = "open" => browser'[h].at \in {"done", "reset"}
    <2>1. browser[h] \in Browsers
      BY <1>0
    <2>2. CASE browser[h].at # "open"
      BY <2>1, <2>2 DEF KeeperDies, Browsers
    <2>3. CASE browser[h].at = "open" /\ Served /\ h = http.client
      BY <2>1, <2>3 DEF KeeperDies, Browsers
    <2>4. CASE browser[h].at = "open" /\ ~(Served /\ h = http.client)
      BY <2>1, <2>4 DEF KeeperDies, Browsers
    <2>5. QED BY <2>2, <2>3, <2>4
  <1>3. ASSUME NEW h \in Browser
        PROVE  /\ asker'[h].ask = asker[h].ask
               /\ asker[h].at \in {"absent", "idle"} => asker'[h].at = asker[h].at
               /\ asker[h].at \notin {"absent", "idle"} => asker'[h].at \notin {"absent", "idle"}
    BY <1>0 DEF KeeperDies, Askers
  <1>4. ~NoneDead'
    BY <1>1 DEF NoneDead
  <1>5. IsInjective(waiting'["keeper"]) /\ 1..Len(waiting'["keeper"]) = {}
        /\ Range(waiting'["keeper"]) = {}
    BY <1>1, EmptySeq DEF IsInjective, Range
  <1>6. ASSUME NEW h \in Browser
        PROVE  /\ browser'[h].at \in {"absent", "idle"} =>
                    asker'[h].at = browser'[h].at /\ browser'[h].got = <<>>
               /\ Fits(browser'[h].page, browser'[h].got)
    <2>1. /\ browser[h].at \in {"absent", "idle"} =>
               asker[h].at = browser[h].at /\ browser[h].got = <<>>
          /\ Fits(browser[h].page, browser[h].got)
      BY DEF KeeperInv
    <2>2. browser'[h].at \in {"absent", "idle"} => browser'[h].at = browser[h].at
      BY <1>2
    <2>3. QED BY <1>2, <1>3, <2>1, <2>2
  <1>7. http'.at # "accept" => Turn'
    <2> SUFFICES ASSUME http.at # "accept" PROVE Turn'
      BY <1>1
    <2>1. PICK c : c = http.client
      OBVIOUS
    <2>2. /\ c \in Browser /\ browser[c].at \notin {"absent", "idle"}
          /\ http.broken => \E g \in Browser : browser[g].at = "gone"
          /\ http.at \in {"read", "handle"} => asker[c].at = "idle"
          /\ http.at \in {"read", "handle", "ask"} => browser[c].got = <<>>
      BY <2>1, ClientFacts
    <2>3. http.at = "ask" =>
              /\ browser[c].page.kind = "get"
              /\ asker[c].ask = [kind |-> "GET", name |-> browser[c].page.name]
              /\ asker[c].at \notin {"absent", "idle"}
      BY <2>1, ClientFacts
    <2>4. browser'[c].at \notin {"absent", "idle"} /\ browser'[c].at # "open"
          /\ browser'[c].page = browser[c].page /\ browser'[c].got = browser[c].got
      BY <1>2, <2>2
    <2>5. http.broken => \E g \in Browser : browser'[g].at = "gone"
      BY <1>2, <2>2
    <2>6. /\ http.at \in {"read", "handle"} => asker'[c].at = "idle"
          /\ http.at = "ask" =>
              /\ asker'[c].ask = [kind |-> "GET", name |-> browser[c].page.name]
              /\ asker'[c].at \notin {"absent", "idle"}
      BY <1>3, <2>2, <2>3
    <2>7. QED BY <1>1, <1>4, <1>5, <2>1, <2>2, <2>3, <2>4, <2>5, <2>6 DEF Turn
  <1>8. QED BY <1>1, <1>4, <1>5, <1>6, <1>7 DEF KeeperInv

\* The thread reads the header, writes a page of its own or asks the figure server.
LEMMA HandleKeeper ==
  ASSUME TypeOK, KeeperInv, ReadHeader \/ HandlePage \/ AskServer
  PROVE  KeeperInv'
  <1>1. PICK c : c = http.client /\ c = Client
    BY DEF Client
  <1>2. /\ life["keeper"] = "up" /\ http.at \in {"read", "handle"}
        /\ UNCHANGED <<life, waiting, browser>>
    BY DEF ReadHeader, HandlePage, AskServer, KeeperUp, KeeperKeeps
  <1>3. /\ c \in Browser /\ c \in Peer /\ browser[c] \in Browsers /\ asker[c] \in Askers
        /\ http \in Https /\ http.out \in Seq(Parts) /\ browser[c].got = <<>>
        /\ browser[c].at \in {"open", "gone"} /\ asker[c].at = "idle"
        /\ http.broken => \E g \in Browser : browser[g].at = "gone"
        /\ Fits(browser[c].page, browser[c].got)
    BY <1>1, <1>2, ClientFacts
  <1>4. \A page \in Understood : page = browser[c].page \/ page = NoPage
    BY <1>1 DEF Understood
  <1>5. CASE ReadHeader
    <2>1. http'.at \in {"read", "handle"} /\ http'.client = c /\ http'.broken = http.broken
      <3>1. CASE http' = [http EXCEPT !.at = "handle"]
        BY <1>1, <1>3, <3>1 DEF Https
      <3>2. CASE \E n \in (http.got + 1)..browser[Client].sent :
                   http' = [http EXCEPT !.got = n, !.at = IF n = Fragments THEN "handle" ELSE @]
        <4>1. PICK n, at : /\ http' = [http EXCEPT !.got = n, !.at = at]
                           /\ at \in {"handle", http.at}
          BY <3>2
        <4>2. QED BY <1>1, <1>2, <1>3, <4>1 DEF Https
      <3>3. QED BY <1>5, <3>1, <3>2 DEF ReadHeader
    <2>2. UNCHANGED asker
      BY <1>5 DEF ReadHeader
    <2>3. Turn'
      BY <1>1, <1>2, <1>3, <2>1, <2>2, TurnGoesOn
    <2>4. QED BY <1>1, <1>2, <1>3, <2>2, <2>3, ClientKeeper DEF KeeperUp
  <1>6. CASE HandlePage
    <2>1. PICK page \in Understood :
            HttpWrites(CASE page.kind \in {"index", "objects"} -> <<Status("200"), Part("list", "none", 0)>>
                    [] page.kind = "get" -> <<Status("201")>>
                    [] OTHER -> <<Status("500")>>)
      BY <1>6 DEF HandlePage
    <2>2. PICK out : /\ http' = [http EXCEPT !.at = "write", !.out = out]
                     /\ out = CASE page.kind \in {"index", "objects"} -> <<Status("200"), Part("list", "none", 0)>>
                                [] page.kind = "get" -> <<Status("201")>>
                                [] OTHER -> <<Status("500")>>
      BY <2>1 DEF HttpWrites
    <2>3. UNCHANGED asker
      BY <1>6 DEF HandlePage
    <2>4. http'.at = "write" /\ http'.client = c /\ http'.broken = http.broken /\ http'.out = out
      BY <1>1, <1>3, <2>2 DEF Https
    <2>5. out \in Seq(Parts) /\ (browser[c].page.kind = "get" => out[1] # Status("200"))
      <3>1. CASE page.kind \in {"index", "objects"}
        <4>1. out = <<Status("200"), Part("list", "none", 0)>>
          BY <2>2, <3>1
        <4>2. browser[c].page.kind # "get"
          BY <1>4, <2>1, <3>1 DEF NoPage
        <4>3. QED BY <4>1, <4>2, StatusTyped
      <3>2. CASE page.kind = "get"
        <4>1. out = <<Status("201")>>
          BY <2>2, <3>2
        <4>2. out \in Seq(Parts) /\ out[1] = Status("201")
          BY <4>1, StatusTyped
        <4>3. QED BY <4>2 DEF Status, Part
      <3>3. CASE page.kind \notin {"index", "objects", "get"}
        <4>1. out = <<Status("500")>>
          BY <2>2, <3>3
        <4>2. out \in Seq(Parts) /\ out[1] = Status("500")
          BY <4>1, StatusTyped
        <4>3. QED BY <4>2 DEF Status, Part
      <3>4. QED BY <3>1, <3>2, <3>3
    <2>6. browser'[c].got \o http'.out = out
      <3>1. browser'[c].got \o http'.out = <<>> \o out
        BY <1>2, <1>3, <2>4
      <3>2. <<>> \o out = out
        BY <2>5, ConcatEmptySeq
      <3>3. QED BY <3>1, <3>2
    <2>7. Fits(browser[c].page, out) /\ FitsWhole(browser[c].page, out)
      BY <2>5 DEF Fits, FitsWhole
    <2>8. Turn'
      BY <1>1, <1>2, <1>3, <2>4, <2>6, <2>7, TurnGoesOn
    <2>9. QED BY <1>1, <1>2, <1>3, <2>3, <2>8, ClientKeeper DEF KeeperUp
  <1>7. CASE AskServer
    <2>1. PICK page \in Understood :
            /\ page.kind = "get"
            /\ asker' = [asker EXCEPT ![Client].at = "connecting",
                                      ![Client].ask = [kind |-> "GET", name |-> page.name]]
      BY <1>7 DEF AskServer
    <2>2. page = browser[c].page
      BY <1>4, <2>1 DEF NoPage
    <2>3. PICK ask : ask = [kind |-> "GET", name |-> browser[c].page.name]
      OBVIOUS
    <2>4. asker' = [asker EXCEPT ![c].at = "connecting", ![c].ask = ask]
      BY <1>1, <2>1, <2>2, <2>3
    <2>5. asker \in [Peer -> Askers]
      BY HandlersTyped
    <2>6. /\ asker'[c].at = "connecting" /\ asker'[c].ask = ask
          /\ \A h \in Browser \ {c} : asker'[h] = asker[h]
      BY <1>3, <2>4, <2>5 DEF Askers, Peer
    <2>7. http'.at = "ask" /\ http'.client = c /\ http'.broken = http.broken
      BY <1>1, <1>3, <1>7 DEF AskServer, Https
    <2>8. Turn'
      BY <1>1, <1>2, <1>3, <2>1, <2>2, <2>3, <2>6, <2>7, TurnGoesOn
    <2>9. QED BY <1>1, <1>2, <1>3, <2>6, <2>8, ClientKeeper DEF KeeperUp
  <1>8. QED BY <1>5, <1>6, <1>7

\* What the figure server answered, translated, fits the request of the browser.
LEMMA RelayKeeper ==
  ASSUME TypeOK, ServerInv, KeeperInv, Relay
  PROVE  KeeperInv'
  <1>1. PICK c : c = http.client /\ c = Client
    BY DEF Client
  <1>2. /\ life["keeper"] = "up" /\ http.at = "ask" /\ asker[c].at = "done"
        /\ UNCHANGED <<life, waiting, asker, browser>>
    BY <1>1 DEF Relay, KeeperUp, KeeperKeeps
  <1>3. /\ c \in Browser /\ c \in Peer /\ browser[c] \in Browsers /\ asker[c] \in Askers
        /\ http \in Https /\ browser[c].got = <<>>
        /\ browser[c].at \in {"open", "gone"}
        /\ http.broken => \E g \in Browser : browser[g].at = "gone"
        /\ Fits(browser[c].page, browser[c].got)
        /\ browser[c].page.kind = "get"
        /\ asker[c].ask = [kind |-> "GET", name |-> browser[c].page.name]
    BY <1>1, <1>2, ClientFacts
  <1>4. PICK page \in Page : page = browser[c].page /\ page.kind = "get"
    BY <1>3 DEF Browsers
  <1>5. PICK r \in Ask : r = asker[c].ask /\ r = [kind |-> "GET", name |-> page.name]
    BY <1>3, <1>4 DEF Askers
  <1>6. PICK got \in Seq(Parts) : got = asker[c].got
    BY <1>3 DEF Askers
  <1>7. PICK dead \in BOOLEAN : dead <=> ServerDead
    BY DEF ServerDead
  <1>8. Exchange(handler[c], asker[c], wire[c], ServerDead)
    BY <1>3, TypedExchange
  <1>9. asker[c].sent
    BY <1>2, <1>8 DEF Exchange
  <1>10. Heard(asker[c]) = r
    BY <1>5, <1>9 DEF Heard
  <1>11. Follows(Whole(r), 0, got)
    BY <1>6, <1>8, <1>10 DEF Exchange
  <1>12. Len(got) > 0 /\ (dead \/ Len(got) = Len(Whole(r)) \/ r.name \in EndWithin)
    BY <1>2, <1>6, <1>7, <1>8, <1>10 DEF Exchange
  <1>13. PICK t : t = Translated(got)
    OBVIOUS
  <1>14. t \in Seq(Parts) /\ Fits(page, t) /\ (~dead => FitsWhole(page, t))
    BY <1>4, <1>5, <1>11, <1>12, <1>13, FitsRelay
  <1>15. http' = [http EXCEPT !.at = "write", !.out = t]
    BY <1>1, <1>6, <1>13 DEF Relay, HttpWrites
  <1>16. http'.at = "write" /\ http'.client = c /\ http'.broken = http.broken /\ http'.out = t
    BY <1>1, <1>3, <1>15 DEF Https
  <1>17. browser'[c].got \o http'.out = t
    <2>1. <<>> \o t = t
      BY <1>14, ConcatEmptySeq
    <2>2. QED BY <1>2, <1>3, <1>16, <2>1
  <1>18. NoneDead => ~dead
    BY <1>7 DEF NoneDead, ServerDead
  <1>19. Turn'
    BY <1>1, <1>2, <1>3, <1>4, <1>14, <1>16, <1>17, <1>18, TurnGoesOn
  <1>20. QED BY <1>1, <1>2, <1>3, <1>19, ClientKeeper DEF KeeperUp

\* One part of the answer passes from the thread to the browser, or is lost.
LEMMA WriteKeeper ==
  ASSUME TypeOK, KeeperInv, WriteHttp
  PROVE  KeeperInv'
  <1>1. PICK c : c = http.client /\ c = Client
    BY DEF Client
  <1>2. life["keeper"] = "up" /\ http.at = "write" /\ UNCHANGED <<life, waiting, asker>>
    BY DEF WriteHttp, KeeperUp, KeeperKeeps
  <1>3. /\ c \in Browser /\ browser[c] \in Browsers /\ http \in Https
        /\ browser[c].at \in {"open", "gone"} /\ browser[c].got \in Seq(Parts)
        /\ http.broken => \E g \in Browser : browser[g].at = "gone"
        /\ Fits(browser[c].page, browser[c].got)
        /\ browser[c].at = "open" =>
             /\ Fits(browser[c].page, browser[c].got \o http.out)
             /\ NoneDead => FitsWhole(browser[c].page, browser[c].got \o http.out)
    BY <1>1, <1>2, ClientFacts
  <1>4. PICK out \in Seq(Parts) : out = http.out /\ out # <<>>
    BY <1>1, <1>2, ClientFacts DEF WriteHttp
  <1>5. PICK rest \in Seq(Parts) : rest = Tail(out)
    BY <1>4, TailProperties
  <1>6. PICK part \in Parts : part = Head(out)
    BY <1>4, TailProperties
  <1>7. PICK got \in Seq(Parts) : got = browser[c].got
    BY <1>3
  <1>8. PICK broken : http' = [http EXCEPT !.out = rest, !.broken = broken]
                      /\ (broken => http.broken \/ browser[c].at = "gone")
    <2>1. PICK broken : broken = (http.broken \/ Left(Client))
      OBVIOUS
    <2>2. http' = [http EXCEPT !.out = rest, !.broken = broken]
      BY <1>4, <1>5, <2>1 DEF WriteHttp
    <2>3. broken => http.broken \/ browser[c].at = "gone"
      BY <1>1, <2>1 DEF Left
    <2>4. QED BY <2>2, <2>3
  <1>9. /\ http'.at = "write" /\ http'.client = c /\ http'.out = rest
        /\ http'.broken => http.broken \/ browser[c].at = "gone"
    BY <1>1, <1>2, <1>3, <1>8 DEF Https
  <1>10. CASE browser[c].at = "gone"
    <2>1. browser' = browser
      BY <1>1, <1>10 DEF WriteHttp, Left
    <2>2. http'.broken => \E g \in Browser : browser'[g].at = "gone"
      BY <1>3, <1>10, <2>1
    <2>3. PICK s : s = browser'[c].got \o http'.out
      OBVIOUS
    <2>4. Turn'
      BY <1>1, <1>2, <1>3, <1>9, <1>10, <2>1, <2>2, <2>3, TurnGoesOn
    <2>5. QED BY <1>1, <1>2, <1>3, <1>10, <2>1, <2>4, ClientKeeper DEF KeeperUp
  <1>11. CASE browser[c].at = "open"
    <2>1. PICK more \in Seq(Parts) : more = Append(got, part)
      BY AppendProperties
    <2>2. browser' = [browser EXCEPT ![c].got = more]
      BY <1>1, <1>4, <1>6, <1>7, <1>11, <2>1 DEF WriteHttp, Left
    <2>3. browser \in [Browser -> Browsers]
      BY KeepersTyped
    <2>4. /\ browser'[c].at = "open" /\ browser'[c].page = browser[c].page
          /\ browser'[c].got = more
          /\ \A h \in Browser \ {c} : browser'[h] = browser[h]
      BY <1>3, <1>11, <2>2, <2>3 DEF Browsers
    <2>5. http'.broken => \E g \in Browser : browser'[g].at = "gone"
      <3>1. SUFFICES ASSUME NEW g \in Browser, browser[g].at = "gone"
                     PROVE  browser'[g].at = "gone"
        BY <1>3, <1>9, <1>11
      <3>2. QED BY <1>11, <2>4, <3>1
    <2>6. PICK s : s = browser'[c].got \o http'.out
      OBVIOUS
    <2>7. s = got \o out /\ s \in Seq(Parts)
      <3>1. /\ Append(got, Head(out)) \o Tail(out) = got \o out
            /\ got \o out \in Seq(Parts)
        BY <1>4, WrittenSame
      <3>2. s = Append(got, part) \o rest
        BY <1>9, <2>1, <2>4, <2>6
      <3>3. s = Append(got, Head(out)) \o Tail(out)
        BY <1>5, <1>6, <3>2
      <3>4. QED BY <3>1, <3>3
    <2>8. Fits(browser[c].page, s) /\ (NoneDead => FitsWhole(browser[c].page, s))
      BY <1>3, <1>4, <1>7, <1>11, <2>7
    <2>9. Fits(browser[c].page, browser'[c].got)
      <3>1. Len(more) <= Len(s) /\ \A k \in 1..Len(more) : more[k] = s[k]
        <4>1. s = more \o rest
          BY <1>9, <2>4, <2>6
        <4>2. QED BY <4>1, PrefixOfConcat
      <3>2. QED BY <2>4, <2>7, <2>8, <3>1, FitsPrefix
    <2>10. Turn'
      BY <1>1, <1>2, <1>3, <1>9, <2>4, <2>5, <2>6, <2>8, TurnGoesOn
    <2>11. QED BY <1>1, <1>2, <1>3, <2>4, <2>9, <2>10, ClientKeeper DEF KeeperUp
  <1>12. QED BY <1>3, <1>10, <1>11

\* The answer is written: whoever stayed has all of it.
LEMMA CloseKeeper ==
  ASSUME TypeOK, KeeperInv, CloseClient
  PROVE  KeeperInv'
  <1>1. PICK c : c = http.client /\ c = Client
    BY DEF Client
  <1>2. /\ life["keeper"] = "up" /\ http.at = "write" /\ http.out = <<>>
        /\ UNCHANGED <<life, waiting, asker>>
    BY DEF CloseClient, KeeperUp, KeeperKeeps
  <1>3. /\ c \in Browser /\ browser[c] \in Browsers /\ browser \in [Browser -> Browsers]
        /\ browser[c].at \in {"open", "gone"} /\ browser[c].got \in Seq(Parts)
        /\ Fits(browser[c].page, browser[c].got)
        /\ browser[c].at = "open" /\ NoneDead =>
             FitsWhole(browser[c].page, browser[c].got \o http.out)
    BY <1>1, <1>2, ClientFacts, KeepersTyped
  <1>4. browser[c].got \o http.out = browser[c].got
    BY <1>2, <1>3, ConcatEmptySeq
  <1>5. PICK at : /\ browser' = [browser EXCEPT ![c].at = at]
                  /\ at = IF browser[c].at = "open" THEN "done" ELSE browser[c].at
    BY <1>1 DEF CloseClient
  <1>6. at = "done" => browser[c].at = "open"
    BY <1>3, <1>5
  <1>7. /\ browser'[c].at = at /\ browser'[c].page = browser[c].page
        /\ browser'[c].got = browser[c].got
        /\ \A h \in Browser \ {c} : browser'[h] = browser[h]
    BY <1>3, <1>5 DEF Browsers
  <1>8. browser'[c].at \notin {"absent", "idle"}
    BY <1>3, <1>5, <1>7
  <1>9. http'.at = "accept"
    BY DEF CloseClient, Accepting
  <1>10. browser'[c].at = "done" /\ NoneDead => FitsWhole(browser[c].page, browser'[c].got)
    BY <1>3, <1>4, <1>6, <1>7
  <1>11. QED BY <1>1, <1>2, <1>3, <1>7, <1>8, <1>9, <1>10, ClientKeeper DEF KeeperUp

LEMMA KeeperKeeper ==
  ASSUME TypeOK, ServerInv, KeeperInv, KeeperStep
  PROVE  KeeperInv'
  BY AcceptKeeper, HandleKeeper, RelayKeeper, DiesKeeper, WriteKeeper, CloseKeeper
     DEF KeeperStep, RequestThrows, WriteHttpThrows

-----------------------------------------------------------------------------
(* A process ends for a cause, and the cause stays                         *)

\* The other end of a connection keeps its question, and its failure.
LEMMA AskerGoesOn ==
  ASSUME TypeOK, KeeperInv, Next, NEW c \in Peer
  PROVE  /\ asker[c].at = "failed" => asker'[c].at = "failed"
         /\ \/ asker'[c].ask = asker[c].ask
            \/ c \in Browser /\ asker[c].at = "idle" /\ asker'[c].at = "connecting"
         /\ c \in Browser /\ asker'[c].at \in Away => asker[c].at \in Away
  <1>0. asker \in [Peer -> Askers] /\ asker[c] \in Askers
    BY HandlersTyped
  <1>1. CASE asker'[c] = asker[c]
    BY <1>1
  <1>2. CASE \E d \in Peer : AskerStep(d)
    <2>1. PICK d \in Peer : AskerStep(d)
      BY <1>2
    <2>2. CASE d # c
      <3>1. asker'[c] = asker[c]
        BY <1>0, <2>1, <2>2
           DEF AskerStep, Visit, EstablishConnection, WriteRequest, Receive, EndOfAnswer, TimesOut,
               Asks
      <3>2. QED BY <1>1, <3>1
    <2>3. CASE d = c
      <3>1. asker[c].at \in {"connecting", "connected", "open"} \/ Visit(c)
        BY <2>1, <2>3 DEF AskerStep, EstablishConnection, WriteRequest, Receive, EndOfAnswer,
                          TimesOut, AskerAt
      <3>2. CASE \E at \in {"connecting", "connected", "failed", "done"} : Asks(c, at)
        BY <1>0, <3>1, <3>2 DEF Asks, Askers, Away, Visit
      <3>3. CASE asker' = [asker EXCEPT ![c].at = "open", ![c].sent = TRUE]
        BY <1>0, <3>1, <3>3 DEF Askers, Away, Visit
      <3>4. CASE Receive(c)
        <4>1. PICK n \in 1..Len(wire[c]) :
                LET got == asker[c].got \o SubSeq(wire[c], 1, n)
                    over == ReadAnswer(got)
                IN asker' = [asker EXCEPT ![c].got = got, ![c].at = IF over THEN "done" ELSE @]
          BY <3>4 DEF Receive
        <4>2. PICK got, over : /\ got = asker[c].got \o SubSeq(wire[c], 1, n)
                               /\ over = ReadAnswer(got)
          OBVIOUS
        <4>3. PICK at : at = IF over THEN "done" ELSE asker[c].at
          OBVIOUS
        <4>4. asker' = [asker EXCEPT ![c].got = got, ![c].at = at]
          BY <4>1, <4>2, <4>3
        <4>5. asker'[c].ask = asker[c].ask /\ asker'[c].at = at
          BY <1>0, <4>4 DEF Askers
        <4>6. asker[c].at = "open" /\ at \in {"open", "done"}
          BY <3>4, <4>3 DEF Receive, AskerAt
        <4>7. QED BY <4>5, <4>6 DEF Away
      <3>5. QED BY <2>1, <2>3, <3>2, <3>3, <3>4
               DEF AskerStep, Visit, EstablishConnection, WriteRequest, EndOfAnswer, TimesOut
    <2>4. QED BY <2>2, <2>3
  <1>3. CASE KeeperDies
    <2>1. asker'[c] = asker[c] \/ (/\ asker[c].at \in {"connected", "open"}
                                   /\ asker'[c] = [asker[c] EXCEPT !.at = "failed"])
      BY <1>3 DEF KeeperDies
    <2>2. [asker[c] EXCEPT !.at = "failed"].at = "failed"
          /\ [asker[c] EXCEPT !.at = "failed"].ask = asker[c].ask
      BY <1>0 DEF Askers
    <2>3. QED BY <2>1, <2>2 DEF Away
  <1>4. CASE AskServer
    <2>1. PICK name :
            asker' = [asker EXCEPT ![Client].at = "connecting",
                                   ![Client].ask = [kind |-> "GET", name |-> name]]
      BY <1>4 DEF AskServer
    <2>2. PICK ask : ask = [kind |-> "GET", name |-> name]
      OBVIOUS
    <2>3. PICK d : d = Client
      OBVIOUS
    <2>4. asker' = [asker EXCEPT ![d].at = "connecting", ![d].ask = ask]
      BY <2>1, <2>2, <2>3
    <2>5. asker[d].at = "idle" /\ d \in Browser
      BY <1>4, <2>3, ClientFacts DEF AskServer, KeeperUp, Client
    <2>6. CASE d = c
      <3>1. asker'[c].at = "connecting"
        BY <1>0, <2>4, <2>6 DEF Askers
      <3>2. QED BY <2>5, <2>6, <3>1 DEF Away
    <2>7. CASE d # c
      <3>1. asker'[c] = asker[c]
        BY <1>0, <2>4, <2>7
      <3>2. QED BY <1>1, <3>1
    <2>8. QED BY <2>6, <2>7
  <1>5. CASE Starts \/ ServerStep \/ \E h \in Browser : BrowserStep(h)
    <2>1. asker' = asker
      BY <1>5 DEF Starts, BuildSocket, Bind, BindThrows, MarkPassive, Becomes, ServerStep,
           WaitForConnection, AcceptThrows, ThreadFails, Read, validateRequest, existASCII,
           OpenFails, extractBlock, Write, WriteThrows, Close, ServerKeeps, ServerDies, ServerEnds,
           BrowserStep, MakeConnection, SendRequest, Leave, BrowserKeeps
    <2>2. QED BY <1>1, <2>1
  <1>6. CASE KeeperStep /\ ~KeeperDies /\ ~AskServer
    <2>1. asker' = asker
      BY <1>6 DEF KeeperStep, AcceptConnection, ReadHeader, HandlePage, Relay, RequestThrows,
                  WriteHttp, WriteHttpThrows, CloseClient
    <2>2. QED BY <1>1, <2>1
  <1>7. QED BY <1>2, <1>3, <1>4, <1>5, <1>6 DEF Next

\* Nothing moves in a figure server that has ended.
LEMMA DeadServerStays ==
  ASSUME TypeOK, ServerDead, Next
  PROVE  /\ fds' = fds /\ ServerDead'
         /\ \A c \in Peer : handler'[c].at = handler[c].at
  <1>0. handler \in [Peer -> Handlers]
    BY HandlersTyped
  <1>1. life["server"] = "dead" /\ ~ServerUp
    BY DEF ServerDead, ServerUp
  <1>2. ~ServerStep
    BY <1>1 DEF ServerStep, WaitForConnection, AcceptThrows, ThreadFails, Read, validateRequest,
                existASCII, OpenFails, extractBlock, Write, WriteThrows, Close, Handling
  <1>3. CASE Starts
    <2>1. PICK p \in Process, to \in {"built", "bound", "up", "dead"} :
            /\ life' = [life EXCEPT ![p] = to] /\ life[p] \in {"down", "built", "bound"}
            /\ UNCHANGED <<fds, handler>>
      BY <1>3 DEF Starts, BuildSocket, Bind, BindThrows, MarkPassive, Becomes, serverVars
    <2>2. p # "server"
      BY <1>1, <2>1
    <2>3. life'["server"] = "dead"
      BY <1>1, <2>1, <2>2 DEF TypeOK
    <2>4. QED BY <2>1, <2>3 DEF ServerDead
  <1>4. CASE KeeperStep
    <2>1. UNCHANGED <<fds, handler>>
      BY <1>4 DEF KeeperStep, AcceptConnection, ReadHeader, HandlePage, AskServer, Relay,
                  RequestThrows, WriteHttp, WriteHttpThrows, CloseClient, KeeperKeeps, KeeperDies,
                  serverVars
    <2>2. life' = life \/ life' = [life EXCEPT !["keeper"] = "dead"]
      BY <1>4 DEF KeeperStep, AcceptConnection, ReadHeader, HandlePage, AskServer, Relay,
                  RequestThrows, WriteHttp, WriteHttpThrows, CloseClient, KeeperKeeps, KeeperDies
    <2>3. life'["server"] = "dead"
      BY <1>1, <2>2 DEF TypeOK, Process
    <2>4. QED BY <2>1, <2>3 DEF ServerDead
  <1>5. CASE \E c \in Peer : AskerStep(c)
    <2>1. PICK d \in Peer : AskerStep(d)
      BY <1>5
    <2>2. UNCHANGED <<life, fds>>
      BY <2>1 DEF AskerStep, Visit, EstablishConnection, WriteRequest, Receive, EndOfAnswer,
                  TimesOut, AskerKeeps
    <2>3. handler' = handler \/ \E b : handler' = [handler EXCEPT ![d].broken = b]
      <3>1. CASE Receive(d)
        <4>1. PICK n, over : handler' = [handler EXCEPT ![d].broken = @ \/ (over /\ n < Len(wire[d]))]
          BY <3>1 DEF Receive
        <4>2. PICK b : b = (handler[d].broken \/ (over /\ n < Len(wire[d])))
          OBVIOUS
        <4>3. handler' = [handler EXCEPT ![d].broken = b]
          BY <4>1, <4>2
        <4>4. QED BY <4>3
      <3>2. CASE ~Receive(d)
        BY <2>1, <3>2 DEF AskerStep, Visit, EstablishConnection, WriteRequest, EndOfAnswer, TimesOut
      <3>3. QED BY <3>1, <3>2
    <2>4. \A c \in Peer : handler'[c].at = handler[c].at
      <3>1. ASSUME NEW b, handler' = [handler EXCEPT ![d].broken = b], NEW c \in Peer
            PROVE  handler'[c].at = handler[c].at
        BY <1>0, <3>1 DEF Handlers
      <3>2. QED BY <2>3, <3>1
    <2>5. QED BY <2>2, <2>4 DEF ServerDead
  <1>6. CASE \E h \in Browser : BrowserStep(h)
    BY <1>6 DEF BrowserStep, MakeConnection, SendRequest, Leave, BrowserKeeps, serverVars, ServerDead
  <1>7. QED BY <1>2, <1>3, <1>4, <1>5, <1>6 DEF Next

\* Nor does a browser come back, or reach a book-keeper that has ended.
LEMMA DeadKeeperStays ==
  ASSUME TypeOK, life["keeper"] = "dead", Next, NEW h \in Browser
  PROVE  /\ life'["keeper"] = "dead"
         /\ browser[h].at = "gone" => browser'[h].at = "gone"
         /\ browser[h].at \in Away => browser'[h].at \in Away
  <1>0. browser \in [Browser -> Browsers] /\ browser[h] \in Browsers
    BY KeepersTyped
  <1>1. ~KeeperStep
    BY DEF KeeperStep, AcceptConnection, ReadHeader, HandlePage, AskServer, Relay, RequestThrows,
           WriteHttp, WriteHttpThrows, CloseClient, KeeperUp
  <1>2. CASE Starts
    <2>1. PICK p \in Process, to \in {"built", "bound", "up", "dead"} :
            /\ life' = [life EXCEPT ![p] = to] /\ life[p] \in {"down", "built", "bound"}
            /\ UNCHANGED browser
      BY <1>2 DEF Starts, BuildSocket, Bind, BindThrows, MarkPassive, Becomes
    <2>2. QED BY <2>1 DEF TypeOK
  <1>3. CASE ServerStep
    <2>1. UNCHANGED browser /\ (life' = life \/ life' = [life EXCEPT !["server"] = "dead"])
      BY <1>3 DEF ServerStep, WaitForConnection, AcceptThrows, ThreadFails, Read, validateRequest,
           existASCII, OpenFails, extractBlock, Write, WriteThrows, Close, ServerKeeps, ServerDies,
           ServerEnds
    <2>2. QED BY <2>1 DEF TypeOK, Process
  <1>4. CASE \E c \in Peer : AskerStep(c)
    BY <1>4 DEF AskerStep, Visit, EstablishConnection, WriteRequest, Receive, EndOfAnswer, TimesOut,
                AskerKeeps
  <1>5. CASE \E g \in Browser : BrowserStep(g)
    <2>1. PICK g \in Browser : BrowserStep(g)
      BY <1>5
    <2>2. UNCHANGED life /\ browser[g].at = "open"
      BY <2>1 DEF BrowserStep, MakeConnection, SendRequest, Leave, BrowserKeeps
    <2>3. CASE g = h
      BY <2>2, <2>3 DEF Away
    <2>4. CASE g # h
      <3>1. browser'[h] = browser[h]
        BY <1>0, <2>1, <2>4 DEF BrowserStep, MakeConnection, SendRequest, Leave
      <3>2. QED BY <2>2, <3>1
    <2>5. QED BY <2>3, <2>4
  <1>6. QED BY <1>1, <1>2, <1>3, <1>4, <1>5 DEF Next

LEMMA UnaskedStep ==
  ASSUME TypeOK, KeeperInv, Unasked, Next
  PROVE  Unasked'
  <1> SUFFICES ASSUME NEW h \in Browser, asker'[h].at \in Away
               PROVE  asker'[h].ask = NoQuestion
    BY DEF Unasked, Away
  <1>1. h \in Peer
    BY DEF Peer
  <1>2. asker[h].at \in Away /\ asker'[h].ask = asker[h].ask
    BY <1>1, AskerGoesOn DEF Away
  <1>3. QED BY <1>2 DEF Unasked, Away

\* A peer that gave up, or that asked for a figure with "/END", stays one.
LEMMA ImpatientStay ==
  ASSUME TypeOK, KeeperInv, Unasked, Next, Impatient # {}
  PROVE  Impatient' # {}
  <1>1. PICK c \in Peer : asker[c].at = "failed" \/ asker[c].ask.name \in EndWithin
    BY DEF Impatient
  <1>2. CASE asker[c].at = "failed"
    <2>1. asker'[c].at = "failed"
      BY <1>2, AskerGoesOn
    <2>2. QED BY <2>1 DEF Impatient
  <1>3. CASE asker[c].ask.name \in EndWithin
    <2>1. ~(c \in Browser /\ asker[c].at = "idle")
      <3>1. NoQuestion.name \notin EndWithin
        BY SocketAssumption DEF NoQuestion
      <3>2. QED BY <1>3, <3>1 DEF Unasked
    <2>2. asker'[c].ask = asker[c].ask
      BY <2>1, AskerGoesOn
    <2>3. QED BY <1>3, <2>2 DEF Impatient
  <1>4. QED BY <1>1, <1>2, <1>3

\* What the figure server ends for.
LEMMA ServerEndsForCause ==
  ASSUME TypeOK, ServerInv, KeeperInv, Next, ~ServerDead, ServerDead'
  PROVE  \/ Impatient' # {} \/ (\E c \in Peer : handler'[c].at = "refused") \/ fds' = MaxFd
         \/ \A c \in Peer : handler'[c].at = "none"
  <1>0. /\ handler \in [Peer -> Handlers] /\ life["server"] # "dead" /\ life'["server"] = "dead"
        /\ fds \in Int /\ MaxFd \in Nat /\ fds <= MaxFd
    BY HandlersTyped, SocketAssumption DEF ServerDead, ServerInv, TypeOK
  <1>1. CASE Starts
    <2>1. PICK p \in Process, to \in {"built", "bound", "up", "dead"} :
            /\ life' = [life EXCEPT ![p] = to] /\ life[p] \in {"down", "built", "bound"}
            /\ UNCHANGED handler
      BY <1>1 DEF Starts, BuildSocket, Bind, BindThrows, MarkPassive, Becomes, serverVars
    <2>2. p = "server"
      BY <1>0, <2>1
    <2>3. \A c \in Peer : handler'[c].at = "none"
      BY <2>1, <2>2 DEF ServerInv
    <2>4. QED BY <2>3
  <1>2. CASE ServerStep
    <2>1. CASE AcceptThrows \/ \E c \in Peer : OpenFails(c)
      <3>1. fds >= MaxFd /\ fds' = fds
        BY <2>1 DEF AcceptThrows, OpenFails, ServerDies, ServerEnds
      <3>2. fds' = MaxFd
        BY <1>0, <3>1
      <3>3. QED BY <3>2
    <2>2. CASE ThreadFails
      <3>1. PICK c : c = Head(waiting["server"])
        OBVIOUS
      <3>2. c \in Peer
        BY <2>2, <3>1, TailProperties DEF ThreadFails, TypeOK
      <3>3. PICK refused : refused = [handler EXCEPT ![c].at = "refused"]
        OBVIOUS
      <3>4. refused \in [Peer -> Handlers] /\ refused[c].at = "refused"
        BY <1>0, <3>2, <3>3 DEF Handlers
      <3>5. CASE handler' = refused
        BY <3>2, <3>4, <3>5
      <3>6. CASE ServerEnds(refused)
        <4>1. handler'[c] = [refused[c] EXCEPT !.at = IF @ \in {"none", "refused"} THEN @ ELSE "end"]
          BY <3>2, <3>6 DEF ServerEnds
        <4>2. handler'[c].at = "refused"
          BY <3>2, <3>4, <4>1 DEF Handlers
        <4>3. QED BY <3>2, <4>2
      <3>7. QED BY <2>2, <3>1, <3>3, <3>5, <3>6 DEF ThreadFails
    <2>3. CASE \E c \in Peer : WriteThrows(c)
      <3>1. PICK c \in Peer : WriteThrows(c)
        BY <2>3
      <3>2. handler[c].at = "write" /\ handler[c].broken /\ handler[c].out # <<>> /\ asker' = asker
        BY <3>1 DEF WriteThrows, Handling, ServerDies, ServerEnds
      <3>3. Exchange(handler[c], asker[c], wire[c], ServerDead)
        BY TypedExchange
      <3>4. asker[c].at = "failed" \/ asker[c].ask.name \in EndWithin
        BY <3>2, <3>3 DEF Exchange
      <3>5. c \in Impatient'
        BY <3>2, <3>4 DEF Impatient
      <3>6. QED BY <3>5
    <2>4. CASE /\ ~AcceptThrows /\ ~ThreadFails
               /\ \A c \in Peer : ~OpenFails(c) /\ ~WriteThrows(c)
      <3>1. life' = life
        BY <1>2, <2>4 DEF ServerStep, WaitForConnection, Read, validateRequest, existASCII,
                          extractBlock, Write, Close, ServerKeeps
      <3>2. QED BY <1>0, <3>1
    <2>5. QED BY <2>1, <2>2, <2>3, <2>4
  <1>3. CASE KeeperStep
    <2>1. life' = life \/ life' = [life EXCEPT !["keeper"] = "dead"]
      BY <1>3 DEF KeeperStep, AcceptConnection, ReadHeader, HandlePage, AskServer, Relay,
                  RequestThrows, WriteHttp, WriteHttpThrows, CloseClient, KeeperKeeps, KeeperDies
    <2>2. life'["server"] = life["server"]
      BY <2>1 DEF TypeOK, Process
    <2>3. QED BY <1>0, <2>2
  <1>4. CASE (\E c \in Peer : AskerStep(c)) \/ \E h \in Browser : BrowserStep(h)
    <2>1. life' = life
      BY <1>4 DEF AskerStep, Visit, EstablishConnection, WriteRequest, Receive, EndOfAnswer,
                  TimesOut, AskerKeeps, BrowserStep, MakeConnection, SendRequest, Leave, BrowserKeeps
    <2>2. QED BY <1>0, <2>1
  <1>5. QED BY <1>1, <1>2, <1>3, <1>4 DEF Next

\* What the book-keeper ends for.
LEMMA KeeperEndsForCause ==
  ASSUME TypeOK, KeeperInv, Next, life["keeper"] # "dead", life'["keeper"] = "dead"
  PROVE  \/ \E h \in Browser : browser'[h].at = "gone" \/ asker'[h].at = "failed"
         \/ \A h \in Browser : browser'[h].at \in {"absent", "idle"}
  <1>0. browser \in [Browser -> Browsers]
    BY KeepersTyped
  <1>1. CASE Starts
    <2>1. PICK p \in Process, to \in {"built", "bound", "up", "dead"} :
            /\ life' = [life EXCEPT ![p] = to] /\ life[p] \in {"down", "built", "bound"}
            /\ UNCHANGED browser
      BY <1>1 DEF Starts, BuildSocket, Bind, BindThrows, MarkPassive, Becomes
    <2>2. p = "keeper"
      BY <2>1
    <2>3. \A h \in Browser : browser'[h].at \in {"absent", "idle"}
      BY <2>1, <2>2 DEF KeeperInv
    <2>4. QED BY <2>3
  <1>2. CASE RequestThrows
    <2>1. PICK c : c = http.client /\ c = Client
      BY DEF Client
    <2>2. c \in Browser /\ c \in Peer /\ asker[c].at = "failed"
      BY <1>2, <2>1, ClientFacts DEF RequestThrows, KeeperUp
    <2>3. asker'[c].at = "failed"
      BY <2>2, AskerGoesOn
    <2>4. QED BY <2>2, <2>3
  <1>3. CASE WriteHttpThrows
    <2>1. PICK g \in Browser : browser[g].at = "gone"
      <3>1. http.at # "accept" /\ http.broken
        BY <1>3 DEF WriteHttpThrows, KeeperUp
      <3>2. QED BY <3>1 DEF KeeperInv, Turn
    <2>2. browser[g] \in Browsers
      BY <1>0
    <2>3. browser'[g].at = "gone"
      BY <1>3, <2>1, <2>2 DEF WriteHttpThrows, KeeperDies, Browsers
    <2>4. QED BY <2>3
  <1>4. CASE KeeperStep /\ ~RequestThrows /\ ~WriteHttpThrows
    <2>1. life' = life
      BY <1>4 DEF KeeperStep, AcceptConnection, ReadHeader, HandlePage, AskServer, Relay,
                  WriteHttp, CloseClient, KeeperKeeps
    <2>2. QED BY <2>1
  <1>5. CASE ServerStep
    <2>1. life' = life \/ life' = [life EXCEPT !["server"] = "dead"]
      BY <1>5 DEF ServerStep, WaitForConnection, AcceptThrows, ThreadFails, Read, validateRequest,
           existASCII, OpenFails, extractBlock, Write, WriteThrows, Close, ServerKeeps, ServerDies,
           ServerEnds
    <2>2. life'["keeper"] = life["keeper"]
      BY <2>1 DEF TypeOK, Process
    <2>3. QED BY <2>2
  <1>6. CASE (\E c \in Peer : AskerStep(c)) \/ \E h \in Browser : BrowserStep(h)
    <2>1. life' = life
      BY <1>6 DEF AskerStep, Visit, EstablishConnection, WriteRequest, Receive, EndOfAnswer,
                  TimesOut, AskerKeeps, BrowserStep, MakeConnection, SendRequest, Leave, BrowserKeeps
    <2>2. QED BY <2>1
  <1>7. QED BY <1>1, <1>2, <1>3, <1>4, <1>5, <1>6 DEF Next

LEMMA CauseStep ==
  ASSUME TypeOK, ServerInv, KeeperInv, Unasked, ProcessesEndForCause, Next
  PROVE  ProcessesEndForCause'
  <1>1. ASSUME life'["server"] = "dead"
        PROVE  \/ Impatient' # {} \/ (\E c \in Peer : handler'[c].at = "refused") \/ fds' = MaxFd
               \/ \A c \in Peer : handler'[c].at = "none"
    <2>1. CASE life["server"] = "dead"
      <3>1. \/ Impatient # {} \/ (\E c \in Peer : handler[c].at = "refused") \/ fds = MaxFd
            \/ \A c \in Peer : handler[c].at = "none"
        BY <2>1 DEF ProcessesEndForCause
      <3>2. fds' = fds /\ \A c \in Peer : handler'[c].at = handler[c].at
        BY <2>1, DeadServerStays DEF ServerDead
      <3>3. Impatient # {} => Impatient' # {}
        BY ImpatientStay
      <3>4. QED BY <3>1, <3>2, <3>3
    <2>2. CASE life["server"] # "dead"
      BY <1>1, <2>2, ServerEndsForCause DEF ServerDead
    <2>3. QED BY <2>1, <2>2
  <1>2. ASSUME life'["keeper"] = "dead"
        PROVE  \/ (\E h \in Browser : browser'[h].at = "gone" \/ asker'[h].at = "failed")
               \/ \A h \in Browser : browser'[h].at \in {"absent", "idle"}
    <2>1. CASE life["keeper"] = "dead"
      <3>1. \A h \in Browser : /\ browser[h].at = "gone" => browser'[h].at = "gone"
                               /\ browser[h].at \in Away => browser'[h].at \in Away
        BY <2>1, DeadKeeperStays
      <3>2. \A h \in Browser : asker[h].at = "failed" => asker'[h].at = "failed"
        BY AskerGoesOn DEF Peer
      <3>3. \/ (\E h \in Browser : browser[h].at = "gone" \/ asker[h].at = "failed")
            \/ \A h \in Browser : browser[h].at \in {"absent", "idle"}
        BY <2>1 DEF ProcessesEndForCause
      <3>4. QED BY <3>1, <3>2, <3>3 DEF Away
    <2>2. CASE life["keeper"] # "dead"
      BY <1>2, <2>2, KeeperEndsForCause
    <2>3. QED BY <2>1, <2>2
  <1>3. QED BY <1>1, <1>2 DEF ProcessesEndForCause

-----------------------------------------------------------------------------
(* The theorems                                                            *)

\* A text that holds the first pieces of a figure.
LEMMA PrefixOfPieces ==
  ASSUME NEW f \in Figure, NEW s \in Seq(Parts), Len(s) <= Size[f],
         \A k \in 1..Len(s) : s[k] = Piece(f, k)
  PROVE  IsPrefix(s, Pieces(f)) /\ (Len(s) = Size[f] => s = Pieces(f))
  <1>1. PICK all \in Seq(Parts), size \in Nat \ {0} :
          all = Pieces(f) /\ size = Size[f] /\ Len(all) = size
    BY PiecesTyped
  <1>2. \A k \in 1..size : all[k] = Piece(f, k)
    BY <1>1 DEF Pieces
  <1>3. PICK m \in Nat : m = Len(s) /\ m <= size
    BY <1>1
  <1>4. /\ SubSeq(s, 1, m) \in Seq(Parts) /\ Len(SubSeq(s, 1, m)) = m
        /\ \A k \in 1..m : SubSeq(s, 1, m)[k] = s[k]
    BY <1>3
  <1>5. /\ SubSeq(all, 1, m) \in Seq(Parts) /\ Len(SubSeq(all, 1, m)) = m
        /\ \A k \in 1..m : SubSeq(all, 1, m)[k] = all[k]
    BY <1>1, <1>3
  <1>6. \A k \in 1..m : s[k] = Piece(f, k) /\ all[k] = Piece(f, k)
    BY <1>2, <1>3
  <1>7. PICK u \in Seq(Parts) : u = SubSeq(s, 1, m)
    BY <1>4
  <1>8. PICK v \in Seq(Parts) : v = SubSeq(all, 1, m)
    BY <1>5
  <1>9. Len(u) = m /\ Len(v) = m /\ \A k \in 1..m : u[k] = v[k]
    BY <1>4, <1>5, <1>6, <1>7, <1>8
  <1>10. u = v
    BY <1>9
  <1>11. IsPrefix(s, all)
    BY <1>1, <1>3, <1>7, <1>8, <1>10 DEF IsPrefix
  <1>12. m = size => s = all
    <2> SUFFICES ASSUME m = size PROVE s = all
      OBVIOUS
    <2>1. Len(s) = m /\ Len(all) = m /\ \A k \in 1..m : s[k] = all[k]
      BY <1>1, <1>3, <1>6
    <2>2. QED BY <2>1
  <1>13. QED BY <1>1, <1>3, <1>11, <1>12

\* What fits a request is the figure it names, as AnswersAreWhole has it.
LEMMA FitsIsPrefix ==
  ASSUME NEW page, page.kind = "get", NEW got \in Seq(Parts), got # <<>>,
         got[1] = Status("200"), Fits(page, got), NEW rest, rest = Tail(got)
  PROVE  /\ page.name \in Figure
         /\ IsPrefix(IF rest # <<>> /\ Last(rest) = Clipped THEN Front(rest) ELSE rest,
                     Pieces(page.name))
         /\ page.name \notin EndWithin /\ FitsWhole(page, got) => rest = Pieces(page.name)
  <1>1. PICK n \in Nat \ {0} : n = Len(got)
    BY EmptySeq
  <1>2. page.name \in Figure
    BY DEF Fits
  <1>3. PICK f \in Figure, size \in Nat \ {0} : f = page.name /\ size = Size[f]
    BY <1>2, SocketAssumption
  <1>4. n <= size + 1
    BY <1>1, <1>3 DEF Fits
  <1>5. \A k \in 2..n : got[k] = Piece(f, k - 1) \/ (k = n /\ got[k] = Clipped)
    BY <1>1, <1>3 DEF Fits
  <1>6. PICK m \in Nat : m = n - 1 /\ m <= size
    BY <1>4
  <1>7. rest \in Seq(Parts) /\ Len(rest) = m /\ \A k \in 1..m : rest[k] = got[k + 1]
    BY <1>1, <1>6, TailProperties
  <1>8. \A k \in 1..m : rest[k] = Piece(f, k) \/ (k = m /\ rest[k] = Clipped)
    <2> SUFFICES ASSUME NEW k \in 1..m
                 PROVE  rest[k] = Piece(f, k) \/ (k = m /\ rest[k] = Clipped)
      OBVIOUS
    <2>1. k + 1 \in 2..n /\ (k + 1) - 1 = k /\ (k + 1 = n => k = m)
      BY <1>6
    <2>2. QED BY <1>5, <1>7, <2>1
  <1>0. PICK body : body = IF rest # <<>> /\ Last(rest) = Clipped THEN Front(rest) ELSE rest
    OBVIOUS
  <1> SUFFICES /\ IsPrefix(body, Pieces(f))
               /\ page.name \notin EndWithin /\ FitsWhole(page, got) => rest = Pieces(f)
    BY <1>0, <1>2, <1>3
  <1>9. ASSUME rest # <<>>, Last(rest) = Clipped
        PROVE  IsPrefix(body, Pieces(f))
    <2>1. PICK l \in Nat : l = m - 1 /\ m = l + 1 /\ l <= size
      BY <1>6, <1>7, <1>9, EmptySeq
    <2>2. /\ SubSeq(rest, 1, l) \in Seq(Parts) /\ Len(SubSeq(rest, 1, l)) = l
          /\ \A k \in 1..l : SubSeq(rest, 1, l)[k] = rest[k]
      BY <1>7, <2>1
    <2>3. Front(rest) = SubSeq(rest, 1, l)
      BY <1>7, <2>1 DEF Front
    <2>4. \A k \in 1..l : k \in 1..m /\ k # m
      BY <2>1
    <2>5. \A k \in 1..l : Front(rest)[k] = Piece(f, k)
      BY <1>8, <2>2, <2>3, <2>4
    <2>6. PICK s \in Seq(Parts) : s = Front(rest)
      BY <2>2, <2>3
    <2>7. Len(s) <= Size[f] /\ \A k \in 1..Len(s) : s[k] = Piece(f, k)
      <3>1. Len(s) = l
        BY <2>2, <2>3, <2>6
      <3>2. QED BY <1>3, <2>1, <2>5, <2>6, <3>1
    <2>8. IsPrefix(s, Pieces(f))
      BY <2>7, PrefixOfPieces
    <2>9. body = s
      BY <1>0, <1>9, <2>6
    <2>10. QED BY <2>8, <2>9
  <1>10. ASSUME ~(rest # <<>> /\ Last(rest) = Clipped)
         PROVE  IsPrefix(body, Pieces(f))
    <2>1. m # 0 => rest[m] # Clipped
      BY <1>7, <1>10, EmptySeq DEF Last
    <2>2. ASSUME NEW k \in 1..m PROVE rest[k] = Piece(f, k)
      <3>1. k = m => m # 0
        OBVIOUS
      <3>2. QED BY <1>8, <2>1, <3>1
    <2>3. Len(rest) <= Size[f] /\ \A k \in 1..Len(rest) : rest[k] = Piece(f, k)
      BY <1>3, <1>6, <1>7, <2>2
    <2>4. IsPrefix(rest, Pieces(f))
      BY <1>7, <2>3, PrefixOfPieces
    <2>5. body = rest
      BY <1>0, <1>10
    <2>6. QED BY <2>4, <2>5
  <1>11. ASSUME page.name \notin EndWithin, FitsWhole(page, got)
         PROVE  rest = Pieces(f)
    <2>1. n = size + 1
      BY <1>1, <1>3, <1>11 DEF FitsWhole
    <2>2. \A k \in 2..n : got[k] = Piece(f, k - 1)
      BY <1>1, <1>3, <1>11 DEF FitsWhole
    <2>3. m = size
      BY <1>6, <2>1
    <2>4. ASSUME NEW k \in 1..m PROVE rest[k] = Piece(f, k)
      <3>1. k + 1 \in 2..n /\ (k + 1) - 1 = k
        BY <1>6
      <3>2. QED BY <1>7, <2>2, <3>1
    <2>5. QED BY <1>3, <1>6, <1>7, <2>3, <2>4, PrefixOfPieces
  <1>12. QED BY <1>9, <1>10, <1>11

LEMMA ServiceInit == Init => ServiceInv
  <1> SUFFICES ASSUME Init PROVE ServiceInv
    OBVIOUS
  <1>1. PICK cast \in Casts, page \in [Browser -> Page], ask \in [Visitor -> Ask] :
          LET Start(c) == IF c \in cast THEN "idle" ELSE "absent"
          IN /\ fds = Held[cast]
             /\ \A h \in Browser : page[h] \in IF h \in cast THEN Pages[h] ELSE {NoPage}
             /\ \A v \in Visitor : ask[v] \in IF v \in cast THEN Questions[v] ELSE {NoQuestion}
             /\ browser = [h \in Browser |->
                   [at |-> Start(h), page |-> page[h], sent |-> 0, got |-> <<>>]]
             /\ asker = [c \in Peer |->
                   [at |-> Start(c), sent |-> FALSE, got |-> <<>>,
                    ask |-> IF c \in Visitor THEN ask[c] ELSE NoQuestion]]
    BY DEF Init
  <1>2. /\ life["server"] = "down" /\ life["keeper"] = "down"
        /\ waiting["server"] = <<>> /\ waiting["keeper"] = <<>>
        /\ handler = [c \in Peer |-> NoHandler] /\ wire = [c \in Peer |-> <<>>]
        /\ http = Accepting(CHOOSE h \in Browser : TRUE)
    BY DEF Init, Process
  <1>3. fds \in 0..MaxFd
    BY <1>1, SocketAssumption
  <1>4. NoQuestion \in Ask /\ <<>> \in Seq(Parts)
    BY EmptySeq DEF NoQuestion, Ask
  <1>5. \A c \in Peer : /\ asker[c].at \in {"absent", "idle"} /\ asker[c].sent = FALSE
                        /\ asker[c].got = <<>> /\ asker[c].ask \in Ask
                        /\ c \in Browser => asker[c].ask = NoQuestion
    <2>1. ASSUME NEW c \in Peer, c \in Visitor
          PROVE  c \notin Browser /\ ask[c] \in Ask
      BY <2>1, SocketAssumption
    <2>2. QED BY <1>1, <1>4, <2>1
  <1>6. \A h \in Browser : /\ browser[h].at \in {"absent", "idle"} /\ browser[h].got = <<>>
                           /\ asker[h].at = browser[h].at
    BY <1>1 DEF Peer
  <1>7. asker \in [Peer -> Askers]
    <2>1. ASSUME NEW c \in Peer PROVE asker[c] \in Askers
      <3>1. asker[c] = [at |-> asker[c].at, sent |-> asker[c].sent,
                        got |-> asker[c].got, ask |-> asker[c].ask]
        BY <1>1
      <3>2. QED BY <1>4, <1>5, <3>1 DEF Askers
    <2>2. asker = [c \in Peer |-> asker[c]]
      BY <1>1
    <2>3. QED BY <2>1, <2>2
  <1>8. browser \in [Browser -> Browsers]
    <2>1. page \in [Browser -> Page]
      OBVIOUS
    <2>2. browser = [h \in Browser |-> browser[h]]
      BY <1>1
    <2>3. ASSUME NEW h \in Browser PROVE browser[h] \in Browsers
      <3>1. PICK p \in Page : p = page[h]
        BY <2>1
      <3>2. PICK at \in {"absent", "idle"} : at = IF h \in cast THEN "idle" ELSE "absent"
        OBVIOUS
      <3>3. browser[h] = [at |-> at, page |-> p, sent |-> 0, got |-> <<>>]
        BY <1>1, <3>1, <3>2
      <3>4. QED BY <1>4, <3>3 DEF Browsers
    <2>4. QED BY <2>2, <2>3
  <1>9. handler \in [Peer -> Handlers] /\ wire \in [Peer -> Seq(Parts)]
        /\ \A c \in Peer : handler[c] = NoHandler /\ wire[c] = <<>>
    BY <1>2, <1>4 DEF Handlers, NoHandler
  <1>10. life \in [Process -> {"down", "built", "bound", "up", "dead"}]
    BY DEF Init
  <1>11. DOMAIN waiting = Process
    BY DEF Init
  <1>12. <<>> \in Seq(Peer) /\ <<>> \in Seq(Browser)
    BY EmptySeq
  <1>13. TypeOK
    BY <1>2, <1>3, <1>7, <1>8, <1>9, <1>10, <1>11, <1>12, AcceptingTyped
       DEF TypeOK, Askers, Browsers, Handlers, Https
  <1>14. ~ServerDead
    BY <1>2 DEF ServerDead
  <1>15. \A c \in Peer : Exchange(handler[c], asker[c], wire[c], ServerDead)
    <2> SUFFICES ASSUME NEW c \in Peer PROVE Exchange(handler[c], asker[c], wire[c], ServerDead)
      OBVIOUS
    <2>1. /\ handler[c].at = "none" /\ handler[c].out = <<>> /\ ~handler[c].broken
          /\ wire[c] = <<>> /\ asker[c].at \in {"absent", "idle"} /\ ~asker[c].sent
          /\ asker[c].got = <<>>
      BY <1>5, <1>9 DEF NoHandler
    <2>2. PICK answer \in Seq(Parts) : answer = Whole(Heard(asker[c]))
      <3>1. Heard(asker[c]) \in Ask
        BY <1>4, <1>5 DEF Heard
      <3>2. QED BY <3>1, WholeProperties
    <2>3. Len(<<>>) = 0 /\ 1..Len(<<>>) = {} /\ Len(answer) \in Nat
      BY EmptySeq
    <2>4. Follows(answer, 0, <<>>)
      BY <2>3 DEF Follows
    <2>5. Follows(answer, Len(<<>>), <<>>)
      BY <2>3, <2>4
    <2>6. QED BY <2>1, <2>2, <2>3, <2>4, <2>5 DEF Exchange, Silent
  <1>16. 1..Len(<<>>) = {} /\ IsInjective(<<>>)
    BY EmptySeq DEF IsInjective
  <1>17. ServerInv
    BY <1>2, <1>3, <1>9, <1>15, <1>16, SocketAssumption DEF ServerInv, NoHandler
  <1>18. KeeperInv
    BY <1>2, <1>6, <1>16 DEF KeeperInv, Fits, FitsWhole, Accepting
  <1>19. Unasked
    BY <1>5 DEF Unasked, Peer
  <1>20. ProcessesEndForCause
    BY <1>2 DEF ProcessesEndForCause
  <1>21. QED BY <1>13, <1>17, <1>18, <1>19, <1>20 DEF ServiceInv

LEMMA ServiceStep == ServiceInv /\ [Next]_vars => ServiceInv'
  <1> SUFFICES ASSUME ServiceInv, [Next]_vars PROVE ServiceInv'
    OBVIOUS
  <1>0. TypeOK /\ ServerInv /\ KeeperInv /\ Unasked /\ ProcessesEndForCause
    BY DEF ServiceInv
  <1>1. CASE Next
    <2>1. TypeOK'
      BY <1>0, <1>1, StartsTyped, ServerTyped, AskerTyped, BrowserTyped, KeeperTyped DEF Next
    <2>2. ServerInv'
      BY <1>0, <1>1, StartsServer, ServerServer, AskerServer, BrowserServer, KeeperServer DEF Next
    <2>3. KeeperInv'
      BY <1>0, <1>1, StartsKeeper, ServerKeeper, AskerKeeper, BrowserKeeper, KeeperKeeper DEF Next
    <2>4. QED BY <1>0, <1>1, <2>1, <2>2, <2>3, UnaskedStep, CauseStep DEF ServiceInv
  <1>2. CASE UNCHANGED vars
    <2>1. TypeOK'
      BY <1>0, <1>2 DEF TypeOK, vars
    <2>2. ServerInv'
      BY <1>0, <1>2, QuietServer DEF vars
    <2>3. KeeperInv'
      <3>1. NoneDead' = NoneDead
        BY <1>2 DEF vars, NoneDead
      <3>2. QED BY <1>0, <1>2, <3>1, QuietKeeper DEF vars
    <2>4. Unasked' /\ ProcessesEndForCause'
      BY <1>0, <1>2 DEF Unasked, ProcessesEndForCause, Impatient, vars
    <2>5. QED BY <2>1, <2>2, <2>3, <2>4 DEF ServiceInv
  <1>3. QED BY <1>1, <1>2

\* The invariant of the path from a browser to a figure and back: every connection to
\* the figure server carries one answer in order, and whoever waits or is served has
\* got the beginning of its own.
THEOREM ServiceAlways == Spec => []ServiceInv
  BY ServiceInit, ServiceStep, PTL DEF Spec

\* A process of the service ends for a cause outside of it only, whoever asks and
\* in whatever order: a peer that gave up or met "/END", a thread that could not be
\* made, descriptors used up, a port taken (ASCIIServer.cc, VSocket.cc, forkServer).
THEOREM EndForCause == Spec => []ProcessesEndForCause
  <1>1. ServiceInv => ProcessesEndForCause
    BY DEF ServiceInv
  <1>2. QED BY <1>1, ServiceAlways, PTL

\* What a browser gets is its own figure from the first piece, and the whole of it
\* when it read to the end, the text holds no "/END" and no process has ended
\* (requestFromServer, translateAsciiToHttp, the loop of validateRequest).
THEOREM AnswersWhole == Spec => []AnswersAreWhole
  <1>1. ServiceInv => AnswersAreWhole
    <2> SUFFICES ASSUME TypeOK, KeeperInv PROVE AnswersAreWhole
      BY DEF ServiceInv
    <2>1. ASSUME NEW h \in Browser, NEW page, page = browser[h].page, page.kind = "get",
                 NEW got, got = browser[h].got, got # <<>>, Head(got) = Status("200"),
                 NEW rest, rest = Tail(got)
          PROVE  /\ page.name \in Figure
                 /\ IsPrefix(IF rest # <<>> /\ Last(rest) = Clipped THEN Front(rest) ELSE rest,
                             Pieces(page.name))
                 /\ browser[h].at = "done" /\ page.name \notin EndWithin /\ "dead" \notin Range(life) =>
                      rest = Pieces(page.name)
      <3>1. browser[h] \in Browsers
        BY KeepersTyped
      <3>2. got \in Seq(Parts)
        BY <2>1, <3>1 DEF Browsers
      <3>3. got[1] = Status("200")
        BY <2>1, <3>2, TailProperties
      <3>4. Fits(page, got) /\ (browser[h].at = "done" /\ NoneDead => FitsWhole(page, got))
        BY <2>1 DEF KeeperInv
      <3>5. "dead" \notin Range(life) => NoneDead
        BY DEF TypeOK, Process, Range, NoneDead
      <3>6. QED BY <2>1, <3>2, <3>3, <3>4, <3>5, FitsIsPrefix
    <2>2. ASSUME NEW h \in Browser
          PROVE  LET f == browser[h].page.name
                     got == browser[h].got
                     rest == Tail(got)
                     body == IF rest # <<>> /\ Last(rest) = Clipped THEN Front(rest) ELSE rest
                 IN browser[h].page.kind = "get" /\ got # <<>> /\ Head(got) = Status("200") =>
                      /\ f \in Figure /\ IsPrefix(body, Pieces(f))
                      /\ browser[h].at = "done" /\ f \notin EndWithin /\ "dead" \notin Range(life) =>
                             Tail(got) = Pieces(f)
      <3>1. PICK page : page = browser[h].page
        OBVIOUS
      <3>2. PICK got : got = browser[h].got
        OBVIOUS
      <3>3. PICK rest : rest = Tail(got)
        OBVIOUS
      <3>4. PICK body : body = IF rest # <<>> /\ Last(rest) = Clipped THEN Front(rest) ELSE rest
        OBVIOUS
      <3>5. page.kind = "get" /\ got # <<>> /\ Head(got) = Status("200") =>
              /\ page.name \in Figure /\ IsPrefix(body, Pieces(page.name))
              /\ browser[h].at = "done" /\ page.name \notin EndWithin /\ "dead" \notin Range(life) =>
                   rest = Pieces(page.name)
        BY <2>1, <3>1, <3>2, <3>3, <3>4
      <3>6. QED BY <3>1, <3>2, <3>3, <3>4, <3>5
    <2>3. QED BY <2>2 DEF AnswersAreWhole
  <1>2. QED BY <1>1, ServiceAlways, PTL
=============================================================================
