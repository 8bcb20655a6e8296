-------------------------- MODULE PieceServerProofs --------------------------
(***************************************************************************)
(* Theorems about PieceServer, for any connections, descriptors, processes *)
(* and starts, and any figures that fit the disk.                          *)
(***************************************************************************)
EXTENDS PieceServer, SequenceTheorems, FiniteSetTheorems, WellFoundedInduction, TLAPS

-----------------------------------------------------------------------------
(* The constants                                                           *)

LEMMA Limits ==
  /\ Fragments \in Nat \ {0} /\ MaxFd \in Nat \ {0} /\ MaxProc \in Nat \ {0}
  /\ Backlog \in Nat \ {0} /\ MaxStarts \in Nat \ {0} /\ IsFiniteSet(Conn)
  BY ServerAssumption

LEMMA FiguresTyped ==
  /\ Len(MountOrder) \in Nat /\ Mounted \subseteq Names
  /\ \A i \in 1..Len(MountOrder) :
       /\ MountOrder[i] \in Mounted /\ MountOrder[i] \in Names
       /\ Size[MountOrder[i]] \in Nat \ {0}
       /\ \A j \in 1..Len(MountOrder) : MountOrder[i] = MountOrder[j] => i = j
  /\ \A f \in Mounted : Size[f] \in Nat \ {0} /\ \E i \in 1..Len(MountOrder) : f = MountOrder[i]
  <1>1. MountOrder \in Seq(Names) /\ IsInjective(MountOrder) /\ Size \in [Mounted -> Nat \ {0}]
    BY ServerAssumption
  <1>2. DOMAIN MountOrder = 1..Len(MountOrder) /\ Len(MountOrder) \in Nat
    BY <1>1
  <1>3. Mounted = {MountOrder[i] : i \in 1..Len(MountOrder)}
    BY <1>2 DEF Mounted, Range
  <1>4. \A i \in 1..Len(MountOrder) : MountOrder[i] \in Names
    BY <1>1
  <1>5. \A i, j \in 1..Len(MountOrder) : MountOrder[i] = MountOrder[j] => i = j
    BY <1>1, <1>2 DEF IsInjective
  <1>6. QED BY <1>1, <1>2, <1>3, <1>4, <1>5

\* The blocks of the disk: each figure has its room.
LEMMA Room ==
  /\ Before[Len(MountOrder) + 1] \in 0..254 /\ Blocks = 1..Before[Len(MountOrder) + 1]
  /\ Blocks \subseteq Nat \ {0} /\ Last255 \notin Blocks /\ Cardinality(Blocks) = Before[Len(MountOrder) + 1]
  /\ \A i \in 1..(Len(MountOrder) + 1) :
       Before[i] \in Nat /\ Before[i] <= Before[Len(MountOrder) + 1]
  /\ \A i \in 1..Len(MountOrder) :
       /\ i + 1 \in 1..(Len(MountOrder) + 1)
       /\ Before[i] + Size[MountOrder[i]] <= Before[i + 1]
       /\ Before[i] + Size[MountOrder[i]] <= Before[Len(MountOrder) + 1]
  <1>1. PICK n \in Nat : n = Len(MountOrder)
    BY FiguresTyped
  <1>2. /\ Before \in [1..(n + 1) -> Nat] /\ Before[n + 1] < 255
        /\ \A i \in 1..n : \A j \in (i + 1)..(n + 1) : Before[i] + Size[MountOrder[i]] <= Before[j]
    BY <1>1, RoomAssumption DEF Last255
  <1>3. Before[n + 1] \in Nat
    BY <1>2
  <1>4. PICK m \in Nat : m = Before[n + 1]
    BY <1>3
  <1>5. Blocks = 1..m
    BY <1>1, <1>4 DEF Blocks
  <1>6. Cardinality(Blocks) = m
    BY <1>5, FS_Interval
  <1>7. ASSUME NEW i \in 1..n
        PROVE  /\ i + 1 \in 1..(n + 1) /\ Before[i] \in Nat /\ Before[i] <= m
               /\ Before[i] + Size[MountOrder[i]] <= Before[i + 1]
               /\ Before[i] + Size[MountOrder[i]] <= m
    <2>1. i + 1 \in (i + 1)..(n + 1) /\ n + 1 \in (i + 1)..(n + 1) /\ i \in 1..(n + 1)
      OBVIOUS
    <2>2. PICK s \in Nat : s = Size[MountOrder[i]]
      BY <1>1, FiguresTyped
    <2>3. PICK b \in Nat : b = Before[i]
      BY <1>2, <2>1
    <2>4. b + s <= Before[i + 1] /\ b + s <= m
      BY <1>2, <1>4, <2>1, <2>2, <2>3
    <2>5. b <= m
      BY <2>4
    <2>6. QED BY <2>1, <2>2, <2>3, <2>4, <2>5
  <1>8. ASSUME NEW i \in 1..(n + 1)
        PROVE  Before[i] \in Nat /\ Before[i] <= m
    <2>1. i \in 1..n \/ i = n + 1
      OBVIOUS
    <2>2. QED BY <1>4, <1>7, <2>1
  <1>9. m \in 0..254 /\ Blocks \subseteq Nat \ {0} /\ Last255 \notin Blocks
    <2>1. m < 255
      BY <1>2, <1>4
    <2>2. \A b \in 1..m : b \in Nat \ {0} /\ b # 255
      BY <2>1
    <2>3. 255 \notin Blocks
      BY <1>5, <2>2
    <2>4. QED BY <1>5, <2>1, <2>2, <2>3 DEF Last255
  <1>10. QED BY <1>1, <1>4, <1>5, <1>6, <1>7, <1>8, <1>9

LEMMA PartsTyped ==
  /\ Blank \in Parts
  /\ \A f \in Names, n \in Nat : Piece(f, n) \in Parts
  /\ \A n \in Nat : Part("echo", "none", n) \in Parts
  /\ \A code \in {"200", "201", "300"} : Status(code) \in Parts
  /\ \A kind \in {"list", "ON", "OFF"} : Part(kind, "none", 0) \in Parts
  BY DEF Blank, Piece, Status, Part, Parts

LEMMA RequestsTyped ==
  /\ NoRequest \in Request /\ NoRequest.kind = "ERROR" /\ NoRequest.kind # "GET"
  /\ \A r \in Request : /\ r.kind \in {"OBJECTS", "ON", "OFF", "ERROR", "GET"}
                        /\ r.kind = "GET" => r.name \in Names
  BY DEF NoRequest, Request

LEMMA AnswersTyped ==
  ASSUME NEW r \in Request, r.kind # "GET"
  PROVE  Answer(r) \in Seq(Parts)
  <1>1. r.kind = "OBJECTS" \/ r.kind \in {"ON", "OFF"} \/ r.kind = "ERROR"
    BY RequestsTyped
  <1>2. CASE r.kind = "OBJECTS"
    <2>1. Answer(r) = <<Status("200"), Part("list", "none", 0)>>
      BY <1>2 DEF Answer
    <2>2. QED BY <2>1, PartsTyped
  <1>3. CASE r.kind \in {"ON", "OFF"}
    <2>1. Answer(r) = <<Status("200"), Part(r.kind, "none", 0)>>
      BY <1>3 DEF Answer
    <2>2. QED BY <1>3, <2>1, PartsTyped
  <1>4. CASE r.kind = "ERROR"
    <2>1. Answer(r) = <<Status("300")>>
      BY <1>4 DEF Answer
    <2>2. QED BY <2>1, PartsTyped
  <1>5. QED BY <1>1, <1>2, <1>3, <1>4

\* The answer to a GET of a figure: a status and its pieces.
LEMMA FigureWhole ==
  ASSUME NEW r \in Request, r.kind = "GET", r.name \in Mounted
  PROVE  /\ Whole(r) \in Seq(Parts) /\ Len(Whole(r)) = Size[r.name] + 1
         /\ Whole(r)[1] = Status("200")
         /\ \A k \in 1..Size[r.name] : Whole(r)[k + 1] = Piece(r.name, k)
  <1>1. PICK f \in Mounted : f = r.name
    OBVIOUS
  <1>2. PICK n \in Nat \ {0} : n = Size[f]
    BY FiguresTyped
  <1>3. PICK body : body = [i \in 1..n |-> Piece(f, i)]
    OBVIOUS
  <1>4. f \in Names
    BY FiguresTyped
  <1>5. body \in [1..n -> Parts]
    BY <1>3, <1>4, PartsTyped
  <1>6. body \in Seq(Parts) /\ Len(body) = n
    BY <1>5
  <1>7. PICK front : front = <<Status("200")>>
    OBVIOUS
  <1>8. front \in Seq(Parts) /\ Len(front) = 1 /\ front[1] = Status("200")
    BY <1>7, PartsTyped
  <1>9. Whole(r) = front \o body
    BY <1>1, <1>2, <1>3, <1>7 DEF Whole
  <1>10. /\ front \o body \in Seq(Parts) /\ Len(front \o body) = 1 + n
         /\ \A i \in 1..(1 + n) :
              (front \o body)[i] = IF i <= 1 THEN front[i] ELSE body[i - 1]
    <2>1. /\ front \o body \in Seq(Parts) /\ Len(front \o body) = Len(front) + Len(body)
          /\ \A i \in 1..(Len(front) + Len(body)) :
               (front \o body)[i] = IF i <= Len(front) THEN front[i] ELSE body[i - Len(front)]
      BY <1>6, <1>8, ConcatProperties
    <2>2. QED BY <1>6, <1>8, <2>1
  <1>11. (front \o body)[1] = Status("200")
    BY <1>8, <1>10
  <1>12. ASSUME NEW k \in 1..n
         PROVE  (front \o body)[k + 1] = Piece(f, k)
    <2>1. k + 1 \in 1..(1 + n) /\ ~(k + 1 <= 1) /\ (k + 1) - 1 = k
      OBVIOUS
    <2>2. (front \o body)[k + 1] = body[k]
      BY <1>10, <2>1
    <2>3. QED BY <1>3, <2>2
  <1>13. QED BY <1>1, <1>2, <1>9, <1>10, <1>11, <1>12

LEMMA WholeTyped ==
  ASSUME NEW r \in Request
  PROVE  Whole(r) \in Seq(Parts)
  <1>1. CASE r.kind # "GET"
    BY <1>1, AnswersTyped DEF Whole
  <1>2. CASE r.kind = "GET" /\ r.name \in Mounted
    BY <1>2, FigureWhole
  <1>3. CASE r.kind = "GET" /\ r.name \notin Mounted
    <2>1. Whole(r) = <<Status("201")>>
      BY <1>3 DEF Whole
    <2>2. QED BY <2>1, PartsTyped
  <1>4. QED BY <1>1, <1>2, <1>3

-----------------------------------------------------------------------------
(* The start and the disk                                                  *)

LEMMA LeastExists ==
  ASSUME NEW S, S \subseteq Nat, S # {}
  PROVE  \E x \in S : \A y \in S : x <= y
  <1>1. PICK x \in S : \A y \in S : ~ (<<y, x>> \in OpToRel(<, Nat))
    BY NatLessThanWellFounded, WFMin
  <1>2. \A y \in S : ~ (y < x)
    BY <1>1 DEF OpToRel
  <1>3. \A y \in S : x <= y
    BY <1>2
  <1>4. QED BY <1>3

\* checkBlockAvaible gives out a block that nobody uses: a hole, which it marks, or the
\* one the directory counts.
LEMMA NewBlockFree ==
  ASSUME Typed, CounterAhead, counter \in Blocks
  PROVE  /\ NewBlock \in Blocks /\ next[NewBlock] = 0
         /\ \/ /\ Holes # {} /\ NewBlock \in Holes /\ NewBlock < counter
               /\ Reserved = [next EXCEPT ![NewBlock] = Last255]
            \/ Holes = {} /\ NewBlock = counter /\ Reserved = next
  <1>1. Holes \subseteq Blocks /\ \A b \in Holes : next[b] = 0 /\ b < counter
    <2>1. Holes \subseteq Blocks /\ \A b \in Holes : next[b] = 0
      BY DEF Holes, Extent
    <2>2. ASSUME NEW b \in Holes
          PROVE  b < counter
      <3>1. PICK d \in Blocks : d >= b /\ next[d] # 0
        BY DEF Holes, Extent
      <3>2. d < counter
        BY <3>1, Room DEF CounterAhead, Typed
      <3>3. QED BY <2>1, <3>1, <3>2, Room DEF Typed
    <2>3. QED BY <2>1, <2>2
  <1>2. CASE Holes # {}
    <2>1. \E b \in Holes : \A d \in Holes : b <= d
      BY <1>1, <1>2, Room, LeastExists
    <2>2. NewBlock \in Holes
      BY <1>2, <2>1 DEF NewBlock
    <2>3. QED BY <1>1, <1>2, <2>2 DEF Reserved
  <1>3. CASE Holes = {}
    BY <1>3 DEF NewBlock, Reserved, CounterAhead, Typed
  <1>4. QED BY <1>2, <1>3

\* What is written is one of the figures.
LEMMA FigureIs ==
  ASSUME Typed, Mounting
  PROVE  /\ step.figure \in 1..Len(MountOrder) /\ Figure = MountOrder[step.figure]
         /\ Figure \in Mounted /\ Figure \in Names /\ Size[Figure] \in Nat \ {0}
  <1>1. step.figure \in 1..Len(MountOrder)
    BY ServerAssumption DEF Mounting
  <1>2. QED BY <1>1, FiguresTyped DEF Figure

\* There is a block to give out for the entry of a figure, and for each of its blocks.
LEMMA CounterFits ==
  ASSUME Typed, DiskInv, Mounting,
         (step.part = 0 /\ dir[Figure] = 0) \/ (step.part > 0 /\ step.part < Size[Figure])
  PROVE  counter \in Blocks
  <1>1. PICK n \in 1..(Len(MountOrder) + 1) : UpTo(n)
    BY DEF DiskInv, InOrder
  <1>2. PICK i \in 1..Len(MountOrder), s \in Nat \ {0}, b \in Nat, m \in Nat, c \in Nat \ {0},
             part \in Nat :
          /\ i = step.figure /\ s = Size[Figure] /\ b = Before[i] /\ c = counter
          /\ m = Before[Len(MountOrder) + 1] /\ part = step.part
    <2>1. PICK i \in 1..Len(MountOrder) : i = step.figure
      BY FigureIs
    <2>2. PICK s \in Nat \ {0} : s = Size[Figure]
      BY FigureIs
    <2>3. i \in 1..(Len(MountOrder) + 1)
      BY FiguresTyped
    <2>4. PICK b \in Nat : b = Before[i]
      BY <2>3, Room
    <2>5. Before[Len(MountOrder) + 1] \in Nat
      BY Room
    <2>6. counter \in Nat \ {0} /\ step.part \in Nat
      BY DEF Typed
    <2>7. QED BY <2>1, <2>2, <2>4, <2>5, <2>6
  <1>3. b + s <= m
    <2>1. Before[i] + Size[MountOrder[i]] <= Before[Len(MountOrder) + 1]
      BY Room
    <2>2. Size[MountOrder[i]] = s
      BY <1>2 DEF Figure
    <2>3. QED BY <1>2, <2>1, <2>2
  <1>4. CASE part = 0
    <2>1. ~Writing /\ dir[MountOrder[i]] = 0 /\ life = "mounting"
      BY <1>2, <1>4 DEF Writing, Figure, Mounting
    <2>2. counter <= Before[n] + 1 /\ i <= n /\ ~(i < n)
      BY <1>1, <1>2, <2>1 DEF UpTo
    <2>3. n = i
      BY <2>2, FiguresTyped
    <2>4. c <= b + 1
      BY <1>2, <2>2, <2>3
    <2>5. c <= m
      BY <1>3, <2>4
    <2>6. QED BY <1>2, <2>5, Room
  <1>5. CASE part > 0
    <2>1. Writing /\ part < s
      BY <1>2, <1>5 DEF Writing
    <2>2. c <= b + part + 1
      BY <1>1, <1>2, <2>1 DEF UpTo
    <2>3. c <= m
      BY <1>3, <2>1, <2>2
    <2>4. QED BY <1>2, <2>3, Room
  <1>6. QED BY <1>2, <1>4, <1>5

\* The start, the end of the server and the making of its socket change nothing on the
\* disk; a figure that was being written when the server ends is torn.
LEMMA DiskQuiet ==
  ASSUME Typed, DiskInv, UNCHANGED diskVars, ~Writing',
         torn' = (IF Writing THEN torn \cup {Figure} ELSE torn),
         \A n \in 1..(Len(MountOrder) + 1) :
           UpTo(n) => /\ life' = "mounting" => step'.figure <= n
                      /\ life' = "serving" => n = Len(MountOrder) + 1
  PROVE  DiskInv'
  <1>1. dir' = dir /\ next' = next /\ piece' = piece /\ counter' = counter
    BY DEF diskVars
  <1>2. CounterAhead'
    BY <1>1 DEF DiskInv, CounterAhead
  <1>3. StoredLead'
    <2>1. ASSUME NEW f \in Mounted, Stored(f)'
          PROVE  \E ch \in [1..Size[f] -> Blocks] : Leads(f, ch)'
      <3>1. dir[f] # 0 /\ f \notin torn /\ (Writing => f # Figure)
        BY <1>1, <2>1 DEF Stored
      <3>2. PICK ch \in [1..Size[f] -> Blocks] : Leads(f, ch)
        BY <3>1 DEF DiskInv, StoredLead, Stored
      <3>3. Leads(f, ch)'
        BY <1>1, <3>2 DEF Leads
      <3>4. QED BY <3>3
    <2>2. QED BY <2>1 DEF StoredLead
  <1>4. PICK n \in 1..(Len(MountOrder) + 1) : UpTo(n)
    BY DEF DiskInv, InOrder
  <1>5. UpTo(n)'
    <2>1. counter <= Before[n] + 1
      <3>1. CASE Writing
        <4>1. PICK i \in 1..Len(MountOrder) : i = step.figure
          BY <3>1, FigureIs DEF Writing
        <4>2. PICK s \in Nat : s = Size[MountOrder[i]]
          BY FiguresTyped
        <4>3. PICK b \in Nat, d \in Nat : b = Before[i] /\ d = Before[i + 1]
          <5>1. i \in 1..(Len(MountOrder) + 1) /\ i + 1 \in 1..(Len(MountOrder) + 1)
            BY Room, FiguresTyped
          <5>2. Before[i] \in Nat /\ Before[i + 1] \in Nat
            BY <5>1, Room
          <5>3. QED BY <5>2
        <4>4. PICK part \in Nat, c \in Nat : part = step.part /\ c = counter
          BY DEF Typed
        <4>5. part <= s
          BY <3>1, <4>1, <4>2, <4>4 DEF DiskInv, InProgress, Figure
        <4>6. b + s <= d
          BY <4>2, <4>3, Room
        <4>7. n = i + 1 /\ c <= b + part + 1
          BY <1>4, <3>1, <4>1, <4>3, <4>4 DEF UpTo
        <4>8. c <= d + 1
          BY <4>5, <4>6, <4>7
        <4>9. QED BY <4>3, <4>4, <4>7, <4>8
      <3>2. CASE ~Writing
        BY <1>4, <3>2 DEF UpTo
      <3>3. QED BY <3>1, <3>2
    <2>2. \A i \in 1..Len(MountOrder) : dir'[MountOrder[i]] # 0 <=> i < n
      BY <1>1, <1>4 DEF UpTo
    <2>3. QED BY <1>1, <1>4, <2>1, <2>2 DEF UpTo
  <1>6. InOrder'
    <2>1. \A f \in Names \ Mounted : dir'[f] = 0
      BY <1>1 DEF DiskInv, InOrder
    <2>2. \A f \in torn' : dir'[f] # 0
      BY <1>1 DEF DiskInv, InOrder, InProgress
    <2>3. QED BY <1>4, <1>5, <2>1, <2>2 DEF InOrder
  <1>7. InProgress'
    BY DEF InProgress
  <1>8. QED BY <1>2, <1>3, <1>6, <1>7 DEF DiskInv

LEMMA DiskSame ==
  ASSUME DiskInv, UNCHANGED <<life, diskVars, step, torn>>
  PROVE  DiskInv'
  BY DEF DiskInv, diskVars, CounterAhead, InProgress, LeadsSoFar, StoredLead, Stored, Leads,
         InOrder, UpTo, Writing, Mounting, Figure

\* The blocks of a stored figure are in use.
LEMMA LeadsInUse ==
  ASSUME Typed, NEW f \in Mounted, NEW ch \in [1..Size[f] -> Blocks], Leads(f, ch),
         NEW k \in 1..Size[f]
  PROVE  ch[k] \in Blocks /\ next[ch[k]] # 0
  <1>1. next[ch[k]] = IF k = Size[f] THEN Last255 ELSE ch[k + 1]
    BY DEF Leads
  <1>2. CASE k = Size[f]
    BY <1>1, <1>2 DEF Last255
  <1>3. CASE k # Size[f]
    <2>1. k + 1 \in 1..Size[f]
      BY <1>3, FiguresTyped
    <2>2. ch[k + 1] \in Blocks
      BY <2>1
    <2>3. QED BY <1>1, <1>3, <2>2, Room
  <1>4. QED BY <1>2, <1>3

LEMMA EntryStep ==
  ASSUME Typed, DiskInv, WriteEntry
  PROVE  DiskInv'
  <1>1. /\ Mounting /\ step.part = 0 /\ dir[Figure] = 0
        /\ dir' = [dir EXCEPT ![Figure] = NewBlock] /\ next' = Reserved /\ CountUp
        /\ step' = [step EXCEPT !.part = 1, !.block = NewBlock]
        /\ life' = life /\ piece' = piece /\ torn' = torn
    BY DEF WriteEntry
  <1>2. PICK i \in 1..Len(MountOrder) :
          i = step.figure /\ Figure = MountOrder[i] /\ Size[Figure] \in Nat \ {0}
    BY <1>1, FigureIs
  <1>3. PICK f \in Mounted : f = Figure /\ f \in Names
    BY <1>1, FigureIs
  <1>4. PICK b \in Blocks : b = NewBlock
    BY <1>1, CounterFits, NewBlockFree DEF DiskInv
  <1>5. next[b] = 0 /\ \/ Holes # {} /\ b < counter /\ next' = [next EXCEPT ![b] = Last255]
                       \/ Holes = {} /\ b = counter /\ next' = next
    BY <1>1, <1>4, CounterFits, NewBlockFree DEF DiskInv
  <1>6. counter \in Nat /\ counter' \in Nat /\ counter <= counter' /\ b < counter' /\ counter' <= counter + 1
    BY <1>1, <1>5 DEF CountUp, Typed
  <1>7. step'.figure = i /\ step'.part = 1 /\ step'.block = b
    BY <1>1, <1>2, <1>4 DEF Typed
  <1>8. Writing' /\ Figure' = f /\ ~Writing
    BY <1>1, <1>2, <1>3, <1>7 DEF Writing, Mounting, Figure
  <1>9. /\ next \in [Blocks -> {0, Last255} \cup Blocks]
        /\ \A d \in Blocks : d # b => next'[d] = next[d]
        /\ dir' = [dir EXCEPT ![f] = b] /\ dir \in [Names -> {0} \cup Blocks]
        /\ \A d \in Blocks : d >= counter => next[d] = 0
    BY <1>1, <1>3, <1>4, <1>5 DEF Typed, DiskInv, CounterAhead
  <1>10. b # 0 /\ b \in Nat
    BY Room
  <1>11. CounterAhead'
    <2>1. ASSUME NEW d \in Blocks, d >= counter'
          PROVE  next'[d] = 0
      <3>1. d # b /\ d >= counter
        BY <1>6, <1>10, <2>1, Room
      <3>2. QED BY <1>9, <3>1
    <2>2. QED BY <2>1 DEF CounterAhead
  <1>12. InProgress'
    <2>1. f \notin torn' /\ dir'[f] # 0
      BY <1>1, <1>3, <1>9, <1>10 DEF DiskInv, InOrder
    <2>2. next'[b] # 0 \/ \A d \in Blocks : d >= b => next'[d] = 0
      BY <1>5, <1>9 DEF Last255
    <2>3. PICK ch : ch = [k \in 1..1 |-> b]
      OBVIOUS
    <2>4. ch \in [1..step'.part -> Blocks] /\ ch[1] = b
      BY <1>7, <2>3
    <2>5. LeadsSoFar(ch)'
      <3>1. 1..(step'.part - 1) = {}
        BY <1>7
      <3>2. QED BY <1>3, <1>7, <1>8, <1>9, <2>4, <3>1 DEF LeadsSoFar
    <2>6. step'.part <= Size[f]
      BY <1>2, <1>3, <1>7
    <2>7. QED BY <1>6, <1>7, <1>8, <2>1, <2>2, <2>4, <2>5, <2>6 DEF InProgress
  <1>13. StoredLead'
    <2>1. ASSUME NEW g \in Mounted, Stored(g)'
          PROVE  \E ch \in [1..Size[g] -> Blocks] :
                   Leads(g, ch)' /\ \A k \in 1..Size[g] : ch[k] # b
      <3>1. g # f /\ dir'[g] # 0 /\ g \notin torn
        BY <1>1, <1>8, <2>1 DEF Stored
      <3>2. dir'[g] = dir[g] /\ Stored(g)
        BY <1>8, <1>9, <3>1, FiguresTyped DEF Stored
      <3>3. PICK ch \in [1..Size[g] -> Blocks] : Leads(g, ch)
        BY <3>2 DEF DiskInv, StoredLead
      <3>4. \A k \in 1..Size[g] : ch[k] \in Blocks /\ ch[k] # b
        BY <1>5, <3>3, LeadsInUse
      <3>5. \A k \in 1..Size[g] : next'[ch[k]] = next[ch[k]]
        BY <1>9, <3>4
      <3>6. Leads(g, ch)'
        BY <1>1, <3>2, <3>3, <3>5 DEF Leads
      <3>7. QED BY <3>4, <3>6
    <2>2. QED BY <1>7, <2>1 DEF StoredLead
  <1>14. InOrder'
    <2>1. PICK n \in 1..(Len(MountOrder) + 1) : UpTo(n)
      BY DEF DiskInv, InOrder
    <2>2. life = "mounting" /\ i <= n /\ ~(i < n) /\ counter <= Before[n] + 1
      BY <1>1, <1>2, <1>8, <2>1 DEF UpTo, Mounting
    <2>3. n = i /\ i + 1 \in 1..(Len(MountOrder) + 1) /\ Before[i] \in Nat
      BY <2>2, FiguresTyped, Room
    <2>4. ASSUME NEW j \in 1..Len(MountOrder)
          PROVE  dir'[MountOrder[j]] # 0 <=> j < i + 1
      <3>1. CASE j = i
        BY <1>2, <1>3, <1>9, <1>10, <3>1
      <3>2. CASE j # i
        <4>1. MountOrder[j] # f /\ MountOrder[j] \in Names
          BY <1>2, <1>3, <3>2, FiguresTyped
        <4>2. dir'[MountOrder[j]] = dir[MountOrder[j]]
          BY <1>9, <4>1
        <4>3. j < i <=> j < i + 1
          BY <3>2, FiguresTyped
        <4>4. QED BY <2>1, <2>3, <4>2, <4>3 DEF UpTo
      <3>3. QED BY <3>1, <3>2
    <2>5. counter' <= Before[i] + 1 + 1
      BY <1>6, <2>2, <2>3
    <2>6. UpTo(i + 1)'
      <3>1. i <= i + 1 /\ life' # "serving"
        BY <1>1, <2>2, FiguresTyped
      <3>2. QED BY <1>7, <1>8, <2>4, <2>5, <3>1 DEF UpTo
    <2>7. \A g \in Names \ Mounted : dir'[g] = 0
      BY <1>3, <1>9 DEF DiskInv, InOrder
    <2>8. \A g \in torn' : dir'[g] # 0
      <3>1. \A g \in torn : g \in Names /\ dir[g] # 0
        BY FiguresTyped DEF Typed, DiskInv, InOrder
      <3>2. QED BY <1>1, <1>9, <1>10, <3>1
    <2>9. QED BY <2>3, <2>6, <2>7, <2>8 DEF InOrder
  <1>15. QED BY <1>11, <1>12, <1>13, <1>14 DEF DiskInv

\* The last block of a figure: what was written leads through all of it.
LEMMA LastBlockStep ==
  ASSUME Typed, DiskInv, WriteBlock, step.part = Size[Figure]
  PROVE  DiskInv'
  <1>1. /\ Mounting /\ Writing /\ dir' = dir /\ life' = life /\ torn' = torn
        /\ piece' = [piece EXCEPT ![step.block] = Piece(Figure, step.part)]
        /\ next' = [next EXCEPT ![step.block] = Last255]
        /\ step' = NextFigure /\ counter' = counter
    BY FigureIs DEF WriteBlock, Writing, Typed
  <1>2. PICK i \in 1..Len(MountOrder) : i = step.figure /\ Figure = MountOrder[i]
    BY <1>1, FigureIs
  <1>3. PICK f \in Mounted, s \in Nat \ {0} : f = Figure /\ s = Size[f]
    BY <1>1, FigureIs
  <1>4. PICK b \in Blocks : b = step.block
    BY <1>1 DEF DiskInv, InProgress
  <1>5. b < counter /\ f \notin torn /\ dir[f] # 0
    BY <1>1, <1>3, <1>4 DEF DiskInv, InProgress
  <1>6. /\ \A d \in Blocks : d # b => next'[d] = next[d] /\ piece'[d] = piece[d]
        /\ next'[b] = Last255 /\ piece'[b] = Piece(f, s)
    BY <1>1, <1>3, <1>4 DEF Typed
  <1>7. step'.figure = i + 1 /\ step'.part = 0 /\ ~Writing'
    BY <1>1, <1>2 DEF NextFigure, Writing
  <1>8. CounterAhead'
    <2>1. ASSUME NEW d \in Blocks, d >= counter'
          PROVE  next'[d] = 0
      <3>1. d # b /\ d >= counter
        BY <1>1, <1>5, <2>1, Room DEF Typed
      <3>2. QED BY <1>6, <3>1 DEF DiskInv, CounterAhead
    <2>2. QED BY <2>1 DEF CounterAhead
  <1>9. InProgress'
    BY <1>7 DEF InProgress
  <1>10. StoredLead'
    <2>1. ASSUME NEW g \in Mounted, Stored(g)'
          PROVE  \E ch \in [1..Size[g] -> Blocks] : Leads(g, ch)'
      <3>1. dir[g] # 0 /\ g \notin torn
        BY <1>1, <2>1 DEF Stored
      <3>2. CASE g = f
        <4>1. PICK ch \in [1..step.part -> Blocks] : LeadsSoFar(ch)
          BY <1>1 DEF DiskInv, InProgress
        <4>2. ch \in [1..s -> Blocks] /\ ch[1] = dir[f] /\ ch[s] = b
              /\ \A k \in 1..(s - 1) :
                   ch[k] # b /\ piece[ch[k]] = Piece(f, k) /\ next[ch[k]] = ch[k + 1]
          BY <1>3, <1>4, <4>1 DEF LeadsSoFar
        <4>3. ASSUME NEW k \in 1..s
              PROVE  /\ piece'[ch[k]] = Piece(f, k)
                     /\ next'[ch[k]] = IF k = s THEN Last255 ELSE ch[k + 1]
          <5>1. CASE k = s
            BY <1>6, <4>2, <5>1
          <5>2. CASE k # s
            <6>1. k \in 1..(s - 1)
              BY <5>2
            <6>2. ch[k] \in Blocks
              BY <4>2
            <6>3. QED BY <1>6, <4>2, <5>2, <6>1, <6>2
          <5>3. QED BY <5>1, <5>2
        <4>4. Leads(f, ch)'
          BY <1>1, <1>3, <4>2, <4>3 DEF Leads
        <4>5. QED BY <1>3, <3>2, <4>2, <4>4
      <3>3. CASE g # f
        <4>1. Stored(g)
          BY <1>3, <3>1, <3>3 DEF Stored
        <4>2. PICK ch \in [1..Size[g] -> Blocks] :
                Leads(g, ch) /\ \A k \in 1..Size[g] : ch[k] # b
          BY <1>1, <1>4, <4>1 DEF DiskInv, StoredLead
        <4>3. \A k \in 1..Size[g] : ch[k] \in Blocks
          BY <4>2
        <4>4. \A k \in 1..Size[g] : next'[ch[k]] = next[ch[k]] /\ piece'[ch[k]] = piece[ch[k]]
          BY <1>6, <4>2, <4>3
        <4>5. Leads(g, ch)'
          BY <1>1, <4>2, <4>4 DEF Leads
        <4>6. QED BY <4>5
      <3>4. QED BY <3>2, <3>3
    <2>2. QED BY <1>7, <2>1 DEF StoredLead
  <1>11. InOrder'
    <2>1. PICK n \in 1..(Len(MountOrder) + 1) : UpTo(n)
      BY DEF DiskInv, InOrder
    <2>2. n = i + 1 /\ counter <= Before[i] + s + 1
      BY <1>1, <1>2, <1>3, <2>1 DEF UpTo
    <2>3. PICK before \in Nat, after \in Nat, c \in Nat :
            before = Before[i] /\ after = Before[n] /\ c = counter
      <3>1. i \in 1..(Len(MountOrder) + 1) /\ counter \in Nat
        BY FiguresTyped DEF Typed
      <3>2. Before[i] \in Nat /\ Before[n] \in Nat
        BY <3>1, Room
      <3>3. QED BY <3>1, <3>2
    <2>4. before + s <= after
      BY <1>2, <1>3, <2>2, <2>3, Room
    <2>5. c <= before + s + 1
      BY <2>2, <2>3
    <2>6. c <= after + 1
      BY <2>4, <2>5
    <2>7. counter' <= Before[n] + 1
      BY <1>1, <2>3, <2>6
    <2>8. step'.figure <= n /\ life' # "serving"
      BY <1>1, <1>7, <2>2 DEF Mounting
    <2>9. UpTo(n)'
      BY <1>1, <1>7, <2>1, <2>7, <2>8 DEF UpTo
    <2>10. QED BY <1>1, <2>9 DEF DiskInv, InOrder
  <1>12. QED BY <1>8, <1>9, <1>10, <1>11 DEF DiskInv

\* Another block of a figure: the next one is nobody's.
LEMMA NextBlockStep ==
  ASSUME Typed, DiskInv, WriteBlock, step.part < Size[Figure]
  PROVE  DiskInv'
  <1>1. /\ Mounting /\ Writing /\ dir' = dir /\ life' = life /\ torn' = torn
        /\ piece' = [piece EXCEPT ![step.block] = Piece(Figure, step.part)]
        /\ next' = [Reserved EXCEPT ![step.block] = NewBlock] /\ CountUp
        /\ step' = [step EXCEPT !.part = @ + 1, !.block = NewBlock]
    BY FigureIs DEF WriteBlock, Writing, Typed
  <1>2. PICK i \in 1..Len(MountOrder) : i = step.figure /\ Figure = MountOrder[i]
    BY <1>1, FigureIs
  <1>3. PICK f \in Mounted, s \in Nat \ {0}, p \in Nat \ {0} :
          f = Figure /\ s = Size[f] /\ p = step.part
    <2>1. step.part \in Nat \ {0}
      BY <1>1 DEF Writing, Typed
    <2>2. QED BY <1>1, <2>1, FigureIs
  <1>4. PICK a \in Blocks : a = step.block
    BY <1>1 DEF DiskInv, InProgress
  <1>5. /\ a < counter /\ f \notin torn /\ dir[f] # 0 /\ p < s
        /\ next[a] # 0 \/ \A d \in Blocks : d >= a => next[d] = 0
    BY <1>1, <1>3, <1>4 DEF DiskInv, InProgress
  <1>6. PICK b \in Blocks : b = NewBlock
    BY <1>1, <1>3, <1>5, CounterFits, NewBlockFree DEF DiskInv
  <1>7. next[b] = 0 /\ \/ Holes # {} /\ b \in Holes /\ b < counter
                          /\ Reserved = [next EXCEPT ![b] = Last255]
                       \/ Holes = {} /\ b = counter /\ Reserved = next
    <2>1. counter \in Blocks
      BY <1>1, <1>3, <1>5, CounterFits
    <2>2. CounterAhead
      BY DEF DiskInv
    <2>3. QED BY <1>6, <2>1, <2>2, NewBlockFree
  <1>8. a # b
    <2>1. CASE Holes # {}
      <3>1. PICK d \in Blocks : d >= b /\ next[d] # 0
        BY <1>7, <2>1 DEF Holes, Extent
      <3>2. QED BY <1>5, <1>7, <3>1
    <2>2. CASE Holes = {}
      BY <1>5, <1>7, <2>2, Room
    <2>3. QED BY <2>1, <2>2
  <1>9. /\ counter \in Nat /\ counter' \in Nat /\ counter <= counter' /\ b < counter'
        /\ counter' <= counter + 1
    BY <1>1, <1>7 DEF CountUp, Typed
  <1>10. step'.figure = i /\ step'.part = p + 1 /\ step'.block = b
    BY <1>1, <1>2, <1>3, <1>6 DEF Typed
  <1>11. Writing' /\ Figure' = f
    BY <1>1, <1>2, <1>3, <1>10 DEF Writing, Mounting, Figure
  <1>12. /\ next \in [Blocks -> {0, Last255} \cup Blocks]
         /\ \A d \in Blocks : d # b /\ d # a => next'[d] = next[d]
         /\ next'[a] = b /\ (Holes # {} => next'[b] = Last255)
         /\ (Holes = {} => next'[b] = 0)
         /\ \A d \in Blocks : d # a => piece'[d] = piece[d]
         /\ piece'[a] = Piece(f, p)
    <2>1. Reserved \in [Blocks -> {0, Last255} \cup Blocks]
      BY <1>7 DEF Typed
    <2>2. next' = [Reserved EXCEPT ![a] = b] /\ piece' = [piece EXCEPT ![a] = Piece(f, p)]
      BY <1>1, <1>3, <1>4, <1>6
    <2>3. QED BY <1>7, <1>8, <2>1, <2>2 DEF Typed
  <1>13. b # 0 /\ b \in Nat /\ a \in Nat
    BY Room
  <1>14. CounterAhead'
    <2>1. ASSUME NEW d \in Blocks, d >= counter'
          PROVE  next'[d] = 0
      <3>1. d # a /\ d # b /\ d >= counter
        BY <1>5, <1>9, <1>13, <2>1, Room
      <3>2. QED BY <1>12, <3>1 DEF DiskInv, CounterAhead
    <2>2. QED BY <2>1 DEF CounterAhead
  <1>15. InProgress'
    <2>1. f \notin torn' /\ dir'[f] # 0
      BY <1>1, <1>5
    <2>2. next'[b] # 0 \/ \A d \in Blocks : d >= b => next'[d] = 0
      <3>1. CASE Holes # {}
        BY <1>12, <3>1 DEF Last255
      <3>2. CASE Holes = {}
        <4>1. ASSUME NEW d \in Blocks, d >= b
              PROVE  next'[d] = 0
          <5>1. d # a /\ d >= counter
            BY <1>5, <1>7, <1>9, <1>13, <3>2, <4>1, Room
          <5>2. QED BY <1>12, <3>2, <5>1 DEF DiskInv, CounterAhead
        <4>2. QED BY <4>1
      <3>3. QED BY <3>1, <3>2
    <2>3. PICK old \in [1..step.part -> Blocks] : LeadsSoFar(old)
      BY <1>1 DEF DiskInv, InProgress
    <2>4. old \in [1..p -> Blocks] /\ old[1] = dir[f] /\ old[p] = a
          /\ \A k \in 1..(p - 1) :
               old[k] # a /\ piece[old[k]] = Piece(f, k) /\ next[old[k]] = old[k + 1]
      BY <1>3, <1>4, <2>3 DEF LeadsSoFar
    <2>5. PICK ch : ch = [k \in 1..(p + 1) |-> IF k <= p THEN old[k] ELSE b]
      OBVIOUS
    <2>6. /\ ch \in [1..(p + 1) -> Blocks] /\ ch[p + 1] = b
          /\ \A k \in 1..p : ch[k] = old[k]
      <3>1. \A k \in 1..p : ch[k] = old[k]
        BY <2>5
      <3>2. ch[p + 1] = b
        BY <2>5
      <3>3. \A k \in 1..(p + 1) : (IF k <= p THEN old[k] ELSE b) \in Blocks
        <4>1. ASSUME NEW k \in 1..(p + 1), k <= p
              PROVE  old[k] \in Blocks
          <5>1. k \in 1..p
            BY <4>1
          <5>2. QED BY <2>4, <5>1
        <4>2. QED BY <4>1
      <3>4. QED BY <2>5, <3>1, <3>2, <3>3
    <2>7. ASSUME NEW k \in 1..p
          PROVE  ch[k] # b /\ piece'[ch[k]] = Piece(f, k) /\ next'[ch[k]] = ch[k + 1]
      <3>1. CASE k = p
        <4>1. ch[p] = a /\ ch[p + 1] = b
          BY <2>4, <2>6, <3>1
        <4>2. ch[p] # b /\ piece'[ch[p]] = Piece(f, p) /\ next'[ch[p]] = ch[p + 1]
          BY <1>8, <1>12, <4>1
        <4>3. QED BY <3>1, <4>2
      <3>2. CASE k # p
        <4>1. k \in 1..(p - 1) /\ k + 1 \in 1..p
          BY <3>2
        <4>2. old[k] \in Blocks /\ old[k + 1] \in Blocks
          BY <2>4, <4>1
        <4>3. old[k] # a /\ old[k] # b
          BY <1>7, <2>4, <4>1, <4>2, Room
        <4>4. ch[k] = old[k] /\ ch[k + 1] = old[k + 1]
          BY <2>6, <4>1
        <4>5. next'[old[k]] = next[old[k]] /\ piece'[old[k]] = piece[old[k]]
          BY <1>12, <4>2, <4>3
        <4>6. QED BY <2>4, <4>1, <4>3, <4>4, <4>5
      <3>3. QED BY <3>1, <3>2
    <2>8. LeadsSoFar(ch)'
      <3>1. step'.part - 1 = p /\ 1 \in 1..p
        BY <1>10
      <3>2. ch[1] = dir'[f]
        BY <1>1, <2>4, <2>6, <3>1
      <3>3. QED BY <1>10, <1>11, <2>6, <2>7, <3>1, <3>2 DEF LeadsSoFar
    <2>9. step'.part <= Size[f] /\ ch \in [1..step'.part -> Blocks]
      BY <1>3, <1>5, <1>10, <2>6
    <2>10. QED BY <1>9, <1>10, <1>11, <2>1, <2>2, <2>8, <2>9 DEF InProgress
  <1>16. StoredLead'
    <2>1. ASSUME NEW g \in Mounted, Stored(g)'
          PROVE  \E ch \in [1..Size[g] -> Blocks] :
                   Leads(g, ch)' /\ \A k \in 1..Size[g] : ch[k] # b
      <3>1. g # f /\ Stored(g)
        BY <1>1, <1>3, <1>11, <2>1 DEF Stored
      <3>2. PICK ch \in [1..Size[g] -> Blocks] :
              Leads(g, ch) /\ \A k \in 1..Size[g] : ch[k] # a
        BY <1>1, <1>4, <3>1 DEF DiskInv, StoredLead
      <3>3. \A k \in 1..Size[g] : ch[k] \in Blocks /\ ch[k] # b
        BY <1>7, <3>2, LeadsInUse
      <3>4. \A k \in 1..Size[g] : next'[ch[k]] = next[ch[k]] /\ piece'[ch[k]] = piece[ch[k]]
        BY <1>12, <3>2, <3>3
      <3>5. Leads(g, ch)'
        BY <1>1, <3>2, <3>4 DEF Leads
      <3>6. QED BY <3>3, <3>5
    <2>2. QED BY <1>10, <2>1 DEF StoredLead
  <1>17. InOrder'
    <2>1. PICK n \in 1..(Len(MountOrder) + 1) : UpTo(n)
      BY DEF DiskInv, InOrder
    <2>2. n = i + 1 /\ counter <= Before[i] + p + 1
      BY <1>1, <1>2, <1>3, <2>1 DEF UpTo
    <2>3. PICK before \in Nat, c \in Nat : before = Before[i] /\ c = counter'
      <3>1. i \in 1..(Len(MountOrder) + 1)
        BY FiguresTyped
      <3>2. QED BY <1>9, <3>1, Room
    <2>4. c <= before + (p + 1) + 1
      BY <1>9, <2>2, <2>3
    <2>5. i <= n /\ life' # "serving"
      BY <1>1, <2>2 DEF Mounting
    <2>6. UpTo(n)'
      BY <1>1, <1>10, <1>11, <2>1, <2>2, <2>3, <2>4, <2>5 DEF UpTo
    <2>7. QED BY <1>1, <2>6 DEF DiskInv, InOrder
  <1>18. QED BY <1>14, <1>15, <1>16, <1>17 DEF DiskInv

-----------------------------------------------------------------------------
(* The two ends of a connection                                            *)

LEMMA ClientAt ==
  ASSUME NEW k \in Client, NEW v \in {"idle", "connecting", "open", "done", "gone", "reset"}
  PROVE  LET l == [k EXCEPT !.at = v]
         IN l \in Client /\ l.at = v /\ l.request = k.request /\ l.sent = k.sent /\ l.got = k.got
  BY DEF Client

LEMMA TaskAt ==
  ASSUME NEW t \in Task, NEW v \in Stages \cup {"none", "hear", "echo", "closed"}
  PROVE  LET u == [t EXCEPT !.at = v]
         IN /\ u \in Task /\ u.at = v /\ u.got = t.got /\ u.number = t.number
            /\ u.art = t.art /\ u.out = t.out
  BY DEF Task, Stages

\* Whoever serves the connection c is now t, and its client k.
To(c, t, k) == task' = [task EXCEPT ![c] = t] /\ client' = [client EXCEPT ![c] = k]

Moves(c) == \E t \in Task, k \in Client : To(c, t, k) /\ Talk(t, k)

LEMMA EndsTyped ==
  ASSUME Typed, NEW c \in Conn
  PROVE  task[c] \in Task /\ client[c] \in Client
  BY DEF Typed

LEMMA TalkKept ==
  ASSUME NEW t, NEW k, Talk(t, k), UNCHANGED <<threads, life, dir, next, piece, torn>>
  PROVE  Talk(t, k)'
  BY DEF Talk, Halfway, Leads, Owed

\* Nobody serves the connection: what the client has got is all that counts.
LEMMA TalkIdle ==
  ASSUME NEW t, NEW k, Talk(t, k), t.at = "none", threads' = threads, torn \subseteq torn'
  PROVE  Talk(t, k)'
  BY DEF Talk, Stages, Owed

LEMMA TalkCut ==
  ASSUME NEW t \in Task, NEW k \in Client, NEW l \in Client, Talk(t, k),
         l = (IF k.at \in {"connecting", "open"} THEN [k EXCEPT !.at = "reset"] ELSE k),
         threads' = threads, torn \subseteq torn'
  PROVE  Talk(NoTask, l)'
  <1>1. /\ NoTask.at = "none" /\ NoTask.got = 0 /\ NoTask.number = 0 /\ NoTask.art = <<>>
    BY DEF NoTask
  <1>2. /\ l.request = k.request /\ l.sent = k.sent /\ l.got = k.got
        /\ l.at # "connecting" /\ l.at # "open" /\ l.sent \in Nat
        /\ l.at = k.at \/ l.at = "reset"
    BY Limits DEF Client
  <1>3. l.at = "idle" => k.at = "idle"
    BY <1>2
  <1>4. l.at = "done" => k.at = "done"
    BY <1>2
  <1>5. k.at = "idle" => k.got = <<>>
    BY DEF Talk
  <1>6. k.request.name \notin torn =>
          \E owed \in Owed(k.request) :
            Begins(k.got, owed) /\ (k.at = "done" => k.got = owed)
    BY DEF Talk
  <1>7. l.request.name \notin torn' =>
          \E owed \in Owed(l.request)' :
            Begins(l.got, owed) /\ (l.at = "done" => l.got = owed)
    BY <1>2, <1>4, <1>6 DEF Owed
  <1>8. QED BY <1>1, <1>2, <1>3, <1>5, <1>7 DEF Talk, Stages

-----------------------------------------------------------------------------
(* The clients                                                             *)

LEMMA ConnectMoves ==
  ASSUME Typed, NEW c \in Conn, Connect(c), Talk(task[c], client[c])
  PROVE  Moves(c) /\ task' = task /\ client'[c].at = "connecting"
  <1>1. PICK t \in Task : t = task[c]
    BY EndsTyped
  <1>2. PICK k \in Client : k = client[c]
    BY EndsTyped
  <1>3. /\ k.at = "idle" /\ task' = task
        /\ client' = [client EXCEPT ![c].at = "connecting"]
    BY <1>2 DEF Connect
  <1>4. PICK l : l = [k EXCEPT !.at = "connecting"]
    OBVIOUS
  <1>5. /\ l \in Client /\ l.at = "connecting" /\ l.request = k.request /\ l.sent = k.sent
        /\ l.got = k.got
    BY <1>4, ClientAt
  <1>6. To(c, t, l) /\ client'[c].at = "connecting"
    BY <1>1, <1>2, <1>3, <1>4, <1>5 DEF To, Typed
  <1>7. Talk(t, k)
    BY <1>1, <1>2
  <1>8. Talk(t, l)
    BY <1>3, <1>5, <1>7 DEF Talk, Stages, Heard
  <1>9. QED BY <1>3, <1>5, <1>6, <1>8 DEF Moves

LEMMA SendMoves ==
  ASSUME Typed, NEW c \in Conn, SendFragment(c), Talk(task[c], client[c])
  PROVE  Moves(c) /\ task' = task /\ client'[c].at = client[c].at
  <1>1. PICK t \in Task : t = task[c]
    BY EndsTyped
  <1>2. PICK k \in Client : k = client[c]
    BY EndsTyped
  <1>3. /\ k.at \in {"connecting", "open"} /\ k.sent < Fragments /\ task' = task
        /\ client' = [client EXCEPT ![c].sent = @ + 1]
    BY <1>2 DEF SendFragment, Connected
  <1>4. PICK n \in 0..Fragments : n = k.sent + 1 /\ k.sent \in Nat
    BY <1>3, Limits DEF Client
  <1>5. PICK l : l = [k EXCEPT !.sent = n]
    OBVIOUS
  <1>6. /\ l \in Client /\ l.at = k.at /\ l.request = k.request /\ l.sent = k.sent + 1
        /\ l.got = k.got
    BY <1>4, <1>5 DEF Client
  <1>7. client' = [client EXCEPT ![c] = l]
    BY <1>2, <1>3, <1>4, <1>5 DEF Typed
  <1>8. To(c, t, l) /\ client'[c] = l
    BY <1>1, <1>3, <1>7 DEF To, Typed
  <1>9. Talk(t, k)
    BY <1>1, <1>2
  <1>10. t.got \in Nat /\ t.got <= l.sent
    BY <1>4, <1>6, <1>9 DEF Talk, Task
  <1>11. Talk(t, l)
    BY <1>6, <1>9, <1>10 DEF Talk, Stages, Heard
  <1>12. QED BY <1>2, <1>3, <1>6, <1>8, <1>11 DEF Moves

LEMMA LeaveMoves ==
  ASSUME Typed, NEW c \in Conn, Leave(c), Talk(task[c], client[c])
  PROVE  Moves(c) /\ task' = task /\ client'[c].at = "gone"
  <1>1. PICK t \in Task : t = task[c]
    BY EndsTyped
  <1>2. PICK k \in Client : k = client[c]
    BY EndsTyped
  <1>3. /\ k.at \in {"connecting", "open"} /\ task' = task
        /\ client' = [client EXCEPT ![c].at = "gone"]
    BY <1>2 DEF Leave, Connected
  <1>4. PICK l : l = [k EXCEPT !.at = "gone"]
    OBVIOUS
  <1>5. /\ l \in Client /\ l.at = "gone" /\ l.request = k.request /\ l.sent = k.sent
        /\ l.got = k.got
    BY <1>4, ClientAt
  <1>6. To(c, t, l) /\ client'[c].at = "gone"
    BY <1>1, <1>2, <1>3, <1>4, <1>5 DEF To, Typed
  <1>7. Talk(t, k)
    BY <1>1, <1>2
  <1>8. Talk(t, l)
    BY <1>3, <1>5, <1>7 DEF Talk, Stages, Heard
  <1>9. QED BY <1>3, <1>5, <1>6, <1>8 DEF Moves

-----------------------------------------------------------------------------
(* The loop of run, and the processes                                      *)

LEMMA FirstQueued ==
  ASSUME Typed, Queued, queue # <<>>
  PROVE  /\ Head(queue) \in Conn /\ task[Head(queue)].at = "none"
         /\ client[Head(queue)].at \in {"connecting", "gone"}
         /\ Tail(queue) \in Seq(Conn) /\ IsInjective(Tail(queue)) /\ Len(Tail(queue)) <= Backlog
         /\ \A i \in 1..Len(Tail(queue)) :
              /\ Tail(queue)[i] \in Conn /\ Tail(queue)[i] # Head(queue)
              /\ task[Tail(queue)[i]].at = "none"
              /\ client[Tail(queue)[i]].at \in {"connecting", "gone"}
  <1>1. PICK q \in Seq(Conn) : q = queue /\ q # <<>>
    BY DEF Typed
  <1>2. PICK n \in Nat \ {0} : n = Len(q)
    BY <1>1, EmptySeq
  <1>3. /\ Head(q) = q[1] /\ Head(q) \in Conn
        /\ Tail(q) \in Seq(Conn) /\ Len(Tail(q)) = n - 1
        /\ \A i \in 1..(n - 1) : Tail(q)[i] = q[i + 1]
    BY <1>1, <1>2, HeadTailProperties
  <1>4. /\ \A i, j \in 1..n : q[i] = q[j] => i = j
        /\ n <= Backlog
        /\ \A i \in 1..n : task[q[i]].at = "none" /\ client[q[i]].at \in {"connecting", "gone"}
    BY <1>1, <1>2 DEF Queued, IsInjective
  <1>5. ASSUME NEW i \in 1..(n - 1)
        PROVE  /\ Tail(q)[i] \in Conn /\ Tail(q)[i] # Head(q)
               /\ task[Tail(q)[i]].at = "none"
               /\ client[Tail(q)[i]].at \in {"connecting", "gone"}
    <2>1. i + 1 \in 1..n /\ 1 \in 1..n /\ i + 1 # 1
      OBVIOUS
    <2>2. q[i + 1] \in Conn
      BY <1>1, <1>2, <2>1
    <2>3. QED BY <1>3, <1>4, <2>1, <2>2
  <1>6. IsInjective(Tail(q))
    <2>1. DOMAIN Tail(q) = 1..(n - 1)
      BY <1>3
    <2>2. ASSUME NEW i \in 1..(n - 1), NEW j \in 1..(n - 1), Tail(q)[i] = Tail(q)[j]
          PROVE  i = j
      <3>1. i + 1 \in 1..n /\ j + 1 \in 1..n
        OBVIOUS
      <3>2. i + 1 = j + 1
        BY <1>3, <1>4, <2>2, <3>1
      <3>3. QED BY <3>2
    <2>3. QED BY <2>1, <2>2 DEF IsInjective
  <1>7. Len(Tail(q)) <= Backlog
    BY <1>2, <1>3, <1>4, Limits
  <1>8. 1 \in 1..n
    OBVIOUS
  <1>9. QED BY <1>1, <1>3, <1>4, <1>5, <1>6, <1>7, <1>8

\* The client of an accepted connection.
LEMMA OpenedIs ==
  ASSUME Typed, NEW c \in Conn, client[c].at \in {"connecting", "gone"}
  PROVE  \E l \in Client :
           /\ Opened(c) = [client EXCEPT ![c] = l]
           /\ l.request = client[c].request /\ l.sent = client[c].sent /\ l.got = client[c].got
           /\ l.at = IF client[c].at = "gone" THEN "gone" ELSE "open"
  <1>1. PICK k \in Client : k = client[c]
    BY EndsTyped
  <1>2. CASE k.at = "connecting"
    <2>1. PICK l : l = [k EXCEPT !.at = "open"]
      OBVIOUS
    <2>2. /\ l \in Client /\ l.at = "open" /\ l.request = k.request /\ l.sent = k.sent
          /\ l.got = k.got
      BY <2>1, ClientAt
    <2>3. Opened(c) = [client EXCEPT ![c] = l]
      BY <1>1, <1>2, <2>1 DEF Opened, Typed
    <2>4. QED BY <1>1, <1>2, <2>2, <2>3
  <1>3. CASE k.at # "connecting"
    <2>1. Opened(c) = [client EXCEPT ![c] = k]
      BY <1>1, <1>3 DEF Opened, Typed
    <2>2. QED BY <1>1, <1>3, <2>1
  <1>4. QED BY <1>2, <1>3

LEMMA AcceptThreadMoves ==
  ASSUME Typed, Queued, AcceptThread, Talk(task[Head(queue)], client[Head(queue)])
  PROVE  Moves(Head(queue)) /\ task'[Head(queue)].at = "read"
  <1>1. PICK c \in Conn : c = Head(queue) /\ task[c].at = "none"
                          /\ client[c].at \in {"connecting", "gone"}
    BY FirstQueued DEF AcceptThread
  <1>2. PICK t \in Task : t = task[c]
    BY EndsTyped
  <1>3. PICK k \in Client : k = client[c]
    BY EndsTyped
  <1>4. /\ life = "serving" /\ threads
        /\ task' = [task EXCEPT ![c].at = "read"] /\ client' = Opened(c)
    BY <1>1 DEF AcceptThread
  <1>5. PICK u : u = [t EXCEPT !.at = "read"]
    OBVIOUS
  <1>6. /\ u \in Task /\ u.at = "read" /\ u.got = t.got /\ u.number = t.number
        /\ u.art = t.art
    BY <1>5, TaskAt DEF Stages
  <1>7. PICK l \in Client :
          /\ client' = [client EXCEPT ![c] = l]
          /\ l.request = k.request /\ l.sent = k.sent /\ l.got = k.got
          /\ l.at = IF k.at = "gone" THEN "gone" ELSE "open"
    BY <1>1, <1>3, <1>4, OpenedIs
  <1>8. To(c, u, l) /\ task'[c].at = "read"
    BY <1>2, <1>4, <1>5, <1>6, <1>7 DEF To, Typed
  <1>9. Talk(t, k) /\ t.at = "none" /\ k.at \in {"connecting", "gone"}
    BY <1>1, <1>2, <1>3
  <1>10. Talk(u, l)
    BY <1>4, <1>6, <1>7, <1>9 DEF Talk, Stages
  <1>11. QED BY <1>1, <1>6, <1>8, <1>10 DEF Moves

LEMMA AcceptProcessMoves ==
  ASSUME Typed, Queued, AcceptProcess, Talk(task[Head(queue)], client[Head(queue)])
  PROVE  /\ Moves(Head(queue))
         /\ task'[Head(queue)].at =
              IF Cardinality(Children) + zombies < MaxProc THEN "hear" ELSE "closed"
  <1>0. queue # <<>>
    BY DEF AcceptProcess
  <1>1. PICK c \in Conn : c = Head(queue) /\ task[c].at = "none"
                          /\ client[c].at \in {"connecting", "gone"}
    BY <1>0, FirstQueued
  <1>2. PICK t \in Task : t = task[c]
    BY EndsTyped
  <1>3. PICK k \in Client : k = client[c]
    BY EndsTyped
  <1>4. Talk(t, k) /\ t.at = "none" /\ k.at \in {"connecting", "gone"}
    BY <1>1, <1>2, <1>3
  <1>5. CASE Cardinality(Children) + zombies < MaxProc
    <2>1. /\ life = "serving" /\ ~threads
          /\ task' = [task EXCEPT ![c].at = "hear"] /\ client' = Opened(c)
      BY <1>1, <1>5 DEF AcceptProcess
    <2>2. PICK u : u = [t EXCEPT !.at = "hear"]
      OBVIOUS
    <2>3. /\ u \in Task /\ u.at = "hear" /\ u.got = t.got /\ u.number = t.number
          /\ u.art = t.art
      BY <2>2, TaskAt
    <2>4. PICK l \in Client :
            /\ client' = [client EXCEPT ![c] = l]
            /\ l.request = k.request /\ l.sent = k.sent /\ l.got = k.got
            /\ l.at = IF k.at = "gone" THEN "gone" ELSE "open"
      BY <1>1, <1>3, <2>1, OpenedIs
    <2>5. To(c, u, l) /\ task'[c].at = "hear"
      BY <1>2, <2>1, <2>2, <2>3, <2>4 DEF To, Typed
    <2>6. Talk(u, l)
      BY <1>4, <2>1, <2>3, <2>4 DEF Talk, Stages
    <2>7. QED BY <1>1, <1>5, <2>3, <2>5, <2>6 DEF Moves
  <1>6. CASE ~(Cardinality(Children) + zombies < MaxProc)
    <2>1. /\ life = "serving" /\ ~threads
          /\ task' = [task EXCEPT ![c].at = "closed"]
          /\ client' = [client EXCEPT ![c].at = IF Gone(c) THEN @ ELSE "reset"]
      BY <1>1, <1>6 DEF AcceptProcess
    <2>2. PICK u : u = [t EXCEPT !.at = "closed"]
      OBVIOUS
    <2>3. /\ u \in Task /\ u.at = "closed" /\ u.got = t.got /\ u.number = t.number
          /\ u.art = t.art
      BY <2>2, TaskAt
    <2>4. PICK v \in {"gone", "reset"} : v = IF k.at = "gone" THEN k.at ELSE "reset"
      OBVIOUS
    <2>5. PICK l : l = [k EXCEPT !.at = v]
      OBVIOUS
    <2>6. /\ l \in Client /\ l.at = v /\ l.request = k.request /\ l.sent = k.sent
          /\ l.got = k.got
      <3>1. v \in {"idle", "connecting", "open", "done", "gone", "reset"}
        BY <2>4
      <3>2. QED BY <2>5, <3>1, ClientAt
    <2>7. client' = [client EXCEPT ![c] = l]
      BY <1>3, <2>1, <2>4, <2>5 DEF Typed, Gone
    <2>8. To(c, u, l) /\ task'[c].at = "closed"
      BY <1>2, <2>1, <2>2, <2>3, <2>7 DEF To, Typed
    <2>9. Talk(u, l)
      BY <1>4, <2>1, <2>3, <2>6 DEF Talk, Stages
    <2>10. QED BY <1>1, <1>6, <2>3, <2>6, <2>8, <2>9 DEF Moves
  <1>7. QED BY <1>5, <1>6

LEMMA HearMoves ==
  ASSUME Typed, NEW c \in Conn, Hear(c), Talk(task[c], client[c])
  PROVE  Moves(c) /\ task'[c].at = "echo" /\ task[c].at = "hear" /\ client' = client
  <1>1. PICK t \in Task : t = task[c]
    BY EndsTyped
  <1>2. PICK k \in Client : k = client[c]
    BY EndsTyped
  <1>3. Talk(t, k) /\ t.at = "hear" /\ client' = client
    BY <1>1, <1>2 DEF Hear
  <1>4. PICK n \in 0..Fragments :
          /\ n <= k.sent
          /\ task' = [task EXCEPT ![c] = [t EXCEPT !.at = "echo", !.got = n]]
    <2>1. t.got \in 0..Fragments /\ k.sent \in 0..Fragments /\ t.got <= k.sent
      BY <1>3 DEF Talk, Task, Client
    <2>2. CASE \E n \in Read(c) : task' = [task EXCEPT ![c].at = "echo", ![c].got = n]
      <3>1. PICK n \in Read(c) : task' = [task EXCEPT ![c].at = "echo", ![c].got = n]
        BY <2>2
      <3>2. n \in 0..Fragments /\ n <= k.sent
        BY <1>1, <1>2, <2>1, <3>1, Limits DEF Read
      <3>3. task' = [task EXCEPT ![c] = [t EXCEPT !.at = "echo", !.got = n]]
        BY <1>1, <3>1 DEF Typed
      <3>4. QED BY <3>2, <3>3
    <2>3. CASE task' = [task EXCEPT ![c].at = "echo"]
      <3>1. [t EXCEPT !.at = "echo", !.got = t.got] = [t EXCEPT !.at = "echo"]
        BY DEF Task
      <3>2. task' = [task EXCEPT ![c] = [t EXCEPT !.at = "echo"]]
        BY <1>1, <2>3 DEF Typed
      <3>3. QED BY <2>1, <3>1, <3>2
    <2>4. QED BY <2>2, <2>3 DEF Hear
  <1>5. PICK u : u = [t EXCEPT !.at = "echo", !.got = n]
    OBVIOUS
  <1>6. /\ u \in Task /\ u.at = "echo" /\ u.got = n /\ u.number = t.number
        /\ u.art = t.art
    BY <1>5 DEF Task
  <1>7. To(c, u, k) /\ task'[c].at = "echo"
    BY <1>1, <1>2, <1>3, <1>4, <1>5, <1>6 DEF To, Typed
  <1>8. Talk(u, k)
    BY <1>3, <1>4, <1>6 DEF Talk, Stages
  <1>9. QED BY <1>1, <1>3, <1>6, <1>7, <1>8 DEF Moves

LEMMA EchoMoves ==
  ASSUME Typed, NEW c \in Conn, Echo(c), Talk(task[c], client[c])
  PROVE  Moves(c) /\ task'[c].at = "closed" /\ task[c].at = "echo"
  <1>1. PICK t \in Task : t = task[c]
    BY EndsTyped
  <1>2. PICK k \in Client : k = client[c]
    BY EndsTyped
  <1>3. /\ Talk(t, k) /\ t.at = "echo" /\ task' = [task EXCEPT ![c].at = "closed"]
    BY <1>1, <1>2 DEF Echo
  <1>4. PICK u : u = [t EXCEPT !.at = "closed"]
    OBVIOUS
  <1>5. /\ u \in Task /\ u.at = "closed" /\ u.got = t.got /\ u.number = t.number
        /\ u.art = t.art
    BY <1>4, TaskAt
  <1>6. task' = [task EXCEPT ![c] = u] /\ task'[c].at = "closed"
    BY <1>1, <1>3, <1>4, <1>5 DEF Typed
  <1>7. life = "serving" /\ ~threads /\ k.at \in {"open", "gone"} /\ t.got \in 0..Fragments
    BY <1>3 DEF Talk, Task
  <1>8. CASE k.at = "gone"
    <2>1. client' = [client EXCEPT ![c] = k]
      BY <1>2, <1>8 DEF Echo, Gone, Typed
    <2>2. Talk(u, k)
      BY <1>3, <1>5, <1>7, <1>8 DEF Talk, Stages
    <2>3. QED BY <1>1, <1>3, <1>5, <1>6, <2>1, <2>2 DEF Moves, To
  <1>9. CASE k.at = "open"
    <2>1. PICK s : s = <<Part("echo", "none", t.got)>>
      OBVIOUS
    <2>2. s \in Seq(Parts) /\ s \in Owed(k.request) /\ Begins(s, s)
      <3>1. Part("echo", "none", t.got) \in Parts
        BY <1>7, PartsTyped
      <3>2. QED BY <1>7, <2>1, <3>1 DEF Owed, Begins
    <2>3. PICK l : l = [k EXCEPT !.at = "done", !.got = s]
      OBVIOUS
    <2>4. /\ l \in Client /\ l.at = "done" /\ l.request = k.request /\ l.sent = k.sent
          /\ l.got = s
      BY <2>2, <2>3 DEF Client
    <2>5. client' = [client EXCEPT ![c] = l]
      BY <1>1, <1>2, <1>9, <2>1, <2>3 DEF Echo, Gone, Typed
    <2>6. Talk(u, l)
      BY <1>3, <1>5, <1>7, <2>2, <2>4 DEF Talk, Stages
    <2>7. QED BY <1>1, <1>3, <1>5, <1>6, <2>4, <2>5, <2>6 DEF Moves, To
  <1>10. QED BY <1>7, <1>8, <1>9

-----------------------------------------------------------------------------
(* The parts of an answer                                                  *)

LEMMA JoinedFresh ==
  ASSUME NEW w \in Seq(Parts)
  PROVE  Joined(<<>>, w, w) /\ Begins(<<>>, w) /\ Len(w) \in Nat
  <1>1. Len(w) \in Nat /\ Len(<<>>) = 0
    OBVIOUS
  <1>2. QED BY <1>1 DEF Joined, Begins

LEMMA JoinedBegins ==
  ASSUME NEW got \in Seq(Parts), NEW out \in Seq(Parts), NEW w \in Seq(Parts),
         Joined(got, out, w)
  PROVE  Begins(got, w) /\ (out = <<>> => got = w)
  <1>1. Len(got) \in Nat /\ Len(out) \in Nat /\ Len(w) \in Nat /\ Len(got) + Len(out) = Len(w)
    BY DEF Joined
  <1>2. Begins(got, w)
    BY <1>1 DEF Joined, Begins
  <1>3. ASSUME out = <<>>
        PROVE  got = w
    <2>1. Len(got) = Len(w)
      BY <1>1, <1>3
    <2>2. \A i \in 1..Len(got) : got[i] = w[i]
      BY DEF Joined
    <2>3. QED BY <2>1, <2>2, SeqEqual
  <1>4. QED BY <1>2, <1>3

LEMMA JoinedMoves ==
  ASSUME NEW got \in Seq(Parts), NEW out \in Seq(Parts), NEW w \in Seq(Parts),
         Joined(got, out, w), out # <<>>
  PROVE  /\ Append(got, Head(out)) \in Seq(Parts) /\ Tail(out) \in Seq(Parts)
         /\ Joined(Append(got, Head(out)), Tail(out), w)
  <1>1. PICK m \in Nat, n \in Nat, p \in Nat :
          m = Len(got) /\ n = Len(out) /\ p = Len(w) /\ m + n = p /\ n > 0
    <2>1. Len(got) \in Nat /\ Len(out) \in Nat /\ Len(w) \in Nat
      OBVIOUS
    <2>2. Len(got) + Len(out) = Len(w)
      BY DEF Joined
    <2>3. Len(out) > 0
      BY <2>1, EmptySeq
    <2>4. QED BY <2>1, <2>2, <2>3
  <1>2. PICK tl, h : tl = Tail(out) /\ h = Head(out) /\ h \in Parts
    BY HeadTailProperties
  <1>3. tl \in Seq(Parts) /\ Len(tl) = n - 1 /\ h = out[1] /\ \A k \in 1..(n - 1) : tl[k] = out[k + 1]
    BY <1>1, <1>2, HeadTailProperties
  <1>4. PICK g : g = Append(got, h)
    OBVIOUS
  <1>5. g \in Seq(Parts) /\ Len(g) = m + 1 /\ \A k \in 1..m : g[k] = got[k]
    BY <1>1, <1>2, <1>4, AppendProperties
  <1>6. g[m + 1] = h
    BY <1>1, <1>2, <1>4, AppendProperties
  <1>7. /\ \A k \in 1..m : got[k] = w[k]
        /\ \A k \in 1..n : out[k] = w[m + k]
    BY <1>1 DEF Joined
  <1>8. ASSUME NEW k \in 1..(m + 1)
        PROVE  g[k] = w[k]
    <2>1. CASE k \in 1..m
      BY <1>5, <1>7, <2>1
    <2>2. CASE k = m + 1
      <3>1. 1 \in 1..n
        BY <1>1
      <3>2. QED BY <1>3, <1>6, <1>7, <2>2, <3>1
    <2>3. QED BY <2>1, <2>2
  <1>9. ASSUME NEW k \in 1..(n - 1)
        PROVE  tl[k] = w[(m + 1) + k]
    <2>1. k + 1 \in 1..n /\ (m + 1) + k = m + (k + 1)
      BY <1>1
    <2>2. QED BY <1>3, <1>7, <2>1
  <1>10. (m + 1) + (n - 1) = p
    BY <1>1
  <1>11. Joined(g, tl, w)
    BY <1>1, <1>3, <1>5, <1>8, <1>9, <1>10 DEF Joined
  <1>12. QED BY <1>2, <1>3, <1>4, <1>5, <1>11

-----------------------------------------------------------------------------
(* task: what a thread reads and what it answers                           *)

LEMMA ReadSomeMoves ==
  ASSUME Typed, NEW c \in Conn, ReadSome(c), Talk(task[c], client[c])
  PROVE  /\ Moves(c) /\ task'[c].at \in {"read", "handle"} /\ task[c].at = "read"
         /\ client' = client
  <1>1. PICK t \in Task : t = task[c]
    BY EndsTyped
  <1>2. PICK k \in Client : k = client[c]
    BY EndsTyped
  <1>3. Talk(t, k) /\ t.at = "read" /\ client' = client
    BY <1>1, <1>2 DEF ReadSome
  <1>4. PICK n \in Read(c) :
          task' = [task EXCEPT ![c].got = n, ![c].at = IF n = Fragments THEN "handle" ELSE "read"]
    BY DEF ReadSome
  <1>5. n \in 0..Fragments /\ n <= k.sent
    BY <1>1, <1>2, <1>4, Limits DEF Read, Task, Client
  <1>6. PICK v \in {"read", "handle"} : v = IF n = Fragments THEN "handle" ELSE "read"
    OBVIOUS
  <1>7. PICK u : u = [t EXCEPT !.got = n, !.at = v]
    OBVIOUS
  <1>8. /\ u \in Task /\ u.at = v /\ u.got = n /\ u.number = t.number
        /\ u.art = t.art
    BY <1>5, <1>6, <1>7 DEF Task
  <1>9. To(c, u, k) /\ task'[c].at = v
    BY <1>1, <1>2, <1>3, <1>4, <1>6, <1>7, <1>8 DEF To, Typed
  <1>10. Talk(u, k)
    BY <1>3, <1>5, <1>6, <1>8 DEF Talk, Stages
  <1>11. QED BY <1>1, <1>3, <1>6, <1>8, <1>9, <1>10 DEF Moves

LEMMA ReadEndMoves ==
  ASSUME Typed, NEW c \in Conn, ReadEnd(c), Talk(task[c], client[c])
  PROVE  Moves(c) /\ task'[c].at = "handle" /\ task[c].at = "read" /\ client' = client
  <1>1. PICK t \in Task : t = task[c]
    BY EndsTyped
  <1>2. PICK k \in Client : k = client[c]
    BY EndsTyped
  <1>3. /\ Talk(t, k) /\ t.at = "read" /\ k.at = "gone" /\ client' = client
        /\ task' = [task EXCEPT ![c].at = "handle"]
    BY <1>1, <1>2 DEF ReadEnd, Gone
  <1>4. PICK u : u = [t EXCEPT !.at = "handle"]
    OBVIOUS
  <1>5. /\ u \in Task /\ u.at = "handle" /\ u.got = t.got /\ u.number = t.number
        /\ u.art = t.art
    BY <1>4, TaskAt DEF Stages
  <1>6. To(c, u, k) /\ task'[c].at = "handle"
    BY <1>1, <1>2, <1>3, <1>4, <1>5 DEF To, Typed
  <1>7. Talk(u, k)
    BY <1>3, <1>5 DEF Talk, Stages
  <1>8. QED BY <1>1, <1>3, <1>5, <1>6, <1>7 DEF Moves

\* Of a client that has not gone the whole request is there.
LEMMA HeardIs ==
  ASSUME NEW c \in Conn, NEW t, NEW k, t = task[c], k = client[c], Talk(t, k), k \in Client
  PROVE  /\ Translated(c) = Heard(t, k) /\ Heard(t, k) \in Request
         /\ t.at \in {"handle", "block", "spins", "write"} /\ k.at # "gone" => Heard(t, k) = k.request
  BY RequestsTyped DEF Translated, Heard, Talk, Client

LEMMA RespondMoves ==
  ASSUME Typed, NEW c \in Conn, Respond(c), Talk(task[c], client[c])
  PROVE  Moves(c) /\ task'[c].at = "write" /\ task[c].at = "handle" /\ client' = client
  <1>1. PICK t \in Task : t = task[c]
    BY EndsTyped
  <1>2. PICK k \in Client : k = client[c]
    BY EndsTyped
  <1>3. PICK r \in Request : r = Translated(c) /\ r = Heard(t, k)
    BY <1>1, <1>2, HeardIs
  <1>4. PICK s : s = Answer(r)
    OBVIOUS
  <1>5. /\ Talk(t, k) /\ t.at = "handle" /\ client' = client /\ r.kind # "GET"
        /\ task' = [task EXCEPT ![c].at = "write", ![c].out = s]
    BY <1>1, <1>2, <1>3, <1>4 DEF Respond
  <1>6. s \in Seq(Parts) /\ s = Whole(r)
    BY <1>4, <1>5, AnswersTyped DEF Whole
  <1>7. PICK u : u = [t EXCEPT !.at = "write", !.out = s]
    OBVIOUS
  <1>8. /\ u \in Task /\ u.at = "write" /\ u.got = t.got /\ u.number = t.number
        /\ u.art = t.art /\ u.out = s
    BY <1>6, <1>7 DEF Task
  <1>9. To(c, u, k) /\ task'[c].at = "write"
    BY <1>1, <1>2, <1>5, <1>7, <1>8 DEF To, Typed
  <1>10. k.at \in {"open", "gone"} /\ (k.at # "gone" => k.got = <<>> /\ r = k.request)
    BY <1>1, <1>2, <1>3, <1>5, HeardIs DEF Talk
  <1>11. k.at # "gone" => Joined(k.got, u.out, Whole(k.request))
    BY <1>6, <1>8, <1>10, JoinedFresh
  <1>12. Talk(u, k)
    BY <1>5, <1>8, <1>10, <1>11 DEF Talk, Stages
  <1>13. QED BY <1>1, <1>5, <1>8, <1>9, <1>12 DEF Moves

\* When the server serves, its figures are on the disk and nothing is being written.
LEMMA Served ==
  ASSUME Typed, DiskInv, life = "serving"
  PROVE  /\ ~Writing /\ \A f \in Names : dir[f] = 0 <=> f \notin Mounted
         /\ \A f \in Mounted \ torn : \E ch \in [1..Size[f] -> Blocks] : Leads(f, ch)
  <1>1. ~Writing
    BY DEF Writing, Mounting
  <1>2. UpTo(Len(MountOrder) + 1)
    BY DEF DiskInv, InOrder, UpTo
  <1>3. ASSUME NEW f \in Mounted
        PROVE  dir[f] # 0
    <2>1. PICK i \in 1..Len(MountOrder) : f = MountOrder[i]
      BY FiguresTyped
    <2>2. i < Len(MountOrder) + 1
      BY FiguresTyped
    <2>3. QED BY <1>2, <2>1, <2>2 DEF UpTo
  <1>4. \A f \in Names \ Mounted : dir[f] = 0
    BY DEF DiskInv, InOrder
  <1>5. ASSUME NEW f \in Mounted \ torn
        PROVE  \E ch \in [1..Size[f] -> Blocks] : Leads(f, ch)
    BY <1>1, <1>3 DEF DiskInv, StoredLead, Stored
  <1>6. QED BY <1>1, <1>3, <1>4, <1>5

NotFound(c) ==
  /\ dir[Translated(c).name] = 0
  /\ task' = [task EXCEPT ![c].at = "write", ![c].out = <<Status("201")>>]
  /\ client' = client

Found(c) ==
  /\ dir[Translated(c).name] # 0
  /\ task' = [task EXCEPT ![c].at = "block"]
  /\ client' = client

LEMMA NotFoundMoves ==
  ASSUME Typed, DiskInv, NEW c \in Conn, task[c].at = "handle", Translated(c).kind = "GET",
         NotFound(c), Talk(task[c], client[c])
  PROVE  Moves(c) /\ task'[c].at = "write"
  <1>1. PICK t \in Task : t = task[c]
    BY EndsTyped
  <1>2. PICK k \in Client : k = client[c]
    BY EndsTyped
  <1>3. PICK r \in Request : r = Translated(c) /\ r = Heard(t, k)
    BY <1>1, <1>2, HeardIs
  <1>4. PICK s : s = <<Status("201")>>
    OBVIOUS
  <1>5. /\ Talk(t, k) /\ t.at = "handle" /\ client' = client /\ r.kind = "GET"
        /\ dir[r.name] = 0 /\ r.name \in Names
        /\ task' = [task EXCEPT ![c].at = "write", ![c].out = s]
    BY <1>1, <1>2, <1>3, <1>4, RequestsTyped DEF NotFound
  <1>6. r.name \notin Mounted
    BY <1>5, Served DEF Talk
  <1>7. s \in Seq(Parts) /\ s = Whole(r)
    <2>1. s \in Seq(Parts)
      BY <1>4, PartsTyped
    <2>2. s = Whole(r)
      BY <1>4, <1>5, <1>6 DEF Whole
    <2>3. QED BY <2>1, <2>2
  <1>8. PICK u : u = [t EXCEPT !.at = "write", !.out = s]
    OBVIOUS
  <1>9. /\ u \in Task /\ u.at = "write" /\ u.got = t.got /\ u.number = t.number
        /\ u.art = t.art /\ u.out = s
    BY <1>7, <1>8 DEF Task
  <1>10. To(c, u, k) /\ task'[c].at = "write"
    BY <1>1, <1>2, <1>5, <1>8, <1>9 DEF To, Typed
  <1>11. k.at \in {"open", "gone"} /\ (k.at # "gone" => k.got = <<>> /\ r = k.request)
    BY <1>1, <1>2, <1>3, <1>5, HeardIs DEF Talk
  <1>12. k.at # "gone" => Joined(k.got, u.out, Whole(k.request))
    BY <1>7, <1>9, <1>11, JoinedFresh
  <1>13. Talk(u, k)
    BY <1>5, <1>9, <1>11, <1>12 DEF Talk, Stages
  <1>14. QED BY <1>9, <1>10, <1>13 DEF Moves

LEMMA FoundMoves ==
  ASSUME Typed, DiskInv, NEW c \in Conn, task[c].at = "handle", Translated(c).kind = "GET",
         Found(c), Talk(task[c], client[c])
  PROVE  Moves(c) /\ task'[c].at = "block"
  <1>1. PICK t \in Task : t = task[c]
    BY EndsTyped
  <1>2. PICK k \in Client : k = client[c]
    BY EndsTyped
  <1>3. PICK r \in Request : r = Translated(c) /\ r = Heard(t, k)
    BY <1>1, <1>2, HeardIs
  <1>4. /\ Talk(t, k) /\ t.at = "handle" /\ client' = client /\ r.kind = "GET"
        /\ dir[r.name] # 0 /\ r.name \in Names
        /\ task' = [task EXCEPT ![c].at = "block"]
    BY <1>1, <1>2, <1>3, RequestsTyped DEF Found
  <1>5. PICK u : u = [t EXCEPT !.at = "block"]
    OBVIOUS
  <1>6. /\ u \in Task /\ u.at = "block" /\ u.got = t.got /\ u.number = t.number
        /\ u.art = t.art
    BY <1>5, TaskAt DEF Stages
  <1>7. To(c, u, k) /\ task'[c].at = "block"
    BY <1>1, <1>2, <1>4, <1>5, <1>6 DEF To, Typed
  <1>8. u.number = 0 /\ u.art = <<>>
    BY <1>4, <1>6 DEF Talk
  <1>9. ASSUME r.name \notin torn
        PROVE  Halfway(u, r.name)
    <2>1. life = "serving"
      BY <1>4 DEF Talk
    <2>2. r.name \in Mounted \ torn
      BY <1>4, <1>9, <2>1, Served
    <2>3. PICK ch \in [1..Size[r.name] -> Blocks] : Leads(r.name, ch)
      BY <2>1, <2>2, Served
    <2>4. Size[r.name] \in Nat \ {0}
      BY <2>2, FiguresTyped
    <2>5. Len(u.art) < Size[r.name] /\ 1..Len(u.art) = {}
      BY <1>8, <2>4
    <2>6. QED BY <1>8, <2>3, <2>5 DEF Halfway
  <1>10. Heard(u, k) = r
    BY <1>3, <1>6 DEF Heard
  <1>11. Talk(u, k)
    BY <1>4, <1>6, <1>9, <1>10 DEF Talk, Stages
  <1>12. QED BY <1>6, <1>7, <1>11 DEF Moves

\* The piece that a GET reads is the next one of its figure, and the last exactly if its
\* last byte is 255.
LEMMA NextPiece ==
  ASSUME Typed, NEW t \in Task, NEW f \in Mounted, Halfway(t, f),
         NEW b \in Blocks, b = (IF t.number = 0 THEN dir[f] ELSE t.number)
  PROVE  \E n \in Nat :
           /\ n = Len(t.art) /\ n < Size[f] /\ piece[b] = Piece(f, n + 1)
           /\ \A k \in 1..n : t.art[k] = Piece(f, k)
           /\ next[b] = Last255 <=> n + 1 = Size[f]
           /\ next[b] # Last255 =>
                \E ch \in [1..Size[f] -> Blocks] : Leads(f, ch) /\ next[b] = ch[n + 2]
  <1>1. PICK ch \in [1..Size[f] -> Blocks] :
          /\ Leads(f, ch)
          /\ Len(t.art) < Size[f] /\ \A k \in 1..Len(t.art) : t.art[k] = Piece(f, k)
          /\ t.number = IF t.art = <<>> THEN 0 ELSE ch[Len(t.art) + 1]
    BY DEF Halfway
  <1>2. PICK s \in Nat \ {0} : s = Size[f]
    BY FiguresTyped
  <1>3. t.art \in Seq(Parts)
    BY DEF Task
  <1>4. PICK n \in Nat : n = Len(t.art)
    BY <1>3
  <1>5. n < s /\ n + 1 \in 1..s
    BY <1>1, <1>2, <1>4
  <1>6. b = ch[n + 1]
    <2>1. CASE t.art = <<>>
      <3>1. n = 0 /\ t.number = 0
        BY <1>1, <1>4, <2>1
      <3>2. b = dir[f] /\ ch[1] = dir[f]
        BY <1>1, <3>1 DEF Leads
      <3>3. QED BY <3>1, <3>2
    <2>2. CASE t.art # <<>>
      <3>1. t.number = ch[n + 1]
        BY <1>1, <1>4, <2>2
      <3>2. ch[n + 1] \in Blocks
        BY <1>2, <1>5
      <3>3. t.number # 0
        BY <3>1, <3>2, Room
      <3>4. QED BY <3>1, <3>3
    <2>3. QED BY <2>1, <2>2
  <1>7. /\ piece[b] = Piece(f, n + 1)
        /\ next[b] = IF n + 1 = s THEN Last255 ELSE ch[(n + 1) + 1]
    BY <1>1, <1>2, <1>5, <1>6 DEF Leads
  <1>8. n + 1 # s => ch[(n + 1) + 1] \in Blocks /\ (n + 1) + 1 = n + 2
    BY <1>2, <1>5
  <1>9. next[b] = Last255 <=> n + 1 = s
    BY <1>7, <1>8, Room
  <1>10. next[b] # Last255 => next[b] = ch[n + 2]
    BY <1>7, <1>8, <1>9
  <1>11. QED BY <1>1, <1>2, <1>4, <1>5, <1>7, <1>9, <1>10

\* A status and all pieces of a figure are the answer.
LEMMA FigureJoined ==
  ASSUME NEW r \in Request, r.kind = "GET", r.name \in Mounted, NEW a \in Seq(Parts),
         Len(a) = Size[r.name], \A k \in 1..Len(a) : a[k] = Piece(r.name, k)
  PROVE  <<Status("200")>> \o a = Whole(r)
  <1>1. PICK s \in Seq(Parts) : s = <<Status("200")>> /\ Len(s) = 1 /\ s[1] = Status("200")
    <2>1. <<Status("200")>> \in Seq(Parts)
      BY PartsTyped
    <2>2. QED BY <2>1
  <1>2. PICK n \in Nat : n = Len(a)
    OBVIOUS
  <1>3. /\ s \o a \in Seq(Parts) /\ Len(s \o a) = 1 + n
        /\ \A i \in 1..(1 + n) : (s \o a)[i] = IF i <= 1 THEN s[i] ELSE a[i - 1]
    <2>1. /\ s \o a \in Seq(Parts) /\ Len(s \o a) = Len(s) + Len(a)
          /\ \A i \in 1..(Len(s) + Len(a)) :
               (s \o a)[i] = IF i <= Len(s) THEN s[i] ELSE a[i - Len(s)]
      BY ConcatProperties
    <2>2. QED BY <1>1, <1>2, <2>1
  <1>4. PICK w \in Seq(Parts) : w = Whole(r)
    BY WholeTyped
  <1>5. /\ Len(w) = n + 1 /\ w[1] = Status("200")
        /\ \A k \in 1..n : w[k + 1] = Piece(r.name, k)
    BY <1>2, <1>4, FigureWhole
  <1>6. PICK v \in Seq(Parts) : v = s \o a
    BY <1>3
  <1>7. ASSUME NEW i \in 1..(1 + n)
        PROVE  v[i] = w[i]
    <2>1. CASE i = 1
      BY <1>1, <1>3, <1>5, <1>6, <2>1
    <2>2. CASE i # 1
      <3>1. PICK k \in 1..n : k = i - 1 /\ i = k + 1
        BY <2>2
      <3>2. v[i] = a[k]
        BY <1>3, <1>6, <2>2, <3>1
      <3>3. a[k] = Piece(r.name, k)
        BY <1>2
      <3>4. QED BY <1>5, <3>1, <3>2, <3>3
    <2>3. QED BY <2>1, <2>2
  <1>8. Len(v) = Len(w) /\ \A i \in 1..Len(v) : v[i] = w[i]
    BY <1>3, <1>5, <1>6, <1>7
  <1>9. v = w
    BY <1>8, SeqEqual
  <1>10. QED BY <1>1, <1>4, <1>6, <1>9

LEMMA ExtractMoves ==
  ASSUME Typed, DiskInv, NEW c \in Conn, extractBlock(c), Talk(task[c], client[c])
  PROVE  /\ Moves(c) /\ task'[c].at \in {"write", "spins", "block"} /\ task[c].at = "block"
         /\ client' = client
  <1>1. PICK t \in Task : t = task[c]
    BY EndsTyped
  <1>2. PICK k \in Client : k = client[c]
    BY EndsTyped
  <1>3. PICK r \in Request : r = Translated(c) /\ r = Heard(t, k)
    BY <1>1, <1>2, HeardIs
  <1>4. /\ Talk(t, k) /\ t.at = "block" /\ client' = client /\ r.kind = "GET"
        /\ dir[r.name] # 0 /\ r.name \in Names /\ life = "serving" /\ k.at \in {"open", "gone"}
        /\ k.at # "gone" => k.got = <<>>
    BY <1>1, <1>2, <1>3, RequestsTyped DEF extractBlock, Talk
  <1>5. r = k.request
    BY <1>3, <1>4, RequestsTyped DEF Heard
  <1>6. r.name \in Mounted
    BY <1>4, Served
  <1>7. PICK b \in Blocks : b = BlockOf(c) /\ b = IF t.number = 0 THEN dir[r.name] ELSE t.number
    <2>1. t.number \in {0} \cup Blocks /\ dir[r.name] \in {0} \cup Blocks
      BY <1>4 DEF Task, Typed
    <2>2. BlockOf(c) = IF t.number = 0 THEN dir[r.name] ELSE t.number
      BY <1>1, <1>3 DEF BlockOf
    <2>3. QED BY <1>4, <2>1, <2>2
  <1>8. PICK p \in Parts, x \in {0, Last255} \cup Blocks : p = piece[b] /\ x = next[b]
    BY DEF Typed
  <1>9. t.art \in Seq(Parts)
    BY DEF Task
  <1>10. PICK a \in Seq(Parts) : a = Append(t.art, p)
    BY <1>9, AppendProperties
  <1>11. PICK full \in Seq(Parts) : full = <<Status("200")>> \o a
    <2>1. <<Status("200")>> \in Seq(Parts)
      BY PartsTyped
    <2>2. QED BY <2>1, ConcatProperties
  <1>12. PICK v \in {"write", "spins", "block"} :
           v = (IF x = Last255 THEN "write" ELSE IF x = 0 THEN "spins" ELSE "block")
    OBVIOUS
  <1>13. PICK o \in Seq(Parts) : o = (IF x = Last255 THEN full ELSE <<>>)
    <2>1. (IF x = Last255 THEN full ELSE <<>>) \in Seq(Parts)
      <3>1. <<>> \in Seq(Parts)
        OBVIOUS
      <3>2. QED BY <3>1
    <2>2. QED BY <2>1
  <1>14. PICK art \in Seq(Parts) : art = (IF x = Last255 THEN <<>> ELSE a)
    <2>1. (IF x = Last255 THEN <<>> ELSE a) \in Seq(Parts)
      <3>1. <<>> \in Seq(Parts)
        OBVIOUS
      <3>2. QED BY <3>1
    <2>2. QED BY <2>1
  <1>15. PICK n \in {0} \cup Blocks : n = (IF x = Last255 THEN 0 ELSE x)
    BY <1>8
  <1>16. task' = [task EXCEPT ![c].at = v, ![c].out = o, ![c].art = art, ![c].number = n]
    <2>1. v = CASE next[b] = Last255 -> "write" [] next[b] = 0 -> "spins" [] OTHER -> "block"
      BY <1>8, <1>12 DEF Last255
    <2>2. o = IF next[b] = Last255 THEN <<Status("200")>> \o Append(task[c].art, piece[b]) ELSE <<>>
      BY <1>1, <1>8, <1>10, <1>11, <1>13
    <2>3. art = IF next[b] = Last255 THEN <<>> ELSE Append(task[c].art, piece[b])
      BY <1>1, <1>8, <1>10, <1>14
    <2>4. n = IF next[b] = Last255 THEN 0 ELSE next[b]
      BY <1>8, <1>15
    <2>5. task' = [task EXCEPT
            ![c].at = CASE next[b] = Last255 -> "write" [] next[b] = 0 -> "spins"
                        [] OTHER -> "block",
            ![c].out = IF next[b] = Last255
                       THEN <<Status("200")>> \o Append(task[c].art, piece[b]) ELSE <<>>,
            ![c].art = IF next[b] = Last255 THEN <<>> ELSE Append(task[c].art, piece[b]),
            ![c].number = IF next[b] = Last255 THEN 0 ELSE next[b]]
      BY <1>7 DEF extractBlock
    <2>6. QED BY <2>1, <2>2, <2>3, <2>4, <2>5
  <1>17. PICK u : u = [t EXCEPT !.at = v, !.out = o, !.art = art, !.number = n]
    OBVIOUS
  <1>18. /\ u \in Task /\ u.at = v /\ u.got = t.got /\ u.number = n /\ u.art = art /\ u.out = o
    BY <1>12, <1>17 DEF Task
  <1>19. To(c, u, k) /\ task'[c].at = v
    BY <1>1, <1>2, <1>4, <1>16, <1>17, <1>18 DEF To, Typed
  <1>20. Heard(u, k) = r
    BY <1>3, <1>18 DEF Heard
  <1>21. ASSUME r.name \notin torn
         PROVE  \E m \in Nat :
           /\ m = Len(t.art) /\ m < Size[r.name] /\ p = Piece(r.name, m + 1)
           /\ \A i \in 1..m : t.art[i] = Piece(r.name, i)
           /\ x = Last255 <=> m + 1 = Size[r.name]
           /\ x # Last255 =>
                \E ch \in [1..Size[r.name] -> Blocks] : Leads(r.name, ch) /\ x = ch[m + 2]
    <2>1. PICK f \in Mounted : f = r.name
      BY <1>6
    <2>2. Halfway(t, f) /\ b = (IF t.number = 0 THEN dir[f] ELSE t.number)
      BY <1>3, <1>4, <1>7, <1>21, <2>1 DEF Talk
    <2>3. \E m \in Nat :
            /\ m = Len(t.art) /\ m < Size[f] /\ piece[b] = Piece(f, m + 1)
            /\ \A i \in 1..m : t.art[i] = Piece(f, i)
            /\ next[b] = Last255 <=> m + 1 = Size[f]
            /\ next[b] # Last255 =>
                 \E ch \in [1..Size[f] -> Blocks] : Leads(f, ch) /\ next[b] = ch[m + 2]
      BY <2>2, NextPiece
    <2>4. QED BY <1>8, <2>1, <2>3
  <1>22. ASSUME r.name \notin torn
         PROVE  \E m \in Nat :
           /\ Len(a) = m + 1 /\ m < Size[r.name]
           /\ \A i \in 1..(m + 1) : a[i] = Piece(r.name, i)
           /\ x = Last255 <=> m + 1 = Size[r.name]
           /\ x # Last255 =>
                \E ch \in [1..Size[r.name] -> Blocks] : Leads(r.name, ch) /\ x = ch[m + 2]
    <2>1. PICK m \in Nat :
           /\ m = Len(t.art) /\ m < Size[r.name] /\ p = Piece(r.name, m + 1)
           /\ \A i \in 1..m : t.art[i] = Piece(r.name, i)
           /\ x = Last255 <=> m + 1 = Size[r.name]
           /\ x # Last255 =>
                \E ch \in [1..Size[r.name] -> Blocks] : Leads(r.name, ch) /\ x = ch[m + 2]
      BY <1>21, <1>22
    <2>2. Len(a) = m + 1 /\ a[m + 1] = p /\ \A i \in 1..m : a[i] = t.art[i]
      BY <1>9, <1>10, <2>1, AppendProperties
    <2>3. ASSUME NEW i \in 1..(m + 1)
          PROVE  a[i] = Piece(r.name, i)
      <3>1. CASE i \in 1..m
        BY <2>1, <2>2, <3>1
      <3>2. CASE i = m + 1
        BY <2>1, <2>2, <3>2
      <3>3. QED BY <3>1, <3>2
    <2>4. QED BY <2>1, <2>2, <2>3
  <1>23. CASE x = Last255
    <2>1. v = "write" /\ o = full
      BY <1>12, <1>13, <1>23
    <2>2. ASSUME r.name \notin torn, k.at # "gone"
          PROVE  Joined(k.got, u.out, Whole(k.request))
      <3>1. Len(a) = Size[r.name] /\ \A i \in 1..Len(a) : a[i] = Piece(r.name, i)
        BY <1>22, <1>23, <2>2
      <3>2. full = Whole(r)
        BY <1>4, <1>6, <1>11, <3>1, FigureJoined
      <3>3. QED BY <1>4, <1>5, <1>18, <2>1, <2>2, <3>2, JoinedFresh
    <2>3. Talk(u, k)
      BY <1>4, <1>5, <1>18, <2>1, <2>2 DEF Talk, Stages
    <2>4. QED BY <1>1, <1>4, <1>12, <1>18, <1>19, <2>3 DEF Moves
  <1>24. CASE x = 0
    <2>1. v = "spins"
      BY <1>12, <1>24 DEF Last255
    <2>2. Talk(u, k)
      BY <1>4, <1>18, <2>1 DEF Talk, Stages
    <2>3. QED BY <1>1, <1>4, <1>12, <1>18, <1>19, <2>2 DEF Moves
  <1>25. CASE x # 0 /\ x # Last255
    <2>1. v = "block" /\ n = x /\ art = a
      BY <1>12, <1>14, <1>15, <1>25
    <2>2. ASSUME r.name \notin torn
          PROVE  Halfway(u, r.name)
      <3>1. PICK m \in Nat :
              /\ Len(a) = m + 1 /\ m < Size[r.name]
              /\ \A i \in 1..(m + 1) : a[i] = Piece(r.name, i)
              /\ x = Last255 <=> m + 1 = Size[r.name]
              /\ x # Last255 =>
                   \E ch \in [1..Size[r.name] -> Blocks] : Leads(r.name, ch) /\ x = ch[m + 2]
        BY <1>22, <2>2
      <3>2. PICK ch \in [1..Size[r.name] -> Blocks] : Leads(r.name, ch) /\ x = ch[m + 2]
        BY <1>25, <3>1
      <3>3. PICK s \in Nat : s = Size[r.name]
        BY <1>6, FiguresTyped
      <3>4. m + 1 < s /\ (m + 1) + 1 = m + 2
        BY <1>25, <3>1, <3>3
      <3>5. a # <<>>
        BY <3>1
      <3>6. QED BY <1>18, <2>1, <3>1, <3>2, <3>3, <3>4, <3>5 DEF Halfway
    <2>3. Talk(u, k)
      BY <1>4, <1>18, <1>20, <2>1, <2>2 DEF Talk, Stages
    <2>4. QED BY <1>1, <1>4, <1>12, <1>18, <1>19, <2>3 DEF Moves
  <1>26. QED BY <1>23, <1>24, <1>25

\* Write sends the next part, to a client that is still there or to nobody.
Sends(c) ==
  /\ task[c].at = "write" /\ task[c].out # <<>>
  /\ task' = [task EXCEPT ![c].out = Tail(@)]
  /\ client' = IF Gone(c) THEN client
               ELSE [client EXCEPT ![c].got = Append(@, Head(task[c].out))]

LEMMA SendsMoves ==
  ASSUME Typed, NEW c \in Conn, Sends(c), Talk(task[c], client[c])
  PROVE  Moves(c) /\ task'[c].at = "write" /\ client'[c].at = client[c].at
  <1>1. PICK t \in Task : t = task[c]
    BY EndsTyped
  <1>2. PICK k \in Client : k = client[c]
    BY EndsTyped
  <1>3. Talk(t, k) /\ t.at = "write" /\ t.out # <<>> /\ t.out \in Seq(Parts) /\ k.got \in Seq(Parts)
    BY <1>1, <1>2 DEF Sends, Task, Client
  <1>4. Tail(t.out) \in Seq(Parts) /\ Head(t.out) \in Parts
    BY <1>3, HeadTailProperties
  <1>5. PICK tl \in Seq(Parts), h \in Parts : tl = Tail(t.out) /\ h = Head(t.out)
    BY <1>4
  <1>6. PICK u : u = [t EXCEPT !.out = tl]
    OBVIOUS
  <1>7. /\ u \in Task /\ u.at = "write" /\ u.got = t.got /\ u.number = t.number
        /\ u.art = t.art /\ u.out = tl
    BY <1>3, <1>5, <1>6 DEF Task
  <1>8. task' = [task EXCEPT ![c] = u] /\ task'[c].at = "write"
    BY <1>1, <1>5, <1>6, <1>7 DEF Sends, Typed
  <1>9. threads /\ life = "serving" /\ k.at \in {"open", "gone"}
        /\ (k.at # "gone" => t.got = Fragments)
    BY <1>3 DEF Talk, Stages
  <1>10. CASE k.at = "gone"
    <2>1. client' = [client EXCEPT ![c] = k] /\ client'[c].at = k.at
      BY <1>2, <1>10 DEF Sends, Gone, Typed
    <2>2. Talk(u, k)
      BY <1>3, <1>7, <1>10 DEF Talk, Stages
    <2>3. QED BY <1>2, <1>7, <1>8, <2>1, <2>2 DEF Moves, To
  <1>11. CASE k.at = "open"
    <2>1. PICK g \in Seq(Parts) : g = Append(k.got, h)
      BY <1>3, AppendProperties
    <2>2. PICK l : l = [k EXCEPT !.got = g]
      OBVIOUS
    <2>3. /\ l \in Client /\ l.at = "open" /\ l.request = k.request /\ l.sent = k.sent
          /\ l.got = g
      BY <1>11, <2>2 DEF Client
    <2>4. client' = [client EXCEPT ![c] = l] /\ client'[c].at = k.at
      BY <1>1, <1>2, <1>5, <1>11, <2>1, <2>2, <2>3 DEF Sends, Gone, Typed
    <2>5. PICK w \in Seq(Parts) : w = Whole(k.request)
      BY WholeTyped DEF Client
    <2>6. ASSUME k.request.name \notin torn
          PROVE  Joined(g, tl, w) /\ Begins(g, w)
      <3>1. Joined(k.got, t.out, w)
        BY <1>3, <1>11, <2>5, <2>6 DEF Talk
      <3>2. Joined(g, tl, w)
        BY <1>3, <1>5, <2>1, <3>1, JoinedMoves
      <3>3. QED BY <3>2, JoinedBegins
    <2>7. Owed(k.request) = {w}
      BY <1>9, <2>5 DEF Owed
    <2>8. l.request.name \notin torn =>
            /\ Joined(l.got, u.out, Whole(l.request))
            /\ \E owed \in Owed(l.request) :
                 Begins(l.got, owed) /\ (l.at = "done" => l.got = owed)
      BY <1>7, <2>3, <2>5, <2>6, <2>7
    <2>9. u.got <= l.sent /\ u.got = Fragments
      BY <1>3, <1>7, <1>9, <1>11, <2>3 DEF Talk
    <2>10. Talk(u, l)
      BY <1>7, <1>9, <2>3, <2>8, <2>9 DEF Talk, Stages
    <2>11. QED BY <1>2, <1>7, <1>8, <2>3, <2>4, <2>10 DEF Moves, To
  <1>12. QED BY <1>9, <1>10, <1>11

LEMMA CloseMoves ==
  ASSUME Typed, NEW c \in Conn, Close(c), Talk(task[c], client[c])
  PROVE  Moves(c) /\ task'[c].at = "closed" /\ task[c].at = "write"
  <1>1. PICK t \in Task : t = task[c]
    BY EndsTyped
  <1>2. PICK k \in Client : k = client[c]
    BY EndsTyped
  <1>3. /\ Talk(t, k) /\ t.at = "write" /\ t.out = <<>> /\ k.got \in Seq(Parts)
        /\ t.out \in Seq(Parts) /\ task' = [task EXCEPT ![c].at = "closed"]
    BY <1>1, <1>2 DEF Close, Task, Client
  <1>4. PICK u : u = [t EXCEPT !.at = "closed"]
    OBVIOUS
  <1>5. /\ u \in Task /\ u.at = "closed" /\ u.got = t.got /\ u.number = t.number
        /\ u.art = t.art
    BY <1>4, TaskAt
  <1>6. task' = [task EXCEPT ![c] = u] /\ task'[c].at = "closed"
    BY <1>1, <1>3, <1>4, <1>5 DEF Typed
  <1>7. threads /\ life = "serving" /\ k.at \in {"open", "gone"}
    BY <1>3 DEF Talk, Stages
  <1>8. CASE k.at = "gone"
    <2>1. client' = [client EXCEPT ![c] = k]
      BY <1>2, <1>8 DEF Close, Gone, Typed
    <2>2. Talk(u, k)
      BY <1>3, <1>5, <1>7, <1>8 DEF Talk, Stages
    <2>3. QED BY <1>1, <1>3, <1>5, <1>6, <2>1, <2>2 DEF Moves, To
  <1>9. CASE k.at = "open"
    <2>1. PICK l : l = [k EXCEPT !.at = "done"]
      OBVIOUS
    <2>2. /\ l \in Client /\ l.at = "done" /\ l.request = k.request /\ l.sent = k.sent
          /\ l.got = k.got
      BY <2>1, ClientAt
    <2>3. client' = [client EXCEPT ![c] = l]
      BY <1>2, <1>9, <2>1 DEF Close, Gone, Typed
    <2>4. PICK w \in Seq(Parts) : w = Whole(k.request)
      BY WholeTyped DEF Client
    <2>5. ASSUME k.request.name \notin torn
          PROVE  k.got = w /\ Begins(k.got, w)
      <3>1. Joined(k.got, t.out, w)
        BY <1>3, <1>9, <2>4, <2>5 DEF Talk
      <3>2. QED BY <1>3, <3>1, JoinedBegins
    <2>6. Owed(k.request) = {w}
      BY <1>7, <2>4 DEF Owed
    <2>7. Talk(u, l)
      BY <1>3, <1>5, <1>7, <2>2, <2>5, <2>6 DEF Talk, Stages
    <2>8. QED BY <1>1, <1>3, <1>5, <1>6, <2>2, <2>3, <2>7 DEF Moves, To
  <1>10. QED BY <1>7, <1>8, <1>9

-----------------------------------------------------------------------------
(* What a step of one connection leaves alone                              *)

\* Only the connection c moves.
Only(c) == \A d \in Conn \ {c} : task'[d] = task[d] /\ client'[d] = client[d]

LEMMA MovesOnly ==
  ASSUME Typed, NEW c \in Conn, Moves(c), \A d \in Conn : Talk(task[d], client[d]),
         UNCHANGED <<threads, life, dir, next, piece, torn>>
  PROVE  /\ task' \in [Conn -> Task] /\ client' \in [Conn -> Client] /\ Only(c)
         /\ (\A d \in Conn : Talk(task[d], client[d]))'
  <1>1. PICK t \in Task, k \in Client : To(c, t, k) /\ Talk(t, k)
    BY DEF Moves
  <1>2. task \in [Conn -> Task] /\ client \in [Conn -> Client]
    BY DEF Typed
  <1>3. /\ task' \in [Conn -> Task] /\ client' \in [Conn -> Client]
        /\ task'[c] = t /\ client'[c] = k /\ Only(c)
    BY <1>1, <1>2 DEF To, Only
  <1>4. ASSUME NEW d \in Conn
        PROVE  Talk(task[d], client[d])'
    <2>1. PICK u \in Task, l \in Client : u = task'[d] /\ l = client'[d]
      BY <1>3
    <2>2. Talk(u, l)
      BY <1>1, <1>3, <2>1 DEF Only
    <2>3. Talk(u, l)'
      BY <2>2, TalkKept
    <2>4. QED BY <2>1, <2>3
  <1>5. QED BY <1>3, <1>4

LEMMA QueueKept ==
  ASSUME Typed, Queued, NEW c \in Conn, Only(c), queue' = queue,
         task[c].at = "none" /\ client[c].at \in {"connecting", "gone"} =>
           task'[c].at = "none" /\ client'[c].at \in {"connecting", "gone"}
  PROVE  Queued'
  <1>1. PICK q \in Seq(Conn) : q = queue /\ q = queue'
    BY DEF Typed
  <1>2. ASSUME NEW i \in 1..Len(q)
        PROVE  task'[q[i]].at = "none" /\ client'[q[i]].at \in {"connecting", "gone"}
    <2>1. PICK d \in Conn : d = q[i]
      OBVIOUS
    <2>2. task[d].at = "none" /\ client[d].at \in {"connecting", "gone"}
      BY <1>1, <2>1 DEF Queued
    <2>3. task'[d].at = "none" /\ client'[d].at \in {"connecting", "gone"}
      BY <2>2 DEF Only
    <2>4. QED BY <2>1, <2>3
  <1>3. QED BY <1>1, <1>2 DEF Queued

\* How many are served, by threads or by processes.
LEMMA CountsTyped ==
  ASSUME Typed
  PROVE  /\ IsFiniteSet(Serving) /\ Cardinality(Serving) \in Nat
         /\ IsFiniteSet(Children) /\ Cardinality(Children) \in Nat
  <1>1. Serving \in SUBSET Conn /\ Children \in SUBSET Conn
    BY DEF Serving, Children
  <1>2. IsFiniteSet(Serving) /\ IsFiniteSet(Children)
    BY <1>1, Limits, FS_Subset
  <1>3. QED BY <1>2, FS_CardinalityType

LEMMA CountsMove ==
  ASSUME Typed, NEW c \in Conn, \A d \in Conn \ {c} : task'[d] = task[d]
  PROVE  /\ (task[c].at \in Stages <=> task'[c].at \in Stages) => Serving' = Serving
         /\ task[c].at \notin Stages /\ task'[c].at \in Stages =>
              Cardinality(Serving') = Cardinality(Serving) + 1
         /\ task[c].at \in Stages /\ task'[c].at \notin Stages =>
              Cardinality(Serving') = Cardinality(Serving) - 1
         /\ (task[c].at \in {"hear", "echo"} <=> task'[c].at \in {"hear", "echo"}) =>
              Children' = Children
         /\ task[c].at \notin {"hear", "echo"} /\ task'[c].at \in {"hear", "echo"} =>
              Cardinality(Children') = Cardinality(Children) + 1
         /\ task[c].at \in {"hear", "echo"} /\ task'[c].at \notin {"hear", "echo"} =>
              Cardinality(Children') = Cardinality(Children) - 1
  <1>1. PICK S, H : S = Serving /\ H = Children /\ IsFiniteSet(S) /\ IsFiniteSet(H)
    BY CountsTyped
  <1>2. ASSUME task[c].at \in Stages <=> task'[c].at \in Stages
        PROVE  Serving' = Serving
    BY <1>2 DEF Serving
  <1>3. ASSUME task[c].at \notin Stages, task'[c].at \in Stages
        PROVE  Cardinality(Serving') = Cardinality(Serving) + 1
    <2>1. Serving' = S \cup {c} /\ c \notin S
      BY <1>1, <1>3 DEF Serving
    <2>2. QED BY <1>1, <2>1, FS_AddElement
  <1>4. ASSUME task[c].at \in Stages, task'[c].at \notin Stages
        PROVE  Cardinality(Serving') = Cardinality(Serving) - 1
    <2>1. Serving' = S \ {c} /\ c \in S
      BY <1>1, <1>4 DEF Serving
    <2>2. QED BY <1>1, <2>1, FS_RemoveElement
  <1>5. ASSUME task[c].at \in {"hear", "echo"} <=> task'[c].at \in {"hear", "echo"}
        PROVE  Children' = Children
    BY <1>5 DEF Children
  <1>6. ASSUME task[c].at \notin {"hear", "echo"}, task'[c].at \in {"hear", "echo"}
        PROVE  Cardinality(Children') = Cardinality(Children) + 1
    <2>1. Children' = H \cup {c} /\ c \notin H
      BY <1>1, <1>6 DEF Children
    <2>2. QED BY <1>1, <2>1, FS_AddElement
  <1>7. ASSUME task[c].at \in {"hear", "echo"}, task'[c].at \notin {"hear", "echo"}
        PROVE  Cardinality(Children') = Cardinality(Children) - 1
    <2>1. Children' = H \ {c} /\ c \in H
      BY <1>1, <1>7 DEF Children
    <2>2. QED BY <1>1, <2>1, FS_RemoveElement
  <1>8. QED BY <1>2, <1>3, <1>4, <1>5, <1>6, <1>7

\* Nobody is served unless the server serves.
LEMMA NobodyServed ==
  ASSUME \A c \in Conn : Talk(task[c], client[c]), life # "serving"
  PROVE  Serving = {} /\ Children = {} /\ \A c \in Conn : task[c].at = "none"
  BY DEF Talk, Serving, Children, Stages

\* The steps that change neither the disk nor whether the server serves.
LEMMA QuietStep ==
  ASSUME PieceInv, NEW c \in Conn, Moves(c),
         UNCHANGED <<threads, starts, life, diskVars, step, torn>>,
         fds' \in Nat, found' \in Nat, zombies' \in Nat, queue' \in Seq(Conn),
         Only(c) => Account' /\ Queued'
  PROVE  PieceInv'
  <1>1. Typed /\ DiskInv /\ \A d \in Conn : Talk(task[d], client[d])
    BY DEF PieceInv
  <1>2. UNCHANGED <<threads, life, dir, next, piece, counter, step, torn>>
    BY DEF diskVars
  <1>3. /\ task' \in [Conn -> Task] /\ client' \in [Conn -> Client] /\ Only(c)
        /\ (\A d \in Conn : Talk(task[d], client[d]))'
    BY <1>1, <1>2, MovesOnly
  <1>4. Typed'
    BY <1>1, <1>2, <1>3 DEF Typed
  <1>5. DiskInv'
    BY <1>1, DiskSame
  <1>6. QED BY <1>3, <1>4, <1>5 DEF PieceInv

\* Those that leave the account alone, too.
LEMMA AccountSame ==
  ASSUME Typed, Account, NEW c \in Conn, Only(c), UNCHANGED <<life, step, fds, found, zombies>>,
         task[c].at \in Stages <=> task'[c].at \in Stages,
         task[c].at \in {"hear", "echo"} <=> task'[c].at \in {"hear", "echo"}
  PROVE  Account'
  <1>1. Serving' = Serving /\ Children' = Children
    BY CountsMove DEF Only
  <1>2. MountDone' = MountDone
    BY DEF MountDone
  <1>3. QED BY <1>1, <1>2 DEF Account

(* A step of one connection that opens and closes nothing.                  *)
LEMMA PlainStep ==
  ASSUME PieceInv, NEW c \in Conn, Moves(c), NetUnchanged,
         UNCHANGED <<fds, found, zombies, queue>>,
         task[c].at \in Stages <=> task'[c].at \in Stages,
         task[c].at \in {"hear", "echo"} <=> task'[c].at \in {"hear", "echo"},
         task[c].at = "none" /\ client[c].at \in {"connecting", "gone"} =>
           task'[c].at = "none" /\ client'[c].at \in {"connecting", "gone"}
  PROVE  PieceInv'
  <1>1. Typed /\ Account /\ Queued
    BY DEF PieceInv
  <1>2. UNCHANGED <<threads, starts, life, diskVars, step, torn>>
    BY DEF NetUnchanged
  <1>3. fds' \in Nat /\ found' \in Nat /\ zombies' \in Nat /\ queue' \in Seq(Conn)
    BY <1>1 DEF Typed
  <1>4. ASSUME Only(c)
        PROVE  Account' /\ Queued'
    BY <1>1, <1>2, <1>4, AccountSame, QueueKept
  <1>5. QED BY <1>2, <1>3, <1>4, QuietStep

LEMMA ConnectStep ==
  ASSUME PieceInv, NEW c \in Conn, Connect(c)
  PROVE  PieceInv'
  <1>1. Typed /\ Account /\ Queued /\ Talk(task[c], client[c])
    BY DEF PieceInv
  <1>2. /\ Moves(c) /\ task' = task /\ client'[c].at = "connecting"
        /\ client[c].at = "idle" /\ Len(queue) < Backlog /\ queue' = Append(queue, c)
    BY <1>1, ConnectMoves DEF Connect
  <1>3. UNCHANGED <<threads, starts, life, diskVars, step, torn, fds, found, zombies>>
    BY DEF Connect, NetUnchanged
  <1>4. PICK q \in Seq(Conn) : q = queue
    BY <1>1 DEF Typed
  <1>5. /\ Append(q, c) \in Seq(Conn) /\ Len(Append(q, c)) = Len(q) + 1
        /\ \A i \in 1..Len(q) : Append(q, c)[i] = q[i]
        /\ Append(q, c)[Len(q) + 1] = c
    BY AppendProperties
  <1>6. PICK r \in Seq(Conn) : r = Append(q, c)
    BY <1>5
  <1>7. fds' \in Nat /\ found' \in Nat /\ zombies' \in Nat /\ queue' \in Seq(Conn)
    BY <1>1, <1>2, <1>3, <1>4, <1>5 DEF Typed
  <1>8. task[c].at = "none"
    BY <1>1, <1>2 DEF Talk
  <1>9. ASSUME NEW i \in 1..Len(q)
        PROVE  /\ q[i] \in Conn /\ q[i] # c /\ task[q[i]].at = "none"
               /\ client[q[i]].at \in {"connecting", "gone"}
    <2>1. task[q[i]].at = "none" /\ client[q[i]].at \in {"connecting", "gone"}
      BY <1>1, <1>4 DEF Queued
    <2>2. QED BY <1>2, <2>1
  <1>10. IsInjective(q)
    BY <1>1, <1>4 DEF Queued
  <1>11. PICK n \in Nat : n = Len(q)
    OBVIOUS
  <1>12. IsInjective(r)
    <2>1. DOMAIN r = 1..(n + 1) /\ DOMAIN q = 1..n
      BY <1>5, <1>6, <1>11
    <2>2. r[n + 1] = c /\ \A i \in 1..n : r[i] = q[i] /\ r[i] # c
      BY <1>5, <1>6, <1>9, <1>11
    <2>3. \A i, j \in 1..n : q[i] = q[j] => i = j
      BY <1>10, <2>1 DEF IsInjective
    <2>4. ASSUME NEW i \in 1..(n + 1), NEW j \in 1..(n + 1), r[i] = r[j]
          PROVE  i = j
      <3>1. (i \in 1..n \/ i = n + 1) /\ (j \in 1..n \/ j = n + 1)
        OBVIOUS
      <3>2. QED BY <2>2, <2>3, <2>4, <3>1
    <2>5. QED BY <2>1, <2>4 DEF IsInjective
  <1>13. ASSUME Only(c)
         PROVE  Account' /\ Queued'
    <2>1. Account'
      BY <1>1, <1>2, <1>3, <1>13, AccountSame
    <2>2. Len(r) <= Backlog
      <3>1. n < Backlog /\ Len(r) = n + 1 /\ Backlog \in Nat
        BY <1>2, <1>4, <1>5, <1>6, <1>11, Limits
      <3>2. QED BY <3>1
    <2>3. ASSUME NEW i \in 1..Len(r)
          PROVE  task'[r[i]].at = "none" /\ client'[r[i]].at \in {"connecting", "gone"}
      <3>1. i \in 1..n \/ i = n + 1
        BY <1>5, <1>6, <1>11
      <3>2. CASE i \in 1..n
        <4>1. PICK d \in Conn : d = q[i] /\ d = r[i]
          BY <1>5, <1>6, <1>9, <1>11, <3>2
        <4>2. d # c /\ task[d].at = "none" /\ client[d].at \in {"connecting", "gone"}
          BY <1>9, <1>11, <3>2, <4>1
        <4>3. task'[d] = task[d] /\ client'[d] = client[d]
          BY <1>13, <4>2 DEF Only
        <4>4. QED BY <4>1, <4>2, <4>3
      <3>3. CASE i = n + 1
        <4>1. r[i] = c
          BY <1>5, <1>6, <1>11, <3>3
        <4>2. QED BY <1>2, <1>8, <4>1
      <3>4. QED BY <3>1, <3>2, <3>3
    <2>4. queue' = r
      BY <1>2, <1>4, <1>6
    <2>5. QED BY <1>12, <2>1, <2>2, <2>3, <2>4 DEF Queued
  <1>14. QED BY <1>2, <1>3, <1>7, <1>13, QuietStep

LEMMA ClientStep ==
  ASSUME PieceInv, NEW c \in Conn, SendFragment(c) \/ Leave(c)
  PROVE  PieceInv'
  <1>1. Typed /\ Talk(task[c], client[c])
    BY DEF PieceInv
  <1>2. NetUnchanged /\ UNCHANGED <<fds, found, zombies, queue>>
    BY DEF SendFragment, Leave
  <1>3. Moves(c) /\ task' = task /\ client'[c].at \in {client[c].at, "gone"}
    BY <1>1, SendMoves, LeaveMoves
  <1>4. QED BY <1>2, <1>3, PlainStep

LEMMA AcceptStep ==
  ASSUME PieceInv, Accept
  PROVE  PieceInv'
  <1>1. Typed /\ Account /\ Queued
    BY DEF PieceInv
  <1>2. /\ queue # <<>> /\ life = "serving" /\ queue' = Tail(queue)
        /\ fds < MaxFd
    BY DEF Accept, AcceptThread, AcceptProcess
  <1>3. PICK c \in Conn : c = Head(queue)
    BY <1>1, <1>2, FirstQueued
  <1>4. task[c].at = "none" /\ Talk(task[c], client[c])
    BY <1>1, <1>2, <1>3, FirstQueued DEF PieceInv
  <1>5. UNCHANGED <<threads, starts, life, diskVars, step, torn, found, zombies>>
    BY DEF Accept, AcceptThread, AcceptProcess, NetUnchanged
  <1>6. PICK r \in Seq(Conn) : r = Tail(queue)
    BY <1>1, <1>2, FirstQueued
  <1>7. /\ IsInjective(r) /\ Len(r) <= Backlog
        /\ \A i \in 1..Len(r) :
             /\ r[i] \in Conn /\ r[i] # c /\ task[r[i]].at = "none"
             /\ client[r[i]].at \in {"connecting", "gone"}
    BY <1>1, <1>2, <1>3, <1>6, FirstQueued
  <1>8. ASSUME Only(c)
        PROVE  Queued'
    <2>1. ASSUME NEW i \in 1..Len(r)
          PROVE  task'[r[i]].at = "none" /\ client'[r[i]].at \in {"connecting", "gone"}
      <3>1. PICK d \in Conn \ {c} : d = r[i]
        BY <1>7
      <3>2. task'[d] = task[d] /\ client'[d] = client[d]
        BY <1>8, <3>1 DEF Only
      <3>3. QED BY <1>7, <3>1, <3>2
    <2>2. queue' = r
      BY <1>2, <1>6
    <2>3. QED BY <1>7, <2>1, <2>2 DEF Queued
  <1>9. PICK s, h \in Nat : s = Cardinality(Serving) /\ h = Cardinality(Children)
    BY <1>1, CountsTyped
  <1>10. PICK d \in Nat : d = fds
    BY <1>1 DEF Typed
  <1>11. PICK g \in Nat : g = found
    BY <1>1 DEF Typed
  <1>12. PICK z \in Nat : z = zombies
    BY <1>1 DEF Typed
  <1>13. d = 1 + s + g /\ d < MaxFd /\ h + z <= MaxProc /\ MaxFd \in Nat /\ MaxProc \in Nat
    BY <1>1, <1>2, <1>9, <1>10, <1>11, <1>12, Limits DEF Account
  <1>14. queue' \in Seq(Conn) /\ found' = g /\ zombies' = z
    BY <1>2, <1>5, <1>6, <1>11, <1>12
  <1>15. CASE AcceptThread
    <2>1. Moves(c) /\ task'[c].at = "read" /\ fds' = d + 1
      BY <1>1, <1>3, <1>4, <1>10, <1>15, AcceptThreadMoves DEF AcceptThread, WaitForConnection
    <2>2. ASSUME Only(c)
          PROVE  Account'
      <3>1. Cardinality(Serving') = Cardinality(Serving) + 1 /\ Children' = Children
        BY <1>1, <1>4, <2>1, <2>2, CountsMove DEF Only, Stages
      <3>2. d + 1 <= MaxFd /\ d + 1 = 1 + (s + 1) + g
        BY <1>13
      <3>3. life' = "serving"
        BY <1>2, <1>5
      <3>4. QED BY <1>9, <1>12, <1>13, <1>14, <2>1, <3>1, <3>2, <3>3 DEF Account
    <2>3. fds' \in Nat
      BY <2>1
    <2>4. QED BY <1>5, <1>8, <1>14, <2>1, <2>2, <2>3, QuietStep
  <1>16. CASE AcceptProcess
    <2>1. /\ Moves(c) /\ fds' = d
          /\ task'[c].at = IF h + z < MaxProc THEN "hear" ELSE "closed"
      BY <1>1, <1>3, <1>4, <1>9, <1>10, <1>12, <1>16, AcceptProcessMoves
         DEF AcceptProcess, NetUnchanged
    <2>2. ASSUME Only(c)
          PROVE  Account'
      <3>1. Serving' = Serving
        BY <1>1, <1>4, <2>1, <2>2, CountsMove DEF Only, Stages
      <3>2. h + z < MaxProc => Cardinality(Children') = h + 1
        BY <1>1, <1>4, <1>9, <2>1, <2>2, CountsMove DEF Only
      <3>3. ~(h + z < MaxProc) => Children' = Children
        BY <1>1, <1>4, <2>1, <2>2, CountsMove DEF Only
      <3>4. PICK hh \in Nat : hh = Cardinality(Children') /\ hh + z <= MaxProc
        BY <1>9, <1>13, <3>2, <3>3
      <3>5. life' = "serving"
        BY <1>2, <1>5
      <3>6. QED BY <1>9, <1>13, <1>14, <2>1, <3>1, <3>4, <3>5 DEF Account
    <2>3. fds' \in Nat
      BY <2>1
    <2>4. QED BY <1>5, <1>8, <1>14, <2>1, <2>2, <2>3, QuietStep
  <1>17. QED BY <1>15, <1>16 DEF Accept

LEMMA ReadStep ==
  ASSUME PieceInv, NEW c \in Conn,
         ReadSome(c) \/ ReadEnd(c) \/ Respond(c) \/ extractBlock(c) \/ Hear(c)
  PROVE  PieceInv'
  <1>1. Typed /\ DiskInv /\ Talk(task[c], client[c])
    BY DEF PieceInv
  <1>2. NetUnchanged /\ UNCHANGED <<fds, found, zombies, queue>>
    BY DEF ReadSome, ReadEnd, Respond, extractBlock, Hear
  <1>3. CASE Hear(c)
    <2>1. Moves(c) /\ task'[c].at = "echo" /\ task[c].at = "hear"
      BY <1>1, <1>3, HearMoves
    <2>2. QED BY <1>2, <2>1, PlainStep DEF Stages
  <1>4. CASE ~Hear(c)
    <2>1. Moves(c) /\ task[c].at \in Stages /\ task'[c].at \in Stages
      BY <1>1, <1>4, ReadSomeMoves, ReadEndMoves, RespondMoves, ExtractMoves DEF Stages
    <2>2. QED BY <1>2, <2>1, PlainStep DEF Stages
  <1>5. QED BY <1>3, <1>4

LEMMA EchoStep ==
  ASSUME PieceInv, NEW c \in Conn, Echo(c)
  PROVE  PieceInv'
  <1>1. Typed /\ Account /\ Queued /\ Talk(task[c], client[c])
    BY DEF PieceInv
  <1>2. Moves(c) /\ task'[c].at = "closed" /\ task[c].at = "echo"
    BY <1>1, EchoMoves
  <1>3. life = "serving"
    BY <1>1, <1>2 DEF Talk
  <1>4. /\ UNCHANGED <<threads, starts, life, diskVars, step, torn, fds, found, queue>>
        /\ zombies' = zombies + 1
    BY DEF Echo, NetUnchanged
  <1>5. fds' \in Nat /\ found' \in Nat /\ zombies' \in Nat /\ queue' \in Seq(Conn)
    BY <1>1, <1>4 DEF Typed
  <1>6. ASSUME Only(c)
        PROVE  Account' /\ Queued'
    <2>1. Serving' = Serving /\ Cardinality(Children') = Cardinality(Children) - 1
      BY <1>1, <1>2, <1>6, CountsMove DEF Only, Stages
    <2>2. Cardinality(Children) \in Nat /\ zombies \in Nat
      BY <1>1, CountsTyped DEF Typed
    <2>3. Cardinality(Children) + zombies <= MaxProc
      BY <1>1 DEF Account
    <2>4. Cardinality(Children') + zombies' <= MaxProc
      BY <1>4, <2>1, <2>2, <2>3, Limits
    <2>5. Account'
      BY <1>1, <1>3, <1>4, <2>1, <2>4 DEF Account
    <2>6. Queued'
      BY <1>1, <1>2, <1>4, <1>6, QueueKept
    <2>7. QED BY <2>5, <2>6
  <1>7. QED BY <1>2, <1>4, <1>5, <1>6, QuietStep

LEMMA FoundStep ==
  ASSUME PieceInv, NEW c \in Conn, task[c].at = "handle", Translated(c).kind = "GET",
         Found(c), fds < MaxFd, fds' = fds + 1, found' = found + 1,
         UNCHANGED <<threads, starts, life, diskVars, step, torn, zombies, queue>>
  PROVE  PieceInv'
  <1>1. Typed /\ DiskInv /\ Account /\ Queued /\ Talk(task[c], client[c])
    BY DEF PieceInv
  <1>2. Moves(c) /\ task'[c].at = "block" /\ life = "serving"
    BY <1>1, FoundMoves DEF Talk
  <1>3. /\ fds \in Nat /\ found \in Nat /\ fds' \in Nat /\ found' \in Nat /\ zombies' \in Nat
        /\ queue' \in Seq(Conn)
    BY <1>1 DEF Typed
  <1>4. ASSUME Only(c)
        PROVE  Account' /\ Queued'
    <2>1. Serving' = Serving /\ Children' = Children
      BY <1>1, <1>2, <1>4, CountsMove DEF Only, Stages
    <2>2. PICK s \in Nat : s = Cardinality(Serving)
      BY <1>1, CountsTyped
    <2>3. fds = 1 + s + found
      BY <1>1, <1>2, <2>2 DEF Account
    <2>4. fds' <= MaxFd /\ fds' = 1 + s + found'
      BY <1>3, <2>3, Limits
    <2>5. Account'
      BY <1>1, <1>2, <2>1, <2>2, <2>4 DEF Account
    <2>6. Queued'
      BY <1>1, <1>4, QueueKept
    <2>7. QED BY <2>5, <2>6
  <1>5. QED BY <1>2, <1>3, <1>4, QuietStep

LEMMA NotFoundStep ==
  ASSUME PieceInv, NEW c \in Conn, task[c].at = "handle", Translated(c).kind = "GET",
         NotFound(c), NetUnchanged, UNCHANGED <<fds, found, zombies, queue>>
  PROVE  PieceInv'
  <1>1. Typed /\ DiskInv /\ Talk(task[c], client[c])
    BY DEF PieceInv
  <1>2. Moves(c) /\ task'[c].at = "write"
    BY <1>1, NotFoundMoves
  <1>3. QED BY <1>2, PlainStep DEF Stages

LEMMA SendsStep ==
  ASSUME PieceInv, NEW c \in Conn, Sends(c), NetUnchanged,
         UNCHANGED <<fds, found, zombies, queue>>
  PROVE  PieceInv'
  <1>1. Typed /\ Talk(task[c], client[c]) /\ task[c].at = "write"
    BY DEF PieceInv, Sends
  <1>2. Moves(c) /\ task'[c].at = "write"
    BY <1>1, SendsMoves
  <1>3. QED BY <1>1, <1>2, PlainStep DEF Stages

LEMMA CloseStep ==
  ASSUME PieceInv, NEW c \in Conn, Close(c)
  PROVE  PieceInv'
  <1>1. Typed /\ Account /\ Queued /\ Talk(task[c], client[c])
    BY DEF PieceInv
  <1>2. Moves(c) /\ task'[c].at = "closed" /\ task[c].at = "write"
    BY <1>1, CloseMoves
  <1>3. life = "serving"
    BY <1>1, <1>2 DEF Talk
  <1>4. /\ UNCHANGED <<threads, starts, life, diskVars, step, torn, found, zombies, queue>>
        /\ fds' = fds - 1
    BY DEF Close, NetUnchanged
  <1>5. PICK S : S = Serving /\ IsFiniteSet(S) /\ c \in S
    BY <1>1, <1>2, CountsTyped DEF Serving, Stages
  <1>6. Cardinality(S) \in Nat \ {0}
    BY <1>5, FS_CardinalityType, FS_EmptySet
  <1>7. PICK s \in Nat \ {0} : s = Cardinality(Serving)
    BY <1>5, <1>6
  <1>8. fds = 1 + s + found /\ fds \in Nat /\ found \in Nat /\ fds <= MaxFd
    BY <1>1, <1>3, <1>7 DEF Account, Typed
  <1>9. fds' \in Nat /\ fds' = 1 + (s - 1) + found /\ fds' <= MaxFd
    BY <1>4, <1>8, Limits
  <1>10. found' \in Nat /\ zombies' \in Nat /\ queue' \in Seq(Conn)
    BY <1>1, <1>4 DEF Typed
  <1>11. ASSUME Only(c)
         PROVE  Account' /\ Queued'
    <2>1. Children' = Children /\ Cardinality(Serving') = Cardinality(Serving) - 1
      BY <1>1, <1>2, <1>11, CountsMove DEF Only, Stages
    <2>2. fds' = 1 + Cardinality(Serving') + found'
      BY <1>4, <1>7, <1>9, <2>1
    <2>3. Account'
      BY <1>1, <1>3, <1>4, <1>9, <2>1, <2>2 DEF Account
    <2>4. Queued'
      BY <1>1, <1>2, <1>4, <1>11, QueueKept
    <2>5. QED BY <2>3, <2>4
  <1>12. QED BY <1>2, <1>4, <1>9, <1>10, <1>11, QuietStep

-----------------------------------------------------------------------------
(* The server ends, starts again, and mounts.                              *)

LEMMA DiesStep ==
  ASSUME PieceInv, Dies, life # "dead", UNCHANGED <<threads, starts, diskVars, step>>,
         torn' = IF Writing THEN torn \cup {Figure} ELSE torn
  PROVE  PieceInv'
  <1>1. Typed /\ DiskInv /\ \A c \in Conn : Talk(task[c], client[c])
    BY DEF PieceInv
  <1>2. /\ life' = "dead" /\ fds' = 0 /\ found' = 0 /\ zombies' = 0 /\ queue' = <<>>
        /\ task' = [c \in Conn |-> NoTask] /\ torn \subseteq torn'
        /\ client' = [c \in Conn |-> IF Connected(c) THEN [client[c] EXCEPT !.at = "reset"]
                                     ELSE client[c]]
    BY DEF Dies
  <1>3. ASSUME NEW c \in Conn
        PROVE  /\ task'[c] = NoTask /\ client'[c] \in Client /\ Talk(task[c], client[c])'
    <2>1. PICK t \in Task : t = task[c]
      BY <1>1, EndsTyped
    <2>2. PICK k \in Client : k = client[c]
      BY <1>1, EndsTyped
    <2>3. PICK l : l = IF k.at \in {"connecting", "open"} THEN [k EXCEPT !.at = "reset"] ELSE k
      OBVIOUS
    <2>4. l \in Client
      BY <2>3, ClientAt
    <2>5. task'[c] = NoTask /\ client'[c] = l
      BY <1>2, <2>2, <2>3 DEF Connected
    <2>6. Talk(t, k)
      BY <1>1, <2>1, <2>2
    <2>7. Talk(NoTask, l)'
      BY <1>2, <2>3, <2>4, <2>6, TalkCut
    <2>8. QED BY <2>4, <2>5, <2>7
  <1>4. NoTask \in Task
    <2>1. <<>> \in Seq(Parts) /\ 0 \in 0..Fragments
      BY Limits
    <2>2. QED BY <2>1 DEF NoTask, Task
  <1>5. client' \in [Conn -> Client] /\ task' \in [Conn -> Task]
    BY <1>2, <1>3, <1>4
  <1>6. torn' \subseteq Mounted
    BY <1>1, FigureIs DEF Typed, Writing
  <1>7. <<>> \in Seq(Conn)
    OBVIOUS
  <1>8. Typed'
    BY <1>1, <1>2, <1>5, <1>6, <1>7 DEF Typed, diskVars
  <1>9. DiskInv'
    <2>1. ~Writing'
      BY <1>2 DEF Writing, Mounting
    <2>2. QED BY <1>1, <1>2, <2>1, DiskQuiet
  <1>10. Account'
    <2>1. Children' = {}
      BY <1>3 DEF Children, NoTask
    <2>2. Cardinality(Children') = 0
      BY <2>1, FS_EmptySet
    <2>3. fds' <= MaxFd /\ Cardinality(Children') + zombies' <= MaxProc
      BY <1>2, <2>2, Limits
    <2>4. ~MountDone'
      BY <1>2 DEF MountDone
    <2>5. QED BY <1>2, <2>3, <2>4 DEF Account
  <1>11. Queued'
    <2>1. IsInjective(<<>>) /\ Len(<<>>) = 0
      BY DEF IsInjective
    <2>2. \A i \in 1..Len(<<>>) : FALSE
      BY <2>1
    <2>3. QED BY <1>2, <2>1, <2>2, Limits DEF Queued
  <1>12. QED BY <1>3, <1>8, <1>9, <1>10, <1>11 DEF PieceInv

(* What a start and a step of MountSystem leave of the connections.         *)
LEMMA MountKeeps ==
  ASSUME PieceInv, life # "serving", UNCHANGED <<threads, torn, found, zombies, queue, task, client>>
  PROVE  /\ (\A c \in Conn : Talk(task[c], client[c]))' /\ Queued'
         /\ found' = 0 /\ zombies' = 0 /\ Serving' = {} /\ Children' = {}
         /\ Cardinality(Serving') = 0 /\ Cardinality(Children') = 0
         /\ fds = IF MountDone /\ step.part > 0 THEN 1 ELSE 0
  <1>1. Typed /\ Account /\ Queued /\ \A c \in Conn : Talk(task[c], client[c])
    BY DEF PieceInv
  <1>2. Serving = {} /\ Children = {} /\ \A c \in Conn : task[c].at = "none"
    BY <1>1, NobodyServed
  <1>3. ASSUME NEW c \in Conn
        PROVE  Talk(task[c], client[c])'
    <2>1. PICK t, k : t = task[c] /\ k = client[c]
      OBVIOUS
    <2>2. Talk(t, k) /\ t.at = "none"
      BY <1>1, <1>2, <2>1
    <2>3. Talk(t, k)'
      BY <2>2, TalkIdle
    <2>4. QED BY <2>1, <2>3
  <1>4. Serving' = {} /\ Children' = {}
    BY <1>2 DEF Serving, Children
  <1>5. Queued'
    BY <1>1 DEF Queued
  <1>6. found = 0 /\ zombies = 0 /\ fds = IF MountDone /\ step.part > 0 THEN 1 ELSE 0
    BY <1>1 DEF Account
  <1>7. QED BY <1>3, <1>4, <1>5, <1>6, FS_EmptySet

LEMMA StartStep ==
  ASSUME PieceInv, Start
  PROVE  PieceInv'
  <1>1. Typed /\ DiskInv
    BY DEF PieceInv
  <1>2. /\ life # "serving" /\ ~Mounting /\ ~Writing /\ ~MountDone /\ life' = "mounting"
        /\ step' = [figure |-> 1, part |-> 0, block |-> 0]
        /\ UNCHANGED <<threads, diskVars, torn, fds, found, zombies, queue, task, client>>
    BY DEF Start, Mounting, Writing, MountDone
  <1>3. /\ (\A c \in Conn : Talk(task[c], client[c]))' /\ Queued'
        /\ found' = 0 /\ zombies' = 0 /\ Cardinality(Children') = 0 /\ fds = 0
    BY <1>2, MountKeeps
  <1>4. step'.figure = 1 /\ step'.part = 0
    BY <1>2
  <1>5. step' \in [figure : 1..(Len(MountOrder) + 1), part : Nat, block : {0} \cup Blocks]
    <2>1. 1 \in 1..(Len(MountOrder) + 1)
      BY FiguresTyped
    <2>2. QED BY <1>2, <2>1
  <1>6. Typed'
    BY <1>1, <1>2, <1>5 DEF Typed, diskVars
  <1>7. ~Writing'
    BY <1>4 DEF Writing
  <1>8. DiskInv'
    BY <1>1, <1>2, <1>4, <1>7, DiskQuiet
  <1>9. Account'
    BY <1>2, <1>3, <1>4, Limits DEF Account
  <1>10. QED BY <1>3, <1>6, <1>8, <1>9 DEF PieceInv

LEMMA SkipStep ==
  ASSUME PieceInv, SkipFigure
  PROVE  PieceInv'
  <1>1. Typed /\ DiskInv
    BY DEF PieceInv
  <1>2. /\ Mounting /\ step.part = 0 /\ dir[Figure] # 0 /\ step' = NextFigure
        /\ UNCHANGED <<threads, life, diskVars, torn, fds, found, zombies, queue, task, client>>
    BY DEF SkipFigure
  <1>3. life = "mounting" /\ life' = "mounting" /\ ~Writing
    BY <1>2 DEF Mounting, Writing
  <1>4. /\ (\A c \in Conn : Talk(task[c], client[c]))' /\ Queued'
        /\ found' = 0 /\ zombies' = 0 /\ Cardinality(Children') = 0
        /\ fds = IF MountDone /\ step.part > 0 THEN 1 ELSE 0
    BY <1>2, <1>3, MountKeeps
  <1>5. PICK i \in 1..Len(MountOrder) : i = step.figure /\ Figure = MountOrder[i]
    BY <1>1, <1>2, FigureIs
  <1>6. step' = [figure |-> i + 1, part |-> 0, block |-> 0]
    BY <1>2, <1>5 DEF NextFigure
  <1>7. step'.figure = i + 1 /\ step'.part = 0
    BY <1>6
  <1>8. step' \in [figure : 1..(Len(MountOrder) + 1), part : Nat, block : {0} \cup Blocks]
    <2>1. i + 1 \in 1..(Len(MountOrder) + 1)
      BY Room
    <2>2. QED BY <1>6, <2>1
  <1>9. Typed'
    BY <1>1, <1>2, <1>8 DEF Typed, diskVars
  <1>10. ~Writing'
    BY <1>7 DEF Writing
  <1>11. DiskInv'
    <2>1. ASSUME NEW n \in 1..(Len(MountOrder) + 1), UpTo(n)
          PROVE  i + 1 <= n
      <3>1. i < n
        BY <1>2, <1>5, <2>1 DEF UpTo
      <3>2. QED BY <3>1, FiguresTyped
    <2>2. QED BY <1>1, <1>2, <1>3, <1>7, <1>10, <2>1, DiskQuiet
  <1>12. Account'
    BY <1>2, <1>3, <1>4, <1>7, Limits DEF Account
  <1>13. QED BY <1>4, <1>9, <1>11, <1>12 DEF PieceInv

LEMMA EntryTyped ==
  ASSUME Typed, DiskInv, WriteEntry
  PROVE  Typed'
  <1>1. /\ Mounting /\ step.part = 0 /\ dir[Figure] = 0
        /\ dir' = [dir EXCEPT ![Figure] = NewBlock] /\ next' = Reserved /\ CountUp
        /\ step' = [step EXCEPT !.part = 1, !.block = NewBlock]
        /\ UNCHANGED <<threads, life, piece, torn, fds, found, zombies, queue, task, client>>
    BY DEF WriteEntry
  <1>2. PICK b \in Blocks : b = NewBlock
    BY <1>1, CounterFits, NewBlockFree DEF DiskInv
  <1>3. dir' \in [Names -> {0} \cup Blocks]
    BY <1>1, <1>2 DEF Typed
  <1>4. next' \in [Blocks -> {0, Last255} \cup Blocks]
    BY <1>1, <1>2 DEF Typed, Reserved
  <1>5. counter' \in Nat \ {0}
    BY <1>1 DEF Typed, CountUp
  <1>6. step' \in [figure : 1..(Len(MountOrder) + 1), part : Nat, block : {0} \cup Blocks]
    BY <1>1, <1>2 DEF Typed
  <1>7. QED BY <1>1, <1>3, <1>4, <1>5, <1>6 DEF Typed

LEMMA BlockTyped ==
  ASSUME Typed, DiskInv, WriteBlock
  PROVE  Typed'
  <1>1. /\ Mounting /\ step.part > 0
        /\ piece' = [piece EXCEPT ![step.block] = Piece(Figure, step.part)]
        /\ UNCHANGED <<threads, life, dir, torn, fds, found, zombies, queue, task, client>>
    BY DEF WriteBlock
  <1>2. PICK i \in 1..Len(MountOrder) :
          i = step.figure /\ Figure = MountOrder[i] /\ Figure \in Names
    BY <1>1, FigureIs
  <1>3. step.block \in Blocks
    BY <1>1 DEF DiskInv, InProgress, Writing
  <1>4. Piece(Figure, step.part) \in Parts
    BY <1>2, PartsTyped DEF Typed
  <1>5. piece' \in [Blocks -> Parts]
    BY <1>1, <1>4 DEF Typed
  <1>6. CASE /\ step.part = Size[Figure]
             /\ next' = [next EXCEPT ![step.block] = Last255]
             /\ step' = NextFigure
             /\ UNCHANGED counter
    <2>1. next' \in [Blocks -> {0, Last255} \cup Blocks]
      BY <1>6 DEF Typed
    <2>2. step' \in [figure : 1..(Len(MountOrder) + 1), part : Nat, block : {0} \cup Blocks]
      <3>1. i + 1 \in 1..(Len(MountOrder) + 1)
        BY Room
      <3>2. step' = [figure |-> i + 1, part |-> 0, block |-> 0]
        BY <1>2, <1>6 DEF NextFigure
      <3>3. QED BY <3>1, <3>2
    <2>3. QED BY <1>1, <1>5, <1>6, <2>1, <2>2 DEF Typed
  <1>7. CASE /\ step.part < Size[Figure]
             /\ next' = [Reserved EXCEPT ![step.block] = NewBlock]
             /\ CountUp
             /\ step' = [step EXCEPT !.part = @ + 1, !.block = NewBlock]
    <2>1. PICK b \in Blocks : b = NewBlock
      BY <1>1, <1>7, CounterFits, NewBlockFree DEF DiskInv
    <2>2. Reserved \in [Blocks -> {0, Last255} \cup Blocks]
      BY <2>1 DEF Typed, Reserved
    <2>3. next' \in [Blocks -> {0, Last255} \cup Blocks]
      BY <1>7, <2>1, <2>2
    <2>4. counter' \in Nat \ {0}
      BY <1>7 DEF Typed, CountUp
    <2>5. step' \in [figure : 1..(Len(MountOrder) + 1), part : Nat, block : {0} \cup Blocks]
      <3>1. PICK s \in [figure : 1..(Len(MountOrder) + 1), part : Nat, block : {0} \cup Blocks] :
              s = step
        BY DEF Typed
      <3>2. PICK p \in Nat : p = s.part + 1
        OBVIOUS
      <3>3. step' = [s EXCEPT !.part = p, !.block = b]
        BY <1>7, <2>1, <3>1, <3>2
      <3>4. QED BY <3>3
    <2>6. QED BY <1>1, <1>5, <2>3, <2>4, <2>5 DEF Typed
  <1>8. QED BY <1>6, <1>7 DEF WriteBlock

LEMMA WriteStep ==
  ASSUME PieceInv, WriteEntry \/ WriteBlock
  PROVE  PieceInv'
  <1>1. Typed /\ DiskInv
    BY DEF PieceInv
  <1>2. /\ Mounting
        /\ UNCHANGED <<threads, life, torn, fds, found, zombies, queue, task, client>>
    BY DEF WriteEntry, WriteBlock
  <1>3. life = "mounting" /\ life' = "mounting" /\ ~MountDone
    BY <1>1, <1>2, FigureIs, FiguresTyped DEF Mounting, MountDone
  <1>4. /\ (\A c \in Conn : Talk(task[c], client[c]))' /\ Queued'
        /\ found' = 0 /\ zombies' = 0 /\ Cardinality(Children') = 0 /\ fds = 0
    BY <1>2, <1>3, MountKeeps
  <1>5. Typed'
    BY <1>1, EntryTyped, BlockTyped
  <1>6. DiskInv'
    <2>1. CASE WriteEntry
      BY <1>1, <2>1, EntryStep
    <2>2. CASE WriteBlock
      BY <1>1, <2>2, LastBlockStep, NextBlockStep DEF WriteBlock
    <2>3. QED BY <2>1, <2>2
  <1>7. ~(MountDone' /\ step'.part > 0)
    <2>1. CASE WriteEntry
      <3>1. step' = [step EXCEPT !.part = 1, !.block = NewBlock]
        BY <2>1 DEF WriteEntry
      <3>2. step'.figure = step.figure
        BY <1>1, <3>1 DEF Typed
      <3>3. QED BY <1>3, <3>2 DEF MountDone
    <2>2. CASE WriteBlock
      <3>1. step' = NextFigure \/ step' = [step EXCEPT !.part = @ + 1, !.block = NewBlock]
        BY <2>2 DEF WriteBlock
      <3>2. CASE step' = NextFigure
        BY <3>2 DEF NextFigure
      <3>3. CASE step' = [step EXCEPT !.part = @ + 1, !.block = NewBlock]
        <4>1. step'.figure = step.figure
          BY <1>1, <3>3 DEF Typed
        <4>2. QED BY <1>3, <4>1 DEF MountDone
      <3>4. QED BY <3>1, <3>2, <3>3
    <2>3. QED BY <2>1, <2>2
  <1>8. Account'
    BY <1>2, <1>3, <1>4, <1>7, Limits DEF Account
  <1>9. QED BY <1>4, <1>5, <1>6, <1>8 DEF PieceInv

LEMMA ListenStep ==
  ASSUME PieceInv, BuildSocket \/ Bind \/ MarkPassive
  PROVE  PieceInv'
  <1>1. Typed /\ DiskInv
    BY DEF PieceInv
  <1>2. PICK p \in 1..3 :
          /\ MountDone /\ step.part = p - 1 /\ step' = [step EXCEPT !.part = p]
          /\ life' = IF p = 3 THEN "serving" ELSE life
          /\ fds' = IF p = 1 THEN fds + 1 ELSE fds
          /\ UNCHANGED <<threads, diskVars, torn, found, zombies, queue, task, client>>
    <2>1. CASE BuildSocket
      BY <2>1 DEF BuildSocket, AfterMount
    <2>2. CASE Bind
      BY <2>2 DEF Bind, AfterMount
    <2>3. CASE MarkPassive
      BY <2>3 DEF MarkPassive, AfterMount
    <2>4. QED BY <2>1, <2>2, <2>3
  <1>3. life = "mounting" /\ step.figure = Len(MountOrder) + 1
    BY <1>2 DEF MountDone
  <1>4. ~Mounting /\ ~Writing
    BY <1>3, FiguresTyped, ServerAssumption DEF Mounting, Writing
  <1>5. /\ (\A c \in Conn : Talk(task[c], client[c]))' /\ Queued'
        /\ found' = 0 /\ zombies' = 0 /\ Cardinality(Children') = 0
        /\ Cardinality(Serving') = 0
        /\ fds = IF MountDone /\ step.part > 0 THEN 1 ELSE 0
    BY <1>2, <1>3, MountKeeps
  <1>6. step'.figure = Len(MountOrder) + 1 /\ step'.part = p
    BY <1>1, <1>2, <1>3 DEF Typed
  <1>7. fds' = 1
    BY <1>2, <1>5
  <1>8. life' \in {"mounting", "serving"}
    BY <1>2, <1>3
  <1>9. step' \in [figure : 1..(Len(MountOrder) + 1), part : Nat, block : {0} \cup Blocks]
    <2>1. PICK s \in [figure : 1..(Len(MountOrder) + 1), part : Nat, block : {0} \cup Blocks] :
            s = step
      BY <1>1 DEF Typed
    <2>2. step' = [s EXCEPT !.part = p]
      BY <1>2, <2>1
    <2>3. QED BY <2>2
  <1>10. Typed'
    BY <1>1, <1>2, <1>7, <1>8, <1>9 DEF Typed, diskVars
  <1>11. ~Writing'
    BY <1>6, FiguresTyped, ServerAssumption DEF Writing, Mounting
  <1>12. DiskInv'
    <2>1. ASSUME NEW n \in 1..(Len(MountOrder) + 1), UpTo(n)
          PROVE  n = Len(MountOrder) + 1
      <3>1. step.figure <= n
        BY <1>3, <2>1 DEF UpTo
      <3>2. QED BY <1>3, <3>1, FiguresTyped
    <2>2. ASSUME NEW n \in 1..(Len(MountOrder) + 1), UpTo(n)
          PROVE  step'.figure <= n /\ n = Len(MountOrder) + 1
      BY <1>6, <2>1, <2>2, FiguresTyped
    <2>3. QED BY <1>1, <1>2, <1>4, <1>11, <2>2, DiskQuiet
  <1>13. Account'
    <2>1. fds' <= MaxFd /\ Cardinality(Children') + zombies' <= MaxProc
      BY <1>5, <1>7, Limits
    <2>2. CASE life' = "serving"
      BY <1>5, <1>7, <2>1, <2>2 DEF Account
    <2>3. CASE life' # "serving"
      <3>1. life' = "mounting" /\ MountDone'
        BY <1>6, <1>8, <2>3 DEF MountDone
      <3>2. step'.part > 0
        BY <1>6
      <3>3. QED BY <1>5, <1>7, <2>1, <2>3, <3>1, <3>2 DEF Account
    <2>4. QED BY <2>2, <2>3
  <1>14. QED BY <1>5, <1>10, <1>12, <1>13 DEF PieceInv

-----------------------------------------------------------------------------
(* The invariant holds                                                     *)

LEMMA InitInv ==
  Init => PieceInv
  <1> SUFFICES ASSUME Init
               PROVE  PieceInv
    OBVIOUS
  <1>1. /\ threads \in BOOLEAN /\ life = "down"
        /\ dir = [f \in Names |-> 0] /\ next = [b \in Blocks |-> 0]
        /\ piece = [b \in Blocks |-> Blank] /\ counter = 1
        /\ step = [figure |-> 1, part |-> 0, block |-> 0] /\ torn = {}
        /\ fds = 0 /\ found = 0 /\ zombies = 0 /\ queue = <<>>
        /\ task = [c \in Conn |-> NoTask]
    BY DEF Init, RunsThreads
  <1>2. PICK r \in [Conn -> Request] :
          client = [c \in Conn |-> [at |-> "idle", request |-> r[c], sent |-> 0, got |-> <<>>]]
    <2>1. PICK r \in [Conn -> IF threads THEN Request ELSE {NoRequest}] :
            client = [c \in Conn |-> [at |-> "idle", request |-> r[c], sent |-> 0, got |-> <<>>]]
      BY DEF Init
    <2>2. r \in [Conn -> Request]
      BY <2>1, RequestsTyped
    <2>3. QED BY <2>1, <2>2
  <1>3. NoTask \in Task /\ 0 \in 0..Fragments /\ <<>> \in Seq(Parts) /\ <<>> \in Seq(Conn)
    <2>1. <<>> \in Seq(Parts) /\ <<>> \in Seq(Conn) /\ 0 \in 0..Fragments
      BY Limits
    <2>2. QED BY <2>1 DEF NoTask, Task
  <1>4. ASSUME NEW c \in Conn
        PROVE  client[c] \in Client /\ Talk(task[c], client[c])
    <2>1. PICK k : k = client[c]
      OBVIOUS
    <2>2. k = [at |-> "idle", request |-> r[c], sent |-> 0, got |-> <<>>]
      BY <1>2, <2>1
    <2>3. k \in Client /\ k.at = "idle" /\ k.request \in Request /\ k.sent = 0 /\ k.got = <<>>
      BY <1>2, <1>3, <2>2 DEF Client
    <2>4. \E owed \in Owed(k.request) : Begins(<<>>, owed)
      <3>1. CASE threads
        <4>1. PICK w \in Seq(Parts) : w = Whole(k.request)
          BY <2>3, WholeTyped
        <4>2. QED BY <3>1, <4>1, JoinedFresh DEF Owed
      <3>2. CASE ~threads
        <4>1. PICK w : w = <<Part("echo", "none", 0)>>
          OBVIOUS
        <4>2. w \in Owed(k.request)
          BY <1>3, <3>2, <4>1 DEF Owed
        <4>3. w \in Seq(Parts)
          BY <4>1, PartsTyped
        <4>4. QED BY <4>2, <4>3, JoinedFresh
      <3>3. QED BY <3>1, <3>2
    <2>5. /\ NoTask.at = "none" /\ NoTask.got = 0 /\ NoTask.number = 0 /\ NoTask.art = <<>>
      BY DEF NoTask
    <2>6. Talk(NoTask, k)
      BY <2>3, <2>4, <2>5 DEF Talk, Stages
    <2>7. task[c] = NoTask
      BY <1>1
    <2>8. QED BY <2>1, <2>3, <2>6, <2>7
  <1>5. Typed
    <2>1. client \in [Conn -> Client] /\ task \in [Conn -> Task]
      BY <1>1, <1>2, <1>3, <1>4
    <2>2. 1 \in 1..(Len(MountOrder) + 1)
      BY FiguresTyped
    <2>3. step \in [figure : 1..(Len(MountOrder) + 1), part : Nat, block : {0} \cup Blocks]
      BY <1>1, <2>2
    <2>4. piece \in [Blocks -> Parts]
      BY <1>1, PartsTyped
    <2>5. QED BY <1>1, <1>3, <2>1, <2>3, <2>4 DEF Typed
  <1>6. ~Writing
    BY <1>1 DEF Writing, Mounting
  <1>7. DiskInv
    <2>1. CounterAhead
      BY <1>1 DEF CounterAhead
    <2>2. StoredLead
      BY <1>1, FiguresTyped DEF StoredLead, Stored
    <2>3. UpTo(1)
      <3>1. Before[1] \in Nat
        BY FiguresTyped, Room
      <3>2. counter <= Before[1] + 1
        BY <1>1, <3>1
      <3>3. \A i \in 1..Len(MountOrder) : dir[MountOrder[i]] = 0 /\ ~(i < 1)
        BY <1>1, FiguresTyped
      <3>4. QED BY <1>1, <1>6, <3>2, <3>3 DEF UpTo
    <2>4. InOrder
      <3>1. 1 \in 1..(Len(MountOrder) + 1)
        BY FiguresTyped
      <3>2. QED BY <1>1, <2>3, <3>1 DEF InOrder
    <2>5. QED BY <1>6, <2>1, <2>2, <2>4 DEF DiskInv, InProgress
  <1>8. Account
    <2>1. Children = {}
      BY <1>1 DEF Children, NoTask
    <2>2. Cardinality(Children) = 0
      BY <2>1, FS_EmptySet
    <2>3. QED BY <1>1, <2>2, Limits DEF Account, MountDone
  <1>9. Queued
    <2>1. IsInjective(<<>>) /\ Len(<<>>) = 0
      BY DEF IsInjective
    <2>2. \A i \in 1..Len(<<>>) : FALSE
      BY <2>1
    <2>3. QED BY <1>1, <2>1, <2>2, Limits DEF Queued
  <1>10. QED BY <1>4, <1>5, <1>7, <1>8, <1>9 DEF PieceInv

LEMMA SameInv ==
  ASSUME PieceInv, UNCHANGED vars
  PROVE  PieceInv'
  <1>1. /\ UNCHANGED <<threads, life, starts, dir, next, piece, counter, step, torn>>
        /\ UNCHANGED <<fds, found, zombies, queue, task, client>>
    BY DEF vars, diskVars
  <1>2. Typed'
    BY <1>1 DEF PieceInv, Typed
  <1>3. DiskInv'
    BY <1>1, DiskSame DEF PieceInv, diskVars
  <1>4. Account'
    BY <1>1 DEF PieceInv, Account, Children, Serving, MountDone
  <1>5. Queued'
    BY <1>1 DEF PieceInv, Queued
  <1>6. ASSUME NEW c \in Conn
        PROVE  Talk(task[c], client[c])'
    <2>1. PICK t, k : t = task[c] /\ k = client[c]
      OBVIOUS
    <2>2. Talk(t, k)
      BY <2>1 DEF PieceInv
    <2>3. Talk(t, k)'
      BY <1>1, <2>2, TalkKept
    <2>4. QED BY <1>1, <2>1, <2>3
  <1>7. QED BY <1>2, <1>3, <1>4, <1>5, <1>6 DEF PieceInv

LEMMA ServeStep ==
  ASSUME PieceInv, NEW c \in Conn, Serve(c)
  PROVE  PieceInv'
  <1>1. Typed /\ DiskInv /\ Talk(task[c], client[c])
    BY DEF PieceInv
  <1>2. ASSUME Dies, task[c].at \in {"handle", "block", "write"},
               UNCHANGED <<threads, starts, diskVars, step, torn>>
        PROVE  PieceInv'
    <2>1. life = "serving" /\ life # "dead" /\ ~Writing
      BY <1>1, <1>2 DEF Talk, Writing, Mounting
    <2>2. QED BY <1>2, <2>1, DiesStep
  <1>3. CASE ReadSome(c) \/ ReadEnd(c) \/ Respond(c) \/ extractBlock(c) \/ Hear(c)
    BY <1>3, ReadStep
  <1>4. CASE existASCII(c)
    <2>1. /\ task[c].at = "handle" /\ Translated(c).kind = "GET"
          /\ UNCHANGED <<threads, starts, diskVars, step, torn>>
      BY <1>4 DEF existASCII
    <2>2. CASE /\ fds < MaxFd /\ dir[Translated(c).name] = 0
               /\ task' = [task EXCEPT ![c].at = "write", ![c].out = <<Status("201")>>]
               /\ UNCHANGED <<life, fds, found, zombies, queue, client>>
      <3>1. NotFound(c) /\ NetUnchanged
        BY <2>1, <2>2 DEF NotFound, NetUnchanged
      <3>2. QED BY <2>1, <2>2, <3>1, NotFoundStep
    <2>3. CASE /\ fds < MaxFd /\ dir[Translated(c).name] # 0
               /\ fds' = fds + 1 /\ found' = found + 1
               /\ task' = [task EXCEPT ![c].at = "block"]
               /\ UNCHANGED <<life, zombies, queue, client>>
      <3>1. Found(c)
        BY <2>3 DEF Found
      <3>2. QED BY <2>1, <2>3, <3>1, FoundStep
    <2>4. CASE Dies
      BY <1>2, <2>1, <2>4
    <2>5. QED BY <1>4, <2>2, <2>3, <2>4 DEF existASCII
  <1>5. CASE extractFails(c)
    BY <1>2, <1>5 DEF extractFails
  <1>6. CASE Write(c)
    <2>1. /\ task[c].at = "write" /\ task[c].out # <<>>
          /\ UNCHANGED <<threads, starts, diskVars, step, torn>>
      BY <1>6 DEF Write
    <2>2. CASE Dies
      BY <1>2, <2>1, <2>2
    <2>3. CASE ~Dies
      <3>1. Sends(c) /\ UNCHANGED <<life, fds, found, zombies, queue>>
        BY <1>6, <2>3 DEF Write, Sends
      <3>2. NetUnchanged
        BY <2>1, <3>1 DEF NetUnchanged
      <3>3. QED BY <3>1, <3>2, SendsStep
    <2>4. QED BY <2>2, <2>3
  <1>7. CASE Close(c)
    BY <1>7, CloseStep
  <1>8. CASE Echo(c)
    BY <1>8, EchoStep
  <1>9. QED BY <1>3, <1>4, <1>5, <1>6, <1>7, <1>8 DEF Serve

LEMMA StepInv ==
  ASSUME PieceInv, [Next]_vars
  PROVE  PieceInv'
  <1>1. CASE Start
    BY <1>1, StartStep
  <1>2. CASE Mount
    BY <1>2, SkipStep, WriteStep, ListenStep DEF Mount
  <1>3. CASE BindFails
    <2>1. /\ Dies /\ life # "dead" /\ UNCHANGED <<threads, starts, diskVars, step, torn>>
      BY <1>3 DEF BindFails, MountDone
    <2>2. ~Writing
      BY <1>3, FiguresTyped, ServerAssumption DEF BindFails, MountDone, Writing, Mounting
    <2>3. QED BY <2>1, <2>2, DiesStep
  <1>4. CASE Kill
    <2>1. /\ Dies /\ life # "dead" /\ UNCHANGED <<threads, starts, diskVars, step>>
          /\ torn' = IF Writing THEN torn \cup {Figure} ELSE torn
      BY <1>4 DEF Kill, Writing
    <2>2. QED BY <2>1, DiesStep
  <1>5. CASE Accept
    BY <1>5, AcceptStep
  <1>6. CASE \E c \in Conn : Connect(c) \/ SendFragment(c) \/ Leave(c) \/ Serve(c)
    BY <1>6, ConnectStep, ClientStep, ServeStep
  <1>7. CASE UNCHANGED vars
    BY <1>7, SameInv
  <1>8. QED BY <1>1, <1>2, <1>3, <1>4, <1>5, <1>6, <1>7 DEF Next

(* The directory, the blocks, the descriptors and the two ends of every     *)
(* connection agree at every moment of the mount and of the service, for    *)
(* every number of connections, figures, blocks and starts.                 *)
THEOREM PieceAlways ==
  Spec => []PieceInv
  <1>1. Init => PieceInv
    BY InitInv
  <1>2. PieceInv /\ [Next]_vars => PieceInv'
    BY StepInv
  <1>3. QED BY <1>1, <1>2, PTL DEF Spec

LEMMA InvTypeOK ==
  PieceInv => TypeOK
  <1> SUFFICES ASSUME PieceInv
               PROVE  TypeOK
    OBVIOUS
  <1>1. Typed /\ DiskInv /\ Account /\ Queued /\ \A c \in Conn : Talk(task[c], client[c])
    BY DEF PieceInv
  <1>2. counter \in 1..(Cardinality(Blocks) + 1)
    <2>1. PICK n \in 1..(Len(MountOrder) + 1) : UpTo(n)
      BY <1>1 DEF DiskInv, InOrder
    <2>2. PICK m \in Nat : m = Before[Len(MountOrder) + 1] /\ m = Cardinality(Blocks)
      BY Room
    <2>3. PICK d \in Nat \ {0} : d = counter
      BY <1>1 DEF Typed
    <2>4. CASE Writing
      <3>1. PICK i \in 1..Len(MountOrder) : i = step.figure /\ Figure = MountOrder[i]
        BY <1>1, <2>4, FigureIs DEF Writing
      <3>2. PICK s \in Nat : s = Size[MountOrder[i]]
        BY FiguresTyped
      <3>3. PICK part \in Nat : part = step.part
        BY <1>1 DEF Typed
      <3>4. i \in 1..(Len(MountOrder) + 1)
        BY FiguresTyped
      <3>5. PICK b \in Nat : b = Before[i]
        BY <3>4, Room
      <3>6. b + s <= m
        BY <2>2, <3>2, <3>5, Room
      <3>7. part <= s
        BY <1>1, <2>4, <3>1, <3>2, <3>3 DEF DiskInv, InProgress
      <3>8. d <= b + part + 1
        BY <2>1, <2>3, <2>4, <3>1, <3>3, <3>5 DEF UpTo
      <3>9. d <= m + 1
        BY <3>6, <3>7, <3>8
      <3>10. QED BY <2>2, <2>3, <3>9
    <2>5. CASE ~Writing
      <3>1. PICK b \in Nat : b = Before[n]
        BY Room
      <3>2. b <= m
        BY <2>2, <3>1, Room
      <3>3. d <= b + 1
        BY <2>1, <2>3, <2>5, <3>1 DEF UpTo
      <3>4. d <= m + 1
        BY <3>2, <3>3
      <3>5. QED BY <2>2, <2>3, <3>4
    <2>6. QED BY <2>4, <2>5
  <1>3. zombies \in 0..MaxProc
    <2>1. Cardinality(Children) \in Nat /\ zombies \in Nat
      BY <1>1, CountsTyped DEF Typed
    <2>2. Cardinality(Children) + zombies <= MaxProc
      BY <1>1 DEF Account
    <2>3. QED BY <2>1, <2>2, Limits
  <1>4. ASSUME NEW c \in Conn
        PROVE  /\ task[c].got <= client[c].sent
               /\ client[c].at \in {"idle", "connecting", "open", "done", "gone", "reset"}
    <2>1. client[c] \in Client
      BY <1>1, EndsTyped
    <2>2. QED BY <1>1, <2>1 DEF Talk, Client
  <1>5. QED BY <1>1, <1>2, <1>3, <1>4 DEF TypeOK, Typed, Account, Queued

(* The account of the descriptors and of the processes, and the types.      *)
THEOREM PieceServerTyped ==
  Spec => []TypeOK
  BY PieceAlways, InvTypeOK, PTL

LEMMA BeginsPrefix ==
  ASSUME NEW s \in Seq(Parts), NEW t \in Seq(Parts), Begins(s, t)
  PROVE  IsPrefix(s, t)
  <1>1. Len(s) <= Len(t) /\ \A k \in 1..Len(s) : s[k] = t[k]
    BY DEF Begins
  <1>2. /\ SubSeq(s, 1, Len(s)) = s
    OBVIOUS
  <1>3. SubSeq(t, 1, Len(s)) = s
    <2>1. PICK u : u = SubSeq(t, 1, Len(s))
      OBVIOUS
    <2>2. u \in Seq(Parts) /\ Len(u) = Len(s) /\ \A k \in 1..Len(s) : u[k] = t[k]
      BY <1>1, <2>1
    <2>3. \A k \in 1..Len(s) : u[k] = s[k]
      BY <1>1, <2>2
    <2>4. u = s
      BY <2>2, <2>3, SeqEqual
    <2>5. QED BY <2>1, <2>4
  <1>4. QED BY <1>1, <1>2, <1>3 DEF IsPrefix

LEMMA InvAnswersFit ==
  PieceInv => AnswersFit
  <1> SUFFICES ASSUME PieceInv, NEW c \in Conn, client[c].request.name \notin torn
               PROVE  /\ \E owed \in Owed(client[c].request) : IsPrefix(client[c].got, owed)
                      /\ client[c].at = "done" => client[c].got \in Owed(client[c].request)
    BY DEF AnswersFit
  <1>1. PICK k \in Client : k = client[c]
    BY EndsTyped DEF PieceInv
  <1>2. PICK owed \in Owed(k.request) :
          Begins(k.got, owed) /\ (k.at = "done" => k.got = owed)
    BY <1>1 DEF PieceInv, Talk
  <1>3. owed \in Seq(Parts) /\ k.got \in Seq(Parts) /\ k.request \in Request
    <2>1. k.got \in Seq(Parts) /\ k.request \in Request
      BY DEF Client
    <2>2. CASE threads
      BY <1>2, <2>1, <2>2, WholeTyped DEF Owed
    <2>3. CASE ~threads
      <3>1. PICK n \in 0..Fragments : owed = <<Part("echo", "none", n)>>
        BY <1>2, <2>3 DEF Owed
      <3>2. n \in Nat
        BY Limits
      <3>3. QED BY <2>1, <3>1, <3>2, PartsTyped
    <2>4. QED BY <2>1, <2>2, <2>3
  <1>4. IsPrefix(k.got, owed)
    BY <1>2, <1>3, BeginsPrefix
  <1>5. QED BY <1>1, <1>2, <1>4

(* Every client that stays gets the answer to its own request, the parts of *)
(* it in order and, when it is done, all of them, unless a kill tore its    *)
(* figure: other connections, kills and restarts change nothing in it.      *)
THEOREM PieceAnswersFit ==
  Spec => []AnswersFit
  BY PieceAlways, InvAnswersFit, PTL

=============================================================================
