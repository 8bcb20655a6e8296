---------------------------- MODULE NachosPostProofs ----------------------------
(***************************************************************************)
(* The mail and the devices of NachOS machines, for any number of machines *)
(* and boxes, any times, and any programs that meet the assumptions.       *)
(***************************************************************************)
EXTENDS NachosPost, FiniteSetTheorems, SequenceTheorems, TLAPS

-----------------------------------------------------------------------------
(* The invariant, machine by machine.                                       *)

Kind == {"timer", "recv", "read", "sent", "write"}
Interrupts == [kind : Kind, due : Int]

Place == {"start", "put", "wait", "release", "take", "echo", "write", "written"}

Wish == [on : Event \cup {"no", "mail", "sendLock", "ever"}, box : Box]

KernelTypes ==
  /\ setup \in Setups
  /\ life \in [Machine -> {"up", "halted", "aborted"}]
  /\ pending \in [Machine -> Seq(Interrupts)]
  /\ ready \in [Machine -> Seq(Thread)]
  /\ pc \in [Machine -> [Thread -> [call : Nat \ {0}, at : Place]]]
  /\ sleeps \in [Machine -> [Thread -> Wish]]
  /\ count \in [Machine -> [Event -> Nat]]

MailTypes ==
  /\ holder \in [Machine -> SUBSET Thread]
  /\ inbox \in [Machine -> Seq(Packet)]
  /\ hold \in [Machine -> Seq(Packet)]
  /\ wire \in [Machine -> Seq(Packet)]
  /\ boxes \in [Machine -> [Box -> Seq(Packet)]]
  /\ taken \in [Machine -> [Box -> Seq(Packet)]]
  /\ posted \in [Machine -> [Machine -> [Box -> Nat]]]

ConsoleTypes ==
  /\ incoming \in [Machine -> Seq(Char)]
  /\ putBusy \in [Machine -> BOOLEAN]
  /\ keys \in [Machine -> Seq(Char)]
  /\ shown \in [Machine -> Seq(Char)]

TypesInv == KernelTypes /\ MailTypes /\ ConsoleTypes

(* The threads that a machine has, where each of their calls may be, and    *)
(* which of them are behind the first one of the ready list.                *)
Made(m, t) == Program(m, t) # <<>>

PlacesOf(op) ==
  CASE op \in {"send", "reply"} -> {"start", "put", "wait", "release"}
    [] op = "deliver" -> {"start", "take", "put"}
    [] op = "echo" -> {"start", "echo", "write", "written"}
    [] OTHER -> {"start"}

Queues(m) ==
  /\ \A i \in DOMAIN ready[m] : Made(m, ready[m][i])
  /\ \A t \in Thread : sleeps[m][t] # Awake => Made(m, t)

Positions(m) ==
  \A t \in Thread : Made(m, t) =>
    /\ pc[m][t].call \in DOMAIN Program(m, t)
    /\ pc[m][t].at \in PlacesOf(Call(m, t).op)

ThreadsInv(m) == Queues(m) /\ Positions(m)

(* The receive calls of a thread that have returned, of one box.            *)
Reads(m, t, b) == ReadsOf(Program(m, t), pc[m][t].call - 1, b)

ReadInv(m) ==
  \A t \in User, b \in Box : Cardinality(Reads(m, t, b)) <= Len(taken[m][b])

(* A packet is with the card, with the postal worker, or nowhere.           *)
CardInv(m) ==
  /\ Len(hold[m]) = (IF pc[m]["postal"].at = "put" THEN 1 ELSE 0)
  /\ Len(inbox[m]) <= 1
  /\ Len(inbox[m]) = count[m]["messageAvailable"]
                     + (IF pc[m]["postal"].at = "take" THEN 1 ELSE 0)

(* Of an interrupt there is none in a list, or one.                         *)
None(s, kind) == \A i \in DOMAIN s : s[i].kind # kind

One(s, kind) ==
  \E i \in DOMAIN s : s[i].kind = kind /\ \A j \in DOMAIN s : s[j].kind = kind => j = i

(* An interrupt is due, or its handler has raised the semaphore.            *)
Awaited(m, kind, e) ==
  \/ One(pending[m], kind) /\ count[m][e] = 0
  \/ None(pending[m], kind) /\ count[m][e] = 1

Quiet(m, kind, e) == None(pending[m], kind) /\ count[m][e] = 0

(* Who sends has the lock, alone; the card has a packet of its exactly      *)
(* while it waits.                                                          *)
Sending(m, t) == Made(m, t) /\ Sends(m, t) /\ pc[m][t].at # "start"

SendInv(m) ==
  /\ \A t \in Thread : t \in holder[m] <=> Sending(m, t)
  /\ \A t, u \in holder[m] : t = u
  /\ IF \E t \in holder[m] : pc[m][t].at = "wait"
     THEN Awaited(m, "sent", "messageSent") ELSE Quiet(m, "sent", "messageSent")

(* The display is busy until its interrupt, and only while the echo waits.  *)
Echoes(m, t) == Made(m, t) /\ Call(m, t).op = "echo"

EchoInv(m) ==
  /\ IF \E t \in Thread : Echoes(m, t) /\ pc[m][t].at = "write"
     THEN Awaited(m, "write", "writeDone") ELSE Quiet(m, "write", "writeDone")
  /\ putBusy[m] => ~None(pending[m], "write")

KeysInv(m) == shown[m] \o incoming[m] \o keys[m] = setup.keys[m]

(* The order of the mail of one pair of machines, in what a box has been    *)
(* given.                                                                   *)
IsFrom(p, s, m, b) == p.from = s /\ p.to = m /\ p.box = b

InOrder(way, s, m, b, last) ==
  /\ \A i \in DOMAIN way : IsFrom(way[i], s, m, b) => way[i].n <= last
  /\ \A i, j \in DOMAIN way :
       IsFrom(way[i], s, m, b) /\ IsFrom(way[j], s, m, b) /\ i < j => way[i].n < way[j].n

Whole(way, s, m, b, last) ==
  \A n \in 1..last : \E i \in DOMAIN way : IsFrom(way[i], s, m, b) /\ way[i].n = n

Routed(m) ==
  \A b \in Box : \A i \in DOMAIN Way(m, b) : Way(m, b)[i].to = m /\ Way(m, b)[i].from # m

Boxed(m) ==
  \A b \in Box :
    /\ \A i \in DOMAIN boxes[m][b] : boxes[m][b][i].box = b
    /\ \A i \in DOMAIN taken[m][b] : taken[m][b][i].box = b

OrderInv(m) ==
  /\ Routed(m) /\ Boxed(m)
  /\ \A s \in Machine, b \in Box :
       /\ InOrder(Way(m, b), s, m, b, posted[s][m][b])
       /\ setup.reliable => Whole(Way(m, b), s, m, b, posted[s][m][b])

(* No box gets more mail than was sent by the calls that may send to it.    *)
Mails(way, b) == {i \in DOMAIN way : way[i].box = b}

HasSent(s, t, i) ==
  \/ i < pc[s][t].call
  \/ i = pc[s][t].call /\ pc[s][t].at \in {"wait", "release"}

Sent(m, b) == {a \in Addressed(setup, m, b) : HasSent(a[1], a[2], a[3])}

CountInv(m) ==
  \A b \in Box : Cardinality(Mails(Way(m, b), b)) <= Cardinality(Sent(m, b))

(* A machine halts when all mail that may be sent to it has been read.      *)
EndInv(m) ==
  /\ "recv" \in setup.devices[m] => ~None(pending[m], "recv")
  /\ life[m] = "halted" =>
       \A b \in Box : Cardinality(Addressed(setup, m, b)) <= Len(taken[m][b])
  /\ setup.file \/ life[m] # "aborted"

MachineInv(m) ==
  /\ ThreadsInv(m) /\ ReadInv(m) /\ CardInv(m) /\ SendInv(m) /\ EchoInv(m)
  /\ KeysInv(m) /\ OrderInv(m) /\ CountInv(m) /\ EndInv(m)

PostInv == TypesInv /\ \A m \in Machine : MachineInv(m)

-----------------------------------------------------------------------------
(* The list of interrupts.                                                  *)

LEMMA InsertIs ==
  ASSUME NEW s \in Seq(Interrupts), NEW e \in Interrupts
  PROVE  /\ SortedInsert(s, e) \in Seq(Interrupts)
         /\ Len(SortedInsert(s, e)) = Len(s) + 1
         /\ \E k \in 0..Len(s) : \A i \in 1..(Len(s) + 1) :
              SortedInsert(s, e)[i] =
                IF i <= k THEN s[i] ELSE IF i = k + 1 THEN e ELSE s[i - 1]
<1> DEFINE K == {i \in DOMAIN s : s[i].due <= e.due}
           k == Cardinality(K)
           n == Len(s)
<1>1. n \in Nat /\ DOMAIN s = 1..n
  OBVIOUS
<1>2. k \in 0..n
  <2>1. IsFiniteSet(1..n) /\ Cardinality(1..n) = n
    BY <1>1, FS_Interval
  <2>2. K \in SUBSET (1..n)
    BY <1>1
  <2> HIDE DEF K
  <2>3. IsFiniteSet(K) /\ Cardinality(K) <= n
    BY <2>1, <2>2, FS_Subset
  <2>4. Cardinality(K) \in Nat
    BY <2>3, FS_CardinalityType
  <2> QED BY <1>1, <2>3, <2>4
<1> HIDE DEF K
<1> DEFINE I == SortedInsert(s, e)
           a == SubSeq(s, 1, k)
           b == SubSeq(s, k + 1, n)
<1>3. I = a \o <<e>> \o b
  BY DEF SortedInsert, K
<1> HIDE DEF k, n, I
<1>4. /\ a \in Seq(Interrupts) /\ Len(a) = k
      /\ \A i \in 1..k : a[i] = s[i]
  <2> HIDE DEF Interrupts
  <2> QED BY <1>1, <1>2
<1>5. /\ b \in Seq(Interrupts) /\ Len(b) = n - k
      /\ \A i \in 1..(n - k) : b[i] = s[k + i]
  <2> HIDE DEF Interrupts
  <2> QED BY <1>1, <1>2
<1>6. <<e>> \in Seq(Interrupts) /\ Len(<<e>>) = 1 /\ <<e>>[1] = e
  <2> HIDE DEF Interrupts
  <2> QED OBVIOUS
<1> HIDE DEF a, b
<1>7. /\ a \o <<e>> \in Seq(Interrupts) /\ Len(a \o <<e>>) = k + 1
      /\ \A i \in 1..(k + 1) : (a \o <<e>>)[i] = IF i <= k THEN s[i] ELSE e
  <2> DEFINE c == <<e>>
  <2> HIDE DEF c, Interrupts
  <2>1. /\ a \o c \in Seq(Interrupts) /\ Len(a \o c) = k + 1
        /\ \A i \in 1..(k + 1) : (a \o c)[i] = IF i <= k THEN a[i] ELSE c[i - k]
    BY <1>2, <1>4, <1>6, ConcatProperties DEF c
  <2> QED BY <1>2, <1>4, <1>6, <2>1 DEF c
<1>8. /\ I \in Seq(Interrupts) /\ Len(I) = n + 1
      /\ \A i \in 1..(n + 1) :
           I[i] = IF i <= k THEN s[i] ELSE IF i = k + 1 THEN e ELSE s[i - 1]
  <2> DEFINE c == a \o <<e>>
  <2> HIDE DEF c, Interrupts
  <2>1. /\ c \o b \in Seq(Interrupts) /\ Len(c \o b) = n + 1
        /\ \A i \in 1..(n + 1) : (c \o b)[i] = IF i <= k + 1 THEN c[i] ELSE b[i - (k + 1)]
    BY <1>1, <1>2, <1>5, <1>7, ConcatProperties DEF c
  <2>2. ASSUME NEW i \in 1..(n + 1)
        PROVE  (c \o b)[i] = IF i <= k THEN s[i] ELSE IF i = k + 1 THEN e ELSE s[i - 1]
    <3>1. CASE i <= k + 1
      BY <1>1, <1>2, <1>7, <2>1, <3>1 DEF c
    <3>2. CASE ~(i <= k + 1)
      <4>1. i - (k + 1) \in 1..(n - k) /\ k + (i - (k + 1)) = i - 1
        BY <1>1, <1>2, <3>2
      <4>2. (c \o b)[i] = b[i - (k + 1)] /\ b[i - (k + 1)] = s[k + (i - (k + 1))]
        BY <1>5, <2>1, <3>2, <4>1
      <4>3. ~(i <= k) /\ i # k + 1
        BY <1>2, <3>2
      <4> QED BY <4>1, <4>2, <4>3
    <3> QED BY <3>1, <3>2
  <2> QED BY <1>3, <2>1, <2>2 DEF c
<1> QED BY <1>1, <1>2, <1>8 DEF I, n

(* What a new interrupt changes: there is one more of its kind.             *)
LEMMA ScheduleIs ==
  ASSUME NEW s \in Seq(Interrupts), NEW kind \in Kind, NEW d \in Int
  PROVE  /\ Schedule(s, kind, d) \in Seq(Interrupts)
         /\ ~None(Schedule(s, kind, d), kind)
         /\ None(s, kind) => One(Schedule(s, kind, d), kind)
         /\ \A other \in Kind \ {kind} :
              /\ None(Schedule(s, kind, d), other) <=> None(s, other)
              /\ One(s, other) => One(Schedule(s, kind, d), other)
<1> DEFINE e == [kind |-> kind, due |-> d]
           r == Schedule(s, kind, d)
           n == Len(s)
<1>1. e \in Interrupts /\ e.kind = kind
  BY DEF Interrupts
<1>2. r = SortedInsert(s, e)
  BY DEF Schedule
<1> HIDE DEF e, r
<1>3. /\ r \in Seq(Interrupts) /\ Len(r) = n + 1
      /\ \E k \in 0..n : \A i \in 1..(n + 1) :
           r[i] = IF i <= k THEN s[i] ELSE IF i = k + 1 THEN e ELSE s[i - 1]
  BY <1>1, <1>2, InsertIs
<1>4. n \in Nat /\ DOMAIN s = 1..n /\ DOMAIN r = 1..(n + 1)
  BY <1>3
<1>5. PICK k \in 0..n : \A i \in 1..(n + 1) :
        r[i] = IF i <= k THEN s[i] ELSE IF i = k + 1 THEN e ELSE s[i - 1]
  BY <1>3
<1> HIDE DEF n
<1>6. k + 1 \in DOMAIN r /\ r[k + 1].kind = kind
  BY <1>1, <1>4, <1>5
<1>7. \A i \in DOMAIN s : \/ i \in DOMAIN r /\ i <= k /\ r[i] = s[i]
                          \/ i + 1 \in DOMAIN r /\ i > k /\ r[i + 1] = s[i]
  BY <1>4, <1>5
<1>8. \A i \in DOMAIN r : \/ i = k + 1
                          \/ i \in DOMAIN s /\ i <= k /\ r[i] = s[i]
                          \/ i - 1 \in DOMAIN s /\ i - 1 > k /\ r[i] = s[i - 1]
  BY <1>4, <1>5
<1>9. None(s, kind) => One(r, kind)
  BY <1>6, <1>8 DEF None, One
<1>10. ASSUME NEW other \in Kind \ {kind}
       PROVE  /\ None(r, other) <=> None(s, other)
              /\ One(s, other) => One(r, other)
  <2>1. None(r, other) <=> None(s, other)
    BY <1>6, <1>7, <1>8 DEF None
  <2>2. ASSUME One(s, other) PROVE One(r, other)
    <3>1. PICK i \in DOMAIN s : s[i].kind = other
                                /\ \A j \in DOMAIN s : s[j].kind = other => j = i
      BY <2>2 DEF One
    <3>2. CASE i <= k
      <4>1. i \in DOMAIN r /\ r[i].kind = other
        BY <1>4, <1>7, <3>1, <3>2
      <4>2. \A j \in DOMAIN r : r[j].kind = other => j = i
        BY <1>4, <1>6, <1>8, <3>1, <3>2
      <4> QED BY <4>1, <4>2 DEF One
    <3>3. CASE i > k
      <4>1. i + 1 \in DOMAIN r /\ r[i + 1].kind = other
        BY <1>4, <1>7, <3>1, <3>3
      <4>2. \A j \in DOMAIN r : r[j].kind = other => j = i + 1
        BY <1>4, <1>6, <1>8, <3>1, <3>3
      <4> QED BY <4>1, <4>2 DEF One
    <3> QED BY <1>4, <3>2, <3>3
  <2> QED BY <2>1, <2>2
<1> QED BY <1>3, <1>6, <1>9, <1>10 DEF r, None

(* Time changes no kind.                                                    *)
LEMMA ElapsedIs ==
  ASSUME NEW s \in Seq(Interrupts), NEW d \in Int
  PROVE  /\ Elapsed(s, d) \in Seq(Interrupts)
         /\ \A kind \in Kind : /\ None(Elapsed(s, d), kind) <=> None(s, kind)
                               /\ One(Elapsed(s, d), kind) <=> One(s, kind)
<1> DEFINE r == Elapsed(s, d)
           n == Len(s)
<1>1. n \in Nat /\ DOMAIN s = 1..n /\ \A i \in 1..n : s[i] \in Interrupts
  <2> HIDE DEF Interrupts
  <2> QED OBVIOUS
<1>2. r = [i \in 1..n |-> [s[i] EXCEPT !.due = @ - d]]
  BY <1>1 DEF Elapsed
<1>3. \A i \in 1..n : [s[i] EXCEPT !.due = @ - d] \in Interrupts
                      /\ [s[i] EXCEPT !.due = @ - d].kind = s[i].kind
  BY <1>1 DEF Interrupts
<1> HIDE DEF r, n, Interrupts
<1>4. r \in Seq(Interrupts) /\ DOMAIN r = 1..n
  BY <1>1, <1>2, <1>3
<1>5. \A i \in 1..n : r[i].kind = s[i].kind
  BY <1>2, <1>3
<1>6. \A kind \in Kind : /\ None(r, kind) <=> None(s, kind)
                         /\ One(r, kind) <=> One(s, kind)
  BY <1>1, <1>4, <1>5 DEF None, One
<1> QED BY <1>4, <1>6 DEF r

(* The first interrupt is taken out.                                        *)
LEMMA TailIs ==
  ASSUME NEW s \in Seq(Interrupts), s # <<>>
  PROVE  /\ Tail(s) \in Seq(Interrupts) /\ Head(s).kind \in Kind
         /\ ~None(s, Head(s).kind)
         /\ One(s, Head(s).kind) => None(Tail(s), Head(s).kind)
         /\ \A kind \in Kind \ {Head(s).kind} :
              /\ None(Tail(s), kind) <=> None(s, kind)
              /\ One(s, kind) => One(Tail(s), kind)
<1> DEFINE r == Tail(s)
           n == Len(s)
           k == Head(s).kind
<1>1. n \in Nat \ {0} /\ DOMAIN s = 1..n /\ Head(s) = s[1] /\ s[1] \in Interrupts
  <2> HIDE DEF Interrupts
  <2> QED OBVIOUS
<1>2. /\ r \in Seq(Interrupts) /\ DOMAIN r = 1..(n - 1)
      /\ \A i \in 1..(n - 1) : r[i] = s[i + 1]
  <2> HIDE DEF Interrupts
  <2> QED BY <1>1
<1>3. k \in Kind /\ s[1].kind = k
  BY <1>1 DEF Interrupts
<1> HIDE DEF r, k, n
<1>4. ASSUME NEW i \in DOMAIN s, i # 1
      PROVE  i - 1 \in DOMAIN r /\ r[i - 1] = s[i]
  <2>1. i - 1 \in 1..(n - 1) /\ (i - 1) + 1 = i
    BY <1>1, <1>4
  <2> QED BY <1>2, <2>1
<1>5. \A i \in DOMAIN r : i \in Nat /\ i + 1 \in DOMAIN s /\ i + 1 # 1 /\ r[i] = s[i + 1]
  BY <1>1, <1>2
<1>6. 1 \in DOMAIN s
  BY <1>1
<1>7. ~None(s, k)
  BY <1>3, <1>6 DEF None
<1>8. One(s, k) => None(r, k)
  BY <1>3, <1>5, <1>6 DEF None, One
<1>9. ASSUME NEW kind \in Kind \ {k}
      PROVE  /\ None(r, kind) <=> None(s, kind)
             /\ One(s, kind) => One(r, kind)
  <2>1. None(r, kind) <=> None(s, kind)
    BY <1>3, <1>4, <1>5 DEF None
  <2>2. ASSUME One(s, kind) PROVE One(r, kind)
    <3>1. PICK i \in DOMAIN s : s[i].kind = kind
                                /\ \A j \in DOMAIN s : s[j].kind = kind => j = i
      BY <2>2 DEF One
    <3>2. i - 1 \in DOMAIN r /\ r[i - 1].kind = kind
      BY <1>3, <1>4, <3>1
    <3>3. \A j \in DOMAIN r : r[j].kind = kind => j = i - 1
      BY <1>1, <1>5, <3>1
    <3> QED BY <3>2, <3>3 DEF One
  <2> QED BY <2>1, <2>2
<1> QED BY <1>2, <1>3, <1>7, <1>8, <1>9 DEF r, k

-----------------------------------------------------------------------------
(* Threads and their programs.                                              *)

LEMMA ThreadIs == Thread = User \cup {"postal"} /\ "postal" \notin User
BY DEF Thread, User

(* The call at which a thread is, and what the assumptions say of it.       *)
LEMMA CallIs ==
  ASSUME KernelTypes, NEW m \in Machine, ThreadsInv(m), NEW t \in User, Made(m, t)
  PROVE  /\ Program(m, t) = setup.code[m][t] /\ Program(m, t) \in Seq(Calls)
         /\ pc[m][t].call \in 1..Len(Program(m, t))
         /\ Call(m, t) \in Calls
         /\ Program(m, t)[Len(Program(m, t))].op \in {"halt", "finish"}
         /\ Call(m, t).op = "send" => Call(m, t).to # m
         /\ Call(m, t).op = "reply" =>
              \E j \in 1..(pc[m][t].call - 1) :
                Program(m, t)[j].op = "receive" /\ Program(m, t)[j].box = 0
<1> DEFINE p == setup.code[m][t]
           i == pc[m][t].call
<1>1. Program(m, t) = p
  BY ThreadIs DEF Program
<1>2. /\ p \in Seq(Calls)
      /\ p # <<>> => p[Len(p)].op \in {"halt", "finish"}
      /\ \A k \in DOMAIN p :
           /\ p[k].op = "send" => p[k].to # m
           /\ p[k].op = "reply" =>
                \E j \in 1..(k - 1) : p[j].op = "receive" /\ p[j].box = 0
  BY ProgramAssumption DEF KernelTypes
<1>3. p # <<>> /\ i \in DOMAIN p /\ Call(m, t) = p[i]
  BY <1>1, ThreadIs DEF Made, ThreadsInv, Positions, Call
<1> HIDE DEF p, i
<1>4. i \in 1..Len(p) /\ p[i] \in Calls
  <2> HIDE DEF Calls
  <2> QED BY <1>2, <1>3
<1> QED BY <1>1, <1>2, <1>3, <1>4 DEF i, p

LEMMA PostalIs ==
  ASSUME NEW m \in Machine
  PROVE  /\ Program(m, "postal") = <<Worker(m)>> /\ Made(m, "postal")
         /\ KernelTypes /\ ThreadsInv(m) =>
              /\ pc[m]["postal"].call = 1 /\ Call(m, "postal").op = "deliver"
              /\ ~Sends(m, "postal")
<1>1. Program(m, "postal") = <<Worker(m)>> /\ Made(m, "postal")
  BY DEF Program, Made
<1>2. ASSUME KernelTypes, ThreadsInv(m) PROVE pc[m]["postal"].call = 1
  <2>1. pc[m]["postal"].call \in DOMAIN <<Worker(m)>>
    BY <1>1, <1>2, ThreadIs DEF ThreadsInv, Positions
  <2> QED BY <2>1
<1>3. ASSUME KernelTypes, ThreadsInv(m)
      PROVE  Call(m, "postal").op = "deliver" /\ ~Sends(m, "postal")
  BY <1>1, <1>2, <1>3 DEF Call, Worker, Sends
<1> QED BY <1>1, <1>2, <1>3

(* The running thread is one that the machine has.                          *)
LEMMA RunnerIs ==
  ASSUME KernelTypes, NEW m \in Machine, ThreadsInv(m), NEW t, Runs(m, t)
  PROVE  /\ t \in Thread /\ Made(m, t) /\ life[m] = "up"
         /\ ready[m] \in Seq(Thread) /\ ready[m] # <<>> /\ t = Head(ready[m])
<1>1. ready[m] \in Seq(Thread) /\ ready[m] # <<>> /\ t = Head(ready[m]) /\ life[m] = "up"
  BY DEF KernelTypes, Runs
<1>2. 1 \in DOMAIN ready[m] /\ t = ready[m][1] /\ ready[m][1] \in Thread
  BY <1>1
<1> QED BY <1>1, <1>2 DEF ThreadsInv, Queues

(* The thread that runs makes a call of its program, unless it is the       *)
(* postal worker.                                                           *)
LEMMA CallerIs ==
  ASSUME KernelTypes, NEW m \in Machine, ThreadsInv(m), NEW t, Runs(m, t),
         Call(m, t).op # "deliver"
  PROVE  t \in User /\ Made(m, t)
BY RunnerIs, PostalIs, ThreadIs

(* How the counters of a program move.                                      *)
LEMMA GoesIs ==
  ASSUME KernelTypes, NEW m \in Machine, NEW t \in Thread, NEW w \in Place, Goes(m, t, w)
  PROVE  /\ pc' \in [Machine -> [Thread -> [call : Nat \ {0}, at : Place]]]
         /\ pc'[m][t].call = pc[m][t].call /\ pc'[m][t].at = w
         /\ \A u \in Thread : u # t => pc'[m][u] = pc[m][u]
         /\ \A x \in Machine : x # m => pc'[x] = pc[x]
<1>1. pc \in [Machine -> [Thread -> [call : Nat \ {0}, at : Place]]]
  BY DEF KernelTypes
<1>2. pc' = [pc EXCEPT ![m][t].at = w]
  BY DEF Goes
<1> HIDE DEF Place
<1> QED BY <1>1, <1>2

LEMMA ReturnsIs ==
  ASSUME KernelTypes, NEW m \in Machine, NEW t \in Thread, Returns(m, t)
  PROVE  /\ pc' \in [Machine -> [Thread -> [call : Nat \ {0}, at : Place]]]
         /\ pc'[m][t].call = (IF t = "postal" THEN 1 ELSE pc[m][t].call + 1)
         /\ pc'[m][t].at = "start"
         /\ \A u \in Thread : u # t => pc'[m][u] = pc[m][u]
         /\ \A x \in Machine : x # m => pc'[x] = pc[x]
<1>1. pc \in [Machine -> [Thread -> [call : Nat \ {0}, at : Place]]]
  BY DEF KernelTypes
<1> DEFINE next == [call |-> IF t = "postal" THEN 1 ELSE pc[m][t].call + 1, at |-> "start"]
<1>2. pc' = [pc EXCEPT ![m][t] = next]
  BY DEF Returns
<1>3. next \in [call : Nat \ {0}, at : Place]
  BY <1>1 DEF Place
<1>4. next.call = (IF t = "postal" THEN 1 ELSE pc[m][t].call + 1) /\ next.at = "start"
  OBVIOUS
<1> HIDE DEF Place, next
<1> QED BY <1>1, <1>2, <1>3, <1>4

-----------------------------------------------------------------------------
(* The queues of a machine, and the counters of its programs.               *)

QueuesKept(m) ==
  /\ ready' \in [Machine -> Seq(Thread)] /\ sleeps' \in [Machine -> [Thread -> Wish]]
  /\ Queues(m)'
  /\ \A x \in Machine : x # m => ready'[x] = ready[x] /\ sleeps'[x] = sleeps[x]

PositionsKept(m) ==
  /\ pc' \in [Machine -> [Thread -> [call : Nat \ {0}, at : Place]]]
  /\ Positions(m)'
  /\ \A x \in Machine : x # m => pc'[x] = pc[x]

LEMMA ProgramStays ==
  ASSUME setup' = setup
  PROVE  \A m, t : /\ Program(m, t)' = Program(m, t)
                   /\ Made(m, t)' <=> Made(m, t)
BY DEF Program, Made

LEMMA QueuesStay ==
  ASSUME KernelTypes, NEW m \in Machine, Queues(m), UNCHANGED <<setup, ready, sleeps>>
  PROVE  QueuesKept(m)
BY ProgramStays DEF KernelTypes, QueuesKept, Queues

LEMMA PositionsStay ==
  ASSUME KernelTypes, NEW m \in Machine, Positions(m), UNCHANGED <<setup, pc>>
  PROVE  PositionsKept(m)
BY ProgramStays DEF KernelTypes, PositionsKept, Positions, Call

LEMMA SleepsIs ==
  ASSUME KernelTypes, NEW m \in Machine, Queues(m), NEW t \in Thread, Made(m, t),
         ready[m] # <<>>, NEW w \in Wish, Sleeps(m, t, w), setup' = setup
  PROVE  QueuesKept(m) /\ UNCHANGED <<pending, mode>>
<1>1. ready \in [Machine -> Seq(Thread)] /\ sleeps \in [Machine -> [Thread -> Wish]]
  BY DEF KernelTypes
<1>2. /\ sleeps' = [sleeps EXCEPT ![m][t] = w]
      /\ ready' = [ready EXCEPT ![m] = Tail(@)]
  BY DEF Sleeps
<1>3. ready[m] \in Seq(Thread) /\ Tail(ready[m]) \in Seq(Thread)
  BY <1>1
<1>4. ready' \in [Machine -> Seq(Thread)] /\ ready'[m] = Tail(ready[m])
  BY <1>1, <1>2, <1>3
<1>5. /\ sleeps' \in [Machine -> [Thread -> Wish]]
      /\ \A u \in Thread : u # t => sleeps'[m][u] = sleeps[m][u]
  <2> HIDE DEF Wish
  <2> QED BY <1>1, <1>2
<1>6. \A i \in DOMAIN ready'[m] : i + 1 \in DOMAIN ready[m] /\ ready'[m][i] = ready[m][i + 1]
  BY <1>3, <1>4
<1>7. Queues(m)'
  BY <1>5, <1>6, ProgramStays DEF Queues
<1> QED BY <1>1, <1>2, <1>4, <1>5, <1>7 DEF QueuesKept, Sleeps

LEMMA SetToSeqIs ==
  ASSUME NEW S, IsFiniteSet(S)
  PROVE  SetToSeq(S) \in Seq(S)
<1> DEFINE n == Cardinality(S)
<1>1. n \in Nat /\ ExistsBijection(1..n, S)
  BY FS_CardinalityType
<1>2. PICK f \in Bijection(1..n, S) : TRUE
  BY <1>1 DEF ExistsBijection
<1>3. f \in [1..n -> S] /\ IsInjective(f)
  BY <1>2 DEF Bijection, Injection, IsInjective
<1> HIDE DEF n
<1>4. (CHOOSE g \in [1..n -> S] : IsInjective(g)) \in [1..n -> S]
  BY <1>3
<1>5. SetToSeq(S) \in [1..n -> S]
  BY <1>4 DEF SetToSeq, n
<1> QED BY <1>1, <1>5

LEMMA WakesIs ==
  ASSUME KernelTypes, NEW m \in Machine, Queues(m), NEW w, w # Awake, Wakes(m, w),
         setup' = setup
  PROVE  QueuesKept(m)
<1> DEFINE woken == {t \in Thread : sleeps[m][t] = w}
           more == SetToSeq(woken)
<1>1. ready \in [Machine -> Seq(Thread)] /\ sleeps \in [Machine -> [Thread -> Wish]]
  BY DEF KernelTypes
<1>2. /\ sleeps' = [sleeps EXCEPT ![m] = [t \in Thread |-> IF t \in woken THEN Awake ELSE @[t]]]
      /\ ready' = [ready EXCEPT ![m] = @ \o more]
  BY DEF Wakes
<1>3. more \in Seq(woken)
  <2>1. IsFiniteSet(Thread)
    <3>1. IsFiniteSet({"main"}) /\ IsFiniteSet({"main"} \cup {"aux"})
      BY FS_Singleton, FS_AddElement
    <3>2. IsFiniteSet(({"main"} \cup {"aux"}) \cup {"postal"})
      BY <3>1, FS_AddElement
    <3>3. Thread = ({"main"} \cup {"aux"}) \cup {"postal"}
      BY DEF Thread
    <3> QED BY <3>2, <3>3
  <2>2. IsFiniteSet(woken)
    BY <2>1, FS_Subset
  <2> HIDE DEF woken
  <2> QED BY <2>2, SetToSeqIs
<1>4. \A t \in woken : t \in Thread /\ Made(m, t)
  BY DEF Queues
<1>5. Awake \in Wish
  BY ProgramAssumption DEF Awake, Wish
<1> HIDE DEF more
<1>6. sleeps' \in [Machine -> [Thread -> Wish]]
      /\ \A t \in Thread : sleeps'[m][t] = Awake \/ sleeps'[m][t] = sleeps[m][t]
  <2> HIDE DEF Wish, woken
  <2> QED BY <1>1, <1>2, <1>5
<1> HIDE DEF woken
<1>7. /\ more \in Seq(Thread) /\ ready[m] \in Seq(Thread)
      /\ \A i \in DOMAIN more : more[i] \in woken
  BY <1>1, <1>3, <1>4
<1>8. /\ ready[m] \o more \in Seq(Thread)
      /\ \A i \in DOMAIN (ready[m] \o more) :
           \/ i \in DOMAIN ready[m] /\ (ready[m] \o more)[i] = ready[m][i]
           \/ i - Len(ready[m]) \in DOMAIN more
              /\ (ready[m] \o more)[i] = more[i - Len(ready[m])]
  <2> DEFINE r == ready[m]
             a == r \o more
  <2>1. /\ a \in Seq(Thread) /\ Len(a) = Len(r) + Len(more)
        /\ \A i \in 1 .. Len(r) + Len(more) : a[i] = IF i <= Len(r) THEN r[i] ELSE more[i - Len(r)]
    BY <1>7, ConcatProperties
  <2>2. Len(r) \in Nat /\ Len(more) \in Nat /\ DOMAIN r = 1..Len(r)
        /\ DOMAIN more = 1..Len(more) /\ DOMAIN a = 1..(Len(r) + Len(more))
    BY <1>7, <2>1
  <2> HIDE DEF a, r
  <2>3. ASSUME NEW i \in DOMAIN a
        PROVE  \/ i \in DOMAIN r /\ a[i] = r[i]
               \/ i - Len(r) \in DOMAIN more /\ a[i] = more[i - Len(r)]
    BY <2>1, <2>2
  <2> QED BY <2>1, <2>3 DEF a, r
<1>9. ready' \in [Machine -> Seq(Thread)] /\ ready'[m] = ready[m] \o more
  BY <1>1, <1>2, <1>8
<1>10. \A i \in DOMAIN ready'[m] : Made(m, ready'[m][i])
  <2> TAKE i \in DOMAIN ready'[m]
  <2>1. \/ i \in DOMAIN ready[m] /\ ready'[m][i] = ready[m][i]
        \/ i - Len(ready[m]) \in DOMAIN more /\ ready'[m][i] = more[i - Len(ready[m])]
    BY <1>8, <1>9
  <2> QED BY <2>1, <1>4, <1>7 DEF Queues
<1>11. Queues(m)'
  BY <1>6, <1>10, ProgramStays DEF Queues
<1> QED BY <1>1, <1>2, <1>6, <1>9, <1>11 DEF QueuesKept

LEMMA WishIs ==
  /\ Awake \in Wish /\ For("sendLock") \in Wish /\ For("ever") \in Wish
  /\ For("sendLock") # Awake
  /\ \A e \in Event : For(e) \in Wish /\ For(e) # Awake
  /\ \A b \in Box : Mail(b) \in Wish /\ Mail(b) # Awake
<1>1. 0 \in Box
  BY ProgramAssumption
<1> QED BY <1>1 DEF Awake, Wish, For, Mail, Event

(* The next place of a call is one of its places.                           *)
LEMMA GoesKeeps ==
  ASSUME KernelTypes, NEW m \in Machine, Positions(m), NEW t \in Thread, NEW w \in Place,
         w \in PlacesOf(Call(m, t).op), Goes(m, t, w), setup' = setup
  PROVE  PositionsKept(m)
<1>1. /\ pc' \in [Machine -> [Thread -> [call : Nat \ {0}, at : Place]]]
      /\ pc'[m][t].call = pc[m][t].call /\ pc'[m][t].at = w
      /\ \A u \in Thread : u # t => pc'[m][u] = pc[m][u]
      /\ \A x \in Machine : x # m => pc'[x] = pc[x]
  BY GoesIs
<1>2. ASSUME NEW u \in Thread, Made(m, u)
      PROVE  /\ pc'[m][u].call \in DOMAIN Program(m, u)
             /\ pc'[m][u].at \in PlacesOf(Program(m, u)[pc'[m][u].call].op)
  BY <1>1, <1>2 DEF Positions, Call
<1>3. Positions(m)'
  BY <1>2, ProgramStays DEF Positions, Call
<1> QED BY <1>1, <1>3 DEF PositionsKept

(* A call that returns has another one behind it.                           *)
LEMMA ReturnsKeeps ==
  ASSUME KernelTypes, NEW m \in Machine, ThreadsInv(m), NEW t \in Thread, Made(m, t),
         Call(m, t).op \notin {"halt", "finish"}, Returns(m, t), setup' = setup
  PROVE  PositionsKept(m)
<1>1. /\ pc' \in [Machine -> [Thread -> [call : Nat \ {0}, at : Place]]]
      /\ pc'[m][t].call = (IF t = "postal" THEN 1 ELSE pc[m][t].call + 1)
      /\ pc'[m][t].at = "start"
      /\ \A u \in Thread : u # t => pc'[m][u] = pc[m][u]
      /\ \A x \in Machine : x # m => pc'[x] = pc[x]
  BY ReturnsIs
<1>2. pc'[m][t].call \in DOMAIN Program(m, t)
  <2>1. CASE t = "postal"
    BY <1>1, <2>1, PostalIs
  <2>2. CASE t # "postal"
    <3> DEFINE p == Program(m, t)
    <3>1. /\ p \in Seq(Calls) /\ pc[m][t].call \in 1..Len(p)
          /\ p[Len(p)].op \in {"halt", "finish"} /\ Call(m, t) = p[pc[m][t].call]
      BY <2>2, CallIs, ThreadIs DEF Call
    <3> HIDE DEF p
    <3>2. pc[m][t].call # Len(p)
      BY <3>1
    <3>3. pc[m][t].call + 1 \in 1..Len(p) /\ DOMAIN p = 1..Len(p)
      BY <3>1, <3>2
    <3> QED BY <1>1, <2>2, <3>3 DEF p
  <2> QED BY <2>1, <2>2
<1>3. \A op : "start" \in PlacesOf(op)
  BY DEF PlacesOf
<1>4. ASSUME NEW u \in Thread, Made(m, u)
      PROVE  /\ pc'[m][u].call \in DOMAIN Program(m, u)
             /\ pc'[m][u].at \in PlacesOf(Program(m, u)[pc'[m][u].call].op)
  BY <1>1, <1>2, <1>3, <1>4 DEF ThreadsInv, Positions, Call
<1>5. Positions(m)'
  BY <1>4, ProgramStays DEF Positions, Call
<1> QED BY <1>1, <1>5 DEF PositionsKept

(* Semaphore::P: one unit is taken, or the thread sleeps.                   *)
LEMMA PKeeps ==
  ASSUME KernelTypes, NEW m \in Machine, ThreadsInv(m), NEW t \in Thread, Runs(m, t),
         NEW e \in Event, NEW w \in Place, w \in PlacesOf(Call(m, t).op),
         P(m, t, e, w), setup' = setup
  PROVE  QueuesKept(m) /\ PositionsKept(m)
<1>1. Made(m, t) /\ ready[m] # <<>>
  BY RunnerIs
<1>2. CASE Goes(m, t, w) /\ UNCHANGED <<ready, sleeps>>
  BY <1>2, GoesKeeps, QueuesStay DEF ThreadsInv
<1>3. CASE Sleeps(m, t, For(e)) /\ pc' = pc
  BY <1>1, <1>3, SleepsIs, PositionsStay, WishIs DEF ThreadsInv
<1> QED BY <1>2, <1>3 DEF P

(* OneTick puts the running thread behind the others.                       *)
LEMMA RotatesKeeps ==
  ASSUME KernelTypes, NEW m \in Machine, Queues(m), ready[m] # <<>>,
         ready' = [ready EXCEPT ![m] = Append(Tail(@), Head(@))],
         UNCHANGED <<setup, sleeps>>
  PROVE  QueuesKept(m)
<1> DEFINE r == ready[m]
           a == Append(Tail(r), Head(r))
           n == Len(r)
<1>1. r \in Seq(Thread) /\ n \in Nat \ {0} /\ DOMAIN r = 1..n
  BY DEF KernelTypes
<1>2. /\ Tail(r) \in Seq(Thread) /\ Len(Tail(r)) = n - 1 /\ Head(r) = r[1] /\ r[1] \in Thread
      /\ \A i \in 1..(n - 1) : Tail(r)[i] = r[i + 1]
  BY <1>1
<1> HIDE DEF n
<1>3. a \in Seq(Thread) /\ DOMAIN a = 1..n
      /\ \A i \in 1..n : a[i] = IF i = n THEN r[1] ELSE r[i + 1]
  <2>1. a \in Seq(Thread) /\ Len(a) = n
        /\ \A i \in 1..n : a[i] = IF i = n THEN Head(r) ELSE Tail(r)[i]
    BY <1>1, <1>2
  <2> HIDE DEF a, r
  <2> QED BY <1>1, <1>2, <2>1
<1> HIDE DEF a
<1>4. ready' \in [Machine -> Seq(Thread)] /\ ready'[m] = a
      /\ \A x \in Machine : x # m => ready'[x] = ready[x]
  BY <1>3 DEF KernelTypes, a
<1>5. \A i \in DOMAIN ready'[m] : Made(m, ready'[m][i])
  BY <1>1, <1>3, <1>4 DEF Queues
<1>6. Queues(m)'
  BY <1>5, ProgramStays DEF Queues
<1> QED BY <1>4, <1>6 DEF QueuesKept, KernelTypes

(* Every step of a machine keeps its threads in their programs.             *)
LEMMA ThreadsStep ==
  ASSUME KernelTypes, NEW m \in Machine, ThreadsInv(m), Steps(m)
  PROVE  setup' = setup /\ QueuesKept(m) /\ PositionsKept(m)
<1> USE DEF ThreadsInv
<1>1. ASSUME NEW t \in Thread, Acquire(m, t)
      PROVE  setup' = setup /\ QueuesKept(m) /\ PositionsKept(m)
  <2>1. Runs(m, t) /\ setup' = setup /\ "put" \in Place /\ "put" \in PlacesOf(Call(m, t).op)
    BY <1>1 DEF Acquire, Sends, PlacesOf, Place
  <2>2. Made(m, t) /\ ready[m] # <<>>
    BY <2>1, RunnerIs
  <2>3. CASE Goes(m, t, "put") /\ UNCHANGED <<ready, sleeps>>
    BY <2>1, <2>3, GoesKeeps, QueuesStay
  <2>4. CASE Sleeps(m, t, For("sendLock")) /\ pc' = pc
    BY <2>1, <2>2, <2>4, SleepsIs, PositionsStay, WishIs
  <2> QED BY <1>1, <2>1, <2>3, <2>4 DEF Acquire
<1>2. ASSUME NEW t \in Thread, Post(m, t)
      PROVE  setup' = setup /\ QueuesKept(m) /\ PositionsKept(m)
  <2>1. /\ Runs(m, t) /\ UNCHANGED <<setup, ready, sleeps>>
        /\ "wait" \in Place /\ "wait" \in PlacesOf(Call(m, t).op)
        /\ Goes(m, t, "wait") \/ pc' = pc
    BY <1>2 DEF Post, Sends, PlacesOf, Place
  <2> QED BY <2>1, GoesKeeps, QueuesStay, PositionsStay
<1>3. ASSUME NEW t \in Thread, AwaitSent(m, t)
      PROVE  setup' = setup /\ QueuesKept(m) /\ PositionsKept(m)
  <2>1. /\ Runs(m, t) /\ setup' = setup /\ P(m, t, "messageSent", "release")
        /\ "release" \in Place /\ "release" \in PlacesOf(Call(m, t).op)
        /\ "messageSent" \in Event
    BY <1>3 DEF AwaitSent, Sends, PlacesOf, Place, Event
  <2> QED BY <2>1, PKeeps
<1>4. ASSUME NEW t \in Thread, Release(m, t)
      PROVE  setup' = setup /\ QueuesKept(m) /\ PositionsKept(m)
  <2>1. /\ Runs(m, t) /\ setup' = setup /\ Wakes(m, For("sendLock")) /\ Returns(m, t)
        /\ Call(m, t).op \notin {"halt", "finish"}
    BY <1>4 DEF Release, Sends
  <2>2. Made(m, t)
    BY <2>1, RunnerIs
  <2> QED BY <2>1, <2>2, WakesIs, ReturnsKeeps, WishIs
<1>5. ASSUME NEW t \in Thread, Get(m, t)
      PROVE  setup' = setup /\ QueuesKept(m) /\ PositionsKept(m)
  <2>1. Runs(m, t) /\ setup' = setup /\ Call(m, t).op = "receive"
    BY <1>5 DEF Get, At
  <2>2. Made(m, t) /\ ready[m] # <<>>
    BY <2>1, RunnerIs
  <2>3. CASE Returns(m, t) /\ UNCHANGED <<ready, sleeps>>
    BY <2>1, <2>2, <2>3, ReturnsKeeps, QueuesStay
  <2>4. CASE Sleeps(m, t, Mail(BoxOf(m, t))) /\ pc' = pc
    <3>1. BoxOf(m, t) \in Box
      <4>1. t \in User
        BY <2>1, CallerIs
      <4>2. Call(m, t) \in Calls
        BY <2>2, <4>1, CallIs
      <4> QED BY <4>2 DEF BoxOf, Calls
    <3> QED BY <2>1, <2>2, <2>4, <3>1, SleepsIs, PositionsStay, WishIs
  <2> QED BY <1>5, <2>1, <2>3, <2>4 DEF Get
<1>6. CASE AwaitPacket(m) \/ TakePacket(m) \/ PutMail(m)
  <2>1. /\ Runs(m, "postal") /\ setup' = setup /\ "postal" \in Thread
        /\ Call(m, "postal").op = "deliver" /\ Made(m, "postal")
    BY <1>6, PostalIs DEF AwaitPacket, TakePacket, PutMail, Thread
  <2>2. /\ "take" \in Place /\ "take" \in PlacesOf(Call(m, "postal").op)
        /\ "put" \in Place /\ "put" \in PlacesOf(Call(m, "postal").op)
        /\ "messageAvailable" \in Event
    BY <2>1 DEF PlacesOf, Place, Event
  <2>3. CASE P(m, "postal", "messageAvailable", "take")
    BY <2>1, <2>2, <2>3, PKeeps
  <2>4. CASE Goes(m, "postal", "put") /\ UNCHANGED <<ready, sleeps>>
    BY <2>1, <2>2, <2>4, GoesKeeps, QueuesStay
  <2>5. CASE PutMail(m)
    <3>1. Wakes(m, Mail(hold[m][1].box)) /\ Returns(m, "postal")
      BY <2>5 DEF PutMail, Put
    <3>2. Mail(hold[m][1].box) # Awake
      BY DEF Mail, Awake
    <3> QED BY <2>1, <3>1, <3>2, WakesIs, ReturnsKeeps
  <2> QED BY <1>6, <2>1, <2>3, <2>4, <2>5 DEF AwaitPacket, TakePacket
<1>7. ASSUME NEW t \in Thread, AwaitChar(m, t) \/ AwaitWrite(m, t)
      PROVE  setup' = setup /\ QueuesKept(m) /\ PositionsKept(m)
  <2>1. /\ Runs(m, t) /\ setup' = setup /\ Call(m, t).op = "echo"
        /\ P(m, t, "readAvail", "echo") \/ P(m, t, "writeDone", "written")
    BY <1>7 DEF AwaitChar, AwaitWrite, At
  <2>2. /\ {"echo", "written"} \subseteq Place
        /\ {"echo", "written"} \subseteq PlacesOf(Call(m, t).op)
        /\ {"readAvail", "writeDone"} \subseteq Event
    BY <2>1 DEF PlacesOf, Place, Event
  <2> QED BY <2>1, <2>2, PKeeps
<1>8. ASSUME NEW t \in Thread, EchoChar(m, t) \/ NextChar(m, t) \/ Computes(m, t)
      PROVE  setup' = setup /\ QueuesKept(m) /\ PositionsKept(m)
  <2>1. /\ Runs(m, t) /\ UNCHANGED <<setup, ready, sleeps>>
        /\ Call(m, t).op \in {"echo", "compute"}
        /\ \/ pc' = pc
           \/ Returns(m, t)
           \/ Call(m, t).op = "echo" /\ \E w \in {"write", "start"} : Goes(m, t, w)
    BY <1>8 DEF EchoChar, NextChar, Computes, At
  <2>2. Made(m, t)
    BY <2>1, RunnerIs
  <2>3. CASE pc' = pc
    BY <2>1, <2>3, PositionsStay, QueuesStay
  <2>4. CASE Returns(m, t)
    BY <2>1, <2>2, <2>4, ReturnsKeeps, QueuesStay
  <2>5. ASSUME Call(m, t).op = "echo", NEW w \in {"write", "start"}, Goes(m, t, w)
        PROVE  PositionsKept(m) /\ QueuesKept(m)
    <3>1. w \in Place /\ w \in PlacesOf(Call(m, t).op)
      BY <2>5 DEF Place, PlacesOf
    <3> QED BY <2>1, <2>5, <3>1, GoesKeeps, QueuesStay
  <2> QED BY <2>1, <2>3, <2>4, <2>5
<1>9. ASSUME NEW t \in Thread, Ends(m, t) \/ HaltCalled(m, t)
      PROVE  setup' = setup /\ QueuesKept(m) /\ PositionsKept(m)
  <2>1. /\ Runs(m, t) /\ UNCHANGED <<setup, pc>>
        /\ UNCHANGED <<ready, sleeps>> \/ Sleeps(m, t, For("ever"))
    BY <1>9 DEF Ends, HaltCalled, thrVars
  <2>2. Made(m, t) /\ ready[m] # <<>>
    BY <2>1, RunnerIs
  <2> QED BY <2>1, <2>2, SleepsIs, QueuesStay, PositionsStay, WishIs
<1>10. CASE Fires(m)
  <2>1. UNCHANGED <<setup, pc>>
    BY <1>10 DEF Fires
  <2>2. UNCHANGED <<ready, sleeps>> \/ \E e \in Event : Wakes(m, For(e))
    BY <1>10 DEF Fires, CheckPktAvail, SendDone, CheckCharAvail, WriteDone, TimerExpired,
      IncomingPacket, PacketSent, ReadChar, V, Event, thrVars
  <2> QED BY <2>1, <2>2, QueuesStay, PositionsStay, WakesIs, WishIs
<1>11. CASE Resumes(m) \/ Idle(m)
  <2>1. /\ UNCHANGED <<setup, pc, sleeps>>
        /\ \/ ready' = ready
           \/ ready[m] # <<>> /\ ready' = [ready EXCEPT ![m] = Append(Tail(@), Head(@))]
    BY <1>11 DEF Resumes, Idle, thrVars
  <2> QED BY <2>1, QueuesStay, PositionsStay, RotatesKeeps
<1> QED BY <1>1, <1>2, <1>3, <1>4, <1>5, <1>6, <1>7, <1>8, <1>9, <1>10, <1>11
  DEF Steps

-----------------------------------------------------------------------------
(* The interrupts of a machine.                                             *)

PendingTyped(m) ==
  /\ pending' \in [Machine -> Seq(Interrupts)]
  /\ \A x \in Machine : x # m => pending'[x] = pending[x]

KindsKept(m, kinds) ==
  \A kind \in kinds : /\ None(pending'[m], kind) <=> None(pending[m], kind)
                      /\ One(pending[m], kind) => One(pending'[m], kind)

LEMMA PendingSame ==
  ASSUME KernelTypes, NEW m \in Machine, pending' = pending
  PROVE  PendingTyped(m) /\ KindsKept(m, Kind)
BY DEF PendingTyped, KindsKept, KernelTypes

LEMMA TicksIs ==
  ASSUME KernelTypes, NEW m \in Machine, NEW d \in Int,
         pending' = [pending EXCEPT ![m] = Elapsed(pending[m], d)]
  PROVE  PendingTyped(m) /\ KindsKept(m, Kind)
<1>1. pending \in [Machine -> Seq(Interrupts)] /\ pending[m] \in Seq(Interrupts)
  BY DEF KernelTypes
<1>2. /\ Elapsed(pending[m], d) \in Seq(Interrupts)
      /\ \A kind \in Kind : /\ None(Elapsed(pending[m], d), kind) <=> None(pending[m], kind)
                            /\ One(Elapsed(pending[m], d), kind) <=> One(pending[m], kind)
  BY <1>1, ElapsedIs
<1> DEFINE e == Elapsed(pending[m], d)
<1> HIDE DEF e
<1>3. PendingTyped(m) /\ pending'[m] = e
  BY <1>1, <1>2 DEF PendingTyped, e
<1> QED BY <1>2, <1>3 DEF KindsKept, e

LEMMA TickingIs ==
  ASSUME KernelTypes, NEW m \in Machine, Ticking(m)
  PROVE  PendingTyped(m) /\ KindsKept(m, Kind)
<1>1. pending' = [pending EXCEPT ![m] = Elapsed(pending[m], 1)] /\ 1 \in Int
  BY DEF Ticking, Ticks
<1> QED BY <1>1, TicksIs

LEMMA ScheduledIs ==
  ASSUME KernelTypes, NEW m \in Machine, NEW kind \in Kind, NEW d \in Int,
         pending' = [pending EXCEPT ![m] = Schedule(@, kind, d)]
  PROVE  /\ PendingTyped(m) /\ KindsKept(m, Kind \ {kind})
         /\ ~None(pending'[m], kind)
         /\ None(pending[m], kind) => One(pending'[m], kind)
<1>1. pending \in [Machine -> Seq(Interrupts)] /\ pending[m] \in Seq(Interrupts)
  BY DEF KernelTypes
<1> DEFINE e == Schedule(pending[m], kind, d)
<1>2. /\ e \in Seq(Interrupts) /\ ~None(e, kind)
      /\ None(pending[m], kind) => One(e, kind)
      /\ \A other \in Kind \ {kind} : /\ None(e, other) <=> None(pending[m], other)
                                      /\ One(pending[m], other) => One(e, other)
  BY <1>1, ScheduleIs
<1>3. pending' = [pending EXCEPT ![m] = e]
  OBVIOUS
<1> HIDE DEF e
<1>4. PendingTyped(m) /\ pending'[m] = e
  BY <1>1, <1>2, <1>3 DEF PendingTyped
<1> QED BY <1>2, <1>4 DEF KindsKept

LEMMA RemovedIs ==
  ASSUME KernelTypes, NEW m \in Machine, pending[m] # <<>>,
         pending' = [pending EXCEPT ![m] = Tail(pending[m])]
  PROVE  LET kind == Head(pending[m]).kind IN
         /\ PendingTyped(m) /\ KindsKept(m, Kind \ {kind})
         /\ kind \in Kind /\ ~None(pending[m], kind)
         /\ One(pending[m], kind) => None(pending'[m], kind)
<1>1. pending \in [Machine -> Seq(Interrupts)] /\ pending[m] \in Seq(Interrupts)
  BY DEF KernelTypes
<1> DEFINE e == Tail(pending[m])
           kind == Head(pending[m]).kind
<1>2. /\ e \in Seq(Interrupts) /\ kind \in Kind /\ ~None(pending[m], kind)
      /\ One(pending[m], kind) => None(e, kind)
      /\ \A other \in Kind \ {kind} : /\ None(e, other) <=> None(pending[m], other)
                                      /\ One(pending[m], other) => One(e, other)
  BY <1>1, TailIs
<1> HIDE DEF e, kind
<1>3. PendingTyped(m) /\ pending'[m] = e
  BY <1>1, <1>2 DEF PendingTyped, e
<1> QED BY <1>2, <1>3 DEF KindsKept, kind

LEMMA AgainIs ==
  ASSUME KernelTypes, NEW m \in Machine, pending[m] # <<>>, NEW d \in Int, NEW kind,
         kind = Head(pending[m]).kind,
         pending' = [pending EXCEPT ![m] = Schedule(Tail(pending[m]), kind, d)]
  PROVE  /\ PendingTyped(m) /\ KindsKept(m, Kind \ {kind})
         /\ kind \in Kind /\ ~None(pending'[m], kind)
<1>1. pending \in [Machine -> Seq(Interrupts)] /\ pending[m] \in Seq(Interrupts)
  BY DEF KernelTypes
<1> DEFINE r == Tail(pending[m])
           e == Schedule(r, kind, d)
<1>2. /\ r \in Seq(Interrupts) /\ kind \in Kind
      /\ \A other \in Kind \ {kind} : /\ None(r, other) <=> None(pending[m], other)
                                      /\ One(pending[m], other) => One(r, other)
  BY <1>1, TailIs
<1> HIDE DEF r
<1>3. /\ e \in Seq(Interrupts) /\ ~None(e, kind)
      /\ \A other \in Kind \ {kind} : /\ None(e, other) <=> None(r, other)
                                      /\ One(r, other) => One(e, other)
  BY <1>2, ScheduleIs
<1> HIDE DEF e
<1>4. PendingTyped(m) /\ pending'[m] = e
  BY <1>1, <1>3 DEF PendingTyped, e, r
<1> QED BY <1>2, <1>3, <1>4 DEF KindsKept

(* The interrupt that fires is the first one.                               *)
LEMMA FiresIs ==
  ASSUME KernelTypes, NEW m \in Machine, Fires(m)
  PROVE  /\ pending[m] # <<>> /\ life[m] = "up" /\ UNCHANGED <<setup, mode, pc>>
         /\ LET kind == Head(pending[m]).kind
                rest == Tail(pending[m]) IN
            \/ kind = "recv"  /\ CheckPktAvail(m, rest)
            \/ kind = "sent"  /\ SendDone(m, rest)
            \/ kind = "read"  /\ CheckCharAvail(m, rest)
            \/ kind = "write" /\ WriteDone(m, rest)
            \/ kind = "timer" /\ TimerExpired(m, rest)
BY DEF Fires, IsDue

(* The interrupts of the other devices do not change the ones of a kind     *)
(* that a thread awaits.                                                    *)
LEMMA PollsAgain ==
  ASSUME KernelTypes, NEW m \in Machine, Fires(m),
         Head(pending[m]).kind \in {"recv", "read", "timer"}
  PROVE  /\ PendingTyped(m) /\ KindsKept(m, Kind \ {Head(pending[m]).kind})
         /\ ~None(pending'[m], Head(pending[m]).kind)
<1> DEFINE kind == Head(pending[m]).kind
           rest == Tail(pending[m])
<1>1. pending[m] # <<>>
  BY FiresIs
<1>2. \E d \in Int : pending' = [pending EXCEPT ![m] = Schedule(rest, kind, d)]
  <2>1. \/ kind = "recv" /\ CheckPktAvail(m, rest)
        \/ kind = "read" /\ CheckCharAvail(m, rest)
        \/ kind = "timer" /\ TimerExpired(m, rest)
    BY FiresIs
  <2> HIDE DEF rest, kind
  <2>3. CASE kind = "recv" /\ CheckPktAvail(m, rest)
    <3>1. NetworkTime \in Int
      BY TimesAssumption
    <3>2. pending' = [pending EXCEPT ![m] = Schedule(rest, kind, NetworkTime)]
      BY <2>3 DEF CheckPktAvail
    <3> QED BY <3>1, <3>2
  <2>4. CASE kind = "read" /\ CheckCharAvail(m, rest)
    <3>1. ConsoleTime \in Int
      BY TimesAssumption
    <3>2. pending' = [pending EXCEPT ![m] = Schedule(rest, kind, ConsoleTime)]
      BY <2>4 DEF CheckCharAvail
    <3> QED BY <3>1, <3>2
  <2>5. CASE kind = "timer" /\ TimerExpired(m, rest)
    <3>1. PICK d \in TimerDelay : pending' = [pending EXCEPT ![m] = TimerStart(rest, d)]
      BY <2>5 DEF TimerExpired, TimeOfNextInterrupt
    <3>2. TimerStart(rest, d) = Schedule(rest, kind, d)
      BY <2>5 DEF TimerStart
    <3>3. d \in Int
      BY TimesAssumption
    <3> QED BY <3>1, <3>2, <3>3
  <2> QED BY <2>1, <2>3, <2>4, <2>5
<1>3. PICK d \in Int : pending' = [pending EXCEPT ![m] = Schedule(rest, kind, d)]
  BY <1>2
<1> QED BY <1>1, <1>3, AgainIs

-----------------------------------------------------------------------------
(* What a step does with the interrupts, the semaphores and the life of a   *)
(* machine.                                                                 *)

CountKept(m, events) ==
  /\ count' \in [Machine -> [Event -> Nat]]
  /\ \A x \in Machine : x # m => count'[x] = count[x]
  /\ \A e \in events : count'[m][e] = count[m][e]

Calm(m, kinds, events) ==
  PendingTyped(m) /\ KindsKept(m, kinds) /\ CountKept(m, events)

LEMMA CountSame ==
  ASSUME KernelTypes, NEW m \in Machine, count' = count
  PROVE  CountKept(m, Event)
BY DEF KernelTypes, CountKept

LEMMA CalmIs ==
  ASSUME KernelTypes, NEW m \in Machine, count' = count,
         pending' = pending \/ Ticking(m)
  PROVE  Calm(m, Kind, Event)
BY CountSame, PendingSame, TickingIs DEF Calm

LEMMA PIs ==
  ASSUME KernelTypes, NEW m \in Machine, NEW t \in Thread, NEW e \in Event, NEW w \in Place,
         P(m, t, e, w)
  PROVE  /\ Calm(m, Kind, Event \ {e})
         /\ \/ count[m][e] > 0 /\ count'[m][e] = count[m][e] - 1 /\ Goes(m, t, w)
            \/ count[m][e] = 0 /\ count'[m][e] = 0 /\ pc' = pc
<1>1. count \in [Machine -> [Event -> Nat]]
  BY DEF KernelTypes
<1>2. CASE /\ count[m][e] > 0
           /\ Ticking(m)
           /\ count' = [count EXCEPT ![m][e] = @ - 1]
           /\ Goes(m, t, w)
  <2>1. /\ CountKept(m, Event \ {e}) /\ count'[m][e] = count[m][e] - 1
    <3>1. count[m][e] - 1 \in Nat
      BY <1>1, <1>2
    <3> DEFINE less == count[m][e] - 1
    <3> HIDE DEF less, Event
    <3>2. count' = [count EXCEPT ![m][e] = less]
      BY <1>2 DEF less
    <3>3. less \in Nat
      BY <3>1 DEF less
    <3>4. CountKept(m, Event \ {e}) /\ count'[m][e] = less
      BY <1>1, <3>2, <3>3 DEF CountKept
    <3> QED BY <3>4 DEF less
  <2>2. PendingTyped(m) /\ KindsKept(m, Kind)
    BY <1>2, TickingIs
  <2> QED BY <1>2, <2>1, <2>2 DEF Calm
<1>3. CASE count[m][e] = 0 /\ Sleeps(m, t, For(e)) /\ UNCHANGED <<count, pc>>
  <2>1. pending' = pending
    BY <1>3 DEF Sleeps
  <2>2. Calm(m, Kind, Event)
    BY <1>3, <2>1, CalmIs
  <2> QED BY <1>3, <2>2 DEF Calm, CountKept
<1> QED BY <1>2, <1>3 DEF P

LEMMA VIs ==
  ASSUME KernelTypes, NEW m \in Machine, NEW e \in Event, V(m, e)
  PROVE  CountKept(m, Event \ {e}) /\ count'[m][e] = count[m][e] + 1
<1>1. count \in [Machine -> [Event -> Nat]]
  BY DEF KernelTypes
<1> DEFINE more == count[m][e] + 1
<1>2. count' = [count EXCEPT ![m][e] = more] /\ more \in Nat
  BY <1>1 DEF V
<1> HIDE DEF more, Event
<1>3. CountKept(m, Event \ {e}) /\ count'[m][e] = more
  BY <1>1, <1>2 DEF CountKept
<1> QED BY <1>3 DEF more

(* The steps that touch neither an interrupt of a kind nor a semaphore.     *)
Plain(m, t) ==
  \/ Acquire(m, t) \/ Release(m, t) \/ Get(m, t) \/ NextChar(m, t) \/ Computes(m, t)
  \/ Ends(m, t) \/ HaltCalled(m, t) \/ TakePacket(m) \/ PutMail(m) \/ Resumes(m) \/ Idle(m)

LEMMA PlainCalm ==
  ASSUME KernelTypes, NEW m \in Machine, NEW t, Plain(m, t)
  PROVE  Calm(m, Kind, Event)
<1>1. count' = count
  BY DEF Plain, Acquire, Release, Get, NextChar, Computes, Ends, HaltCalled, TakePacket,
    PutMail, Resumes, Idle, thrVars
<1>2. \/ pending' = pending \/ Ticking(m)
      \/ Idle(m) /\ pending[m] # <<>> /\ pending' = [pending EXCEPT ![m] = Elapsed(@, @[1].due)]
  BY DEF Plain, Acquire, Release, Get, NextChar, Computes, Ends, HaltCalled, TakePacket,
    PutMail, Resumes, Idle, Sleeps
<1>3. CASE pending' = pending \/ Ticking(m)
  BY <1>1, <1>3, CalmIs
<1>4. CASE pending[m] # <<>> /\ pending' = [pending EXCEPT ![m] = Elapsed(@, @[1].due)]
  <2> DEFINE d == pending[m][1].due
  <2>1. d \in Int
    <3>1. pending[m] \in Seq(Interrupts)
      BY DEF KernelTypes
    <3>2. pending[m][1] \in Interrupts
      <4> HIDE DEF Interrupts
      <4> QED BY <1>4, <3>1
    <3> QED BY <3>2 DEF Interrupts
  <2>2. pending' = [pending EXCEPT ![m] = Elapsed(pending[m], d)]
    BY <1>4
  <2> HIDE DEF d
  <2>3. PendingTyped(m) /\ KindsKept(m, Kind)
    BY <2>1, <2>2, TicksIs
  <2> QED BY <1>1, <2>3, CountSame DEF Calm
<1> QED BY <1>2, <1>3, <1>4

(* A packet that is sent has one interrupt to come.                         *)
LEMMA PostCalm ==
  ASSUME KernelTypes, NEW m \in Machine, NEW t \in Thread, Post(m, t)
  PROVE  /\ Calm(m, Kind \ {"sent"}, Event)
         /\ \/ /\ Goes(m, t, "wait") /\ life' = life
               /\ None(pending[m], "sent") => One(pending'[m], "sent")
            \/ /\ KindsKept(m, Kind) /\ pc' = pc /\ UNCHANGED <<wire, posted>>
               /\ life[Target(m, t)] # "up" /\ life' = [life EXCEPT ![m] = "aborted"]
<1>1. count' = count
  BY DEF Post
<1>2. CASE /\ pending' = [pending EXCEPT ![m] = Schedule(@, "sent", NetworkTime)]
           /\ Goes(m, t, "wait") /\ life' = life
  <2>1. "sent" \in Kind /\ NetworkTime \in Int
    BY TimesAssumption DEF Kind
  <2>2. /\ PendingTyped(m) /\ KindsKept(m, Kind \ {"sent"})
        /\ None(pending[m], "sent") => One(pending'[m], "sent")
    BY <1>2, <2>1, ScheduledIs
  <2> QED BY <1>1, <1>2, <2>2, CountSame DEF Calm
<1>3. CASE /\ life[Target(m, t)] # "up" /\ life' = [life EXCEPT ![m] = "aborted"]
           /\ UNCHANGED <<wire, posted, pending, pc>>
  <2>1. Calm(m, Kind, Event) /\ KindsKept(m, Kind)
    BY <1>1, <1>3, CalmIs DEF Calm
  <2> QED BY <1>3, <2>1 DEF Calm, KindsKept
<1> QED BY <1>2, <1>3 DEF Post

(* The same for a character of the display.                                 *)
LEMMA EchoCalm ==
  ASSUME KernelTypes, NEW m \in Machine, NEW t \in Thread, EchoChar(m, t)
  PROVE  /\ Calm(m, Kind \ {"write"}, Event)
         /\ \/ /\ ~putBusy[m] /\ Goes(m, t, "write") /\ life' = life
               /\ putBusy' = [putBusy EXCEPT ![m] = TRUE]
               /\ ~None(pending'[m], "write")
               /\ None(pending[m], "write") => One(pending'[m], "write")
            \/ /\ putBusy[m] /\ KindsKept(m, Kind) /\ UNCHANGED <<pc, putBusy>>
               /\ life' = [life EXCEPT ![m] = "aborted"]
<1>1. count' = count
  BY DEF EchoChar
<1>2. CASE ~putBusy[m]
  <2>1. "write" \in Kind /\ ConsoleTime \in Int
    BY TimesAssumption DEF Kind
  <2>2. /\ pending' = [pending EXCEPT ![m] = Schedule(@, "write", ConsoleTime)]
        /\ putBusy' = [putBusy EXCEPT ![m] = TRUE] /\ Goes(m, t, "write") /\ life' = life
    BY <1>2 DEF EchoChar
  <2>3. /\ PendingTyped(m) /\ KindsKept(m, Kind \ {"write"})
        /\ ~None(pending'[m], "write")
        /\ None(pending[m], "write") => One(pending'[m], "write")
    BY <2>1, <2>2, ScheduledIs
  <2> QED BY <1>1, <1>2, <2>2, <2>3, CountSame DEF Calm
<1>3. CASE putBusy[m]
  <2>1. /\ UNCHANGED <<pending, putBusy, pc>> /\ life' = [life EXCEPT ![m] = "aborted"]
    BY <1>3 DEF EchoChar
  <2>2. Calm(m, Kind, Event) /\ KindsKept(m, Kind)
    BY <1>1, <2>1, CalmIs DEF Calm
  <2> QED BY <1>3, <2>1, <2>2 DEF Calm, KindsKept
<1> QED BY <1>2, <1>3

(* A device polls again; another one is done, and raises a semaphore.       *)
LEMMA PollCalm ==
  ASSUME KernelTypes, NEW m \in Machine, Fires(m)
  PROVE  LET kind == Head(pending[m]).kind
             rest == Tail(pending[m])
         IN
         \/ /\ kind = "recv" /\ CheckPktAvail(m, rest)
            /\ Calm(m, Kind \ {kind}, Event \ {"messageAvailable"})
            /\ ~None(pending'[m], kind)
         \/ /\ kind = "read" /\ CheckCharAvail(m, rest)
            /\ Calm(m, Kind \ {kind}, Event \ {"readAvail"})
         \/ kind = "timer" /\ TimerExpired(m, rest) /\ Calm(m, Kind \ {kind}, Event)
         \/ /\ kind = "sent" /\ SendDone(m, rest)
            /\ Calm(m, Kind \ {kind}, Event \ {"messageSent"})
            /\ ~None(pending[m], kind)
            /\ One(pending[m], kind) => None(pending'[m], kind)
            /\ count'[m]["messageSent"] = count[m]["messageSent"] + 1
         \/ /\ kind = "write" /\ WriteDone(m, rest)
            /\ Calm(m, Kind \ {kind}, Event \ {"writeDone"})
            /\ ~None(pending[m], kind)
            /\ One(pending[m], kind) => None(pending'[m], kind)
            /\ count'[m]["writeDone"] = count[m]["writeDone"] + 1
<1> DEFINE kind == Head(pending[m]).kind
           rest == Tail(pending[m])
<1>1. /\ pending[m] # <<>>
      /\ \/ kind = "recv"  /\ CheckPktAvail(m, rest)
         \/ kind = "sent"  /\ SendDone(m, rest)
         \/ kind = "read"  /\ CheckCharAvail(m, rest)
         \/ kind = "write" /\ WriteDone(m, rest)
         \/ kind = "timer" /\ TimerExpired(m, rest)
  BY FiresIs
<1>2. ASSUME NEW e \in Event, CountKept(m, Event) PROVE CountKept(m, Event \ {e})
  BY <1>2 DEF CountKept
<1>3. {"messageAvailable", "messageSent", "readAvail", "writeDone"} \subseteq Event
  BY DEF Event
<1>4. CASE kind \in {"recv", "read", "timer"}
  <2>1. /\ PendingTyped(m) /\ KindsKept(m, Kind \ {kind})
        /\ ~None(pending'[m], kind)
    BY <1>4, PollsAgain
  <2>2. CASE kind = "recv" /\ CheckPktAvail(m, rest)
    <3>1. CountKept(m, Event \ {"messageAvailable"})
      <4>1. count' = count \/ V(m, "messageAvailable")
        BY <2>2 DEF CheckPktAvail, IncomingPacket
      <4> QED BY <1>2, <1>3, <4>1, VIs, CountSame
    <3> QED BY <2>1, <2>2, <3>1 DEF Calm
  <2>3. CASE kind = "read" /\ CheckCharAvail(m, rest)
    <3>1. CountKept(m, Event \ {"readAvail"})
      <4>1. count' = count \/ V(m, "readAvail")
        BY <2>3 DEF CheckCharAvail, ReadChar
      <4> QED BY <1>2, <1>3, <4>1, VIs, CountSame
    <3> QED BY <2>1, <2>3, <3>1 DEF Calm
  <2>4. CASE kind = "timer" /\ TimerExpired(m, rest)
    <3>1. count' = count
      BY <2>4 DEF TimerExpired, thrVars
    <3> QED BY <2>1, <2>4, <3>1, CountSame DEF Calm
  <2> QED BY <1>1, <1>4, <2>2, <2>3, <2>4
<1>5. CASE kind = "sent" /\ SendDone(m, rest)
  <2>1. pending' = [pending EXCEPT ![m] = Tail(pending[m])] /\ V(m, "messageSent")
    BY <1>5 DEF SendDone, PacketSent
  <2> QED BY <1>1, <1>3, <1>5, <2>1, VIs, RemovedIs DEF Calm
<1>6. CASE kind = "write" /\ WriteDone(m, rest)
  <2>1. pending' = [pending EXCEPT ![m] = Tail(pending[m])] /\ V(m, "writeDone")
    BY <1>6 DEF WriteDone
  <2> QED BY <1>1, <1>3, <1>6, <2>1, VIs, RemovedIs DEF Calm
<1> QED BY <1>1, <1>4, <1>5, <1>6

-----------------------------------------------------------------------------
(* The lock of the senders, and the interrupt that the one who has it       *)
(* awaits.                                                                  *)

LEMMA CallStays ==
  ASSUME setup' = setup, NEW m, NEW t, pc'[m][t].call = pc[m][t].call
  PROVE  Call(m, t)' = Call(m, t) /\ (Sends(m, t)' <=> Sends(m, t))
BY ProgramStays DEF Call, Sends

(* The steps of a thread whose call is not one of PostOffice::Send, and of  *)
(* the machine under the threads.                                           *)
Foreign(m, t) ==
  \/ Get(m, t) \/ AwaitChar(m, t) \/ EchoChar(m, t) \/ AwaitWrite(m, t) \/ NextChar(m, t)
  \/ Computes(m, t) \/ Ends(m, t) \/ HaltCalled(m, t)
  \/ t = "postal" /\ (AwaitPacket(m) \/ TakePacket(m) \/ PutMail(m))

LEMMA ForeignIs ==
  ASSUME KernelTypes, NEW m \in Machine, ThreadsInv(m), NEW t \in Thread, Foreign(m, t)
  PROVE  /\ Runs(m, t) /\ ~Sends(m, t)
         /\ \/ pc' = pc
            \/ Returns(m, t)
            \/ \E w \in Place : Goes(m, t, w)
<1>1. CASE t = "postal" /\ (AwaitPacket(m) \/ TakePacket(m) \/ PutMail(m))
  <2>1. Runs(m, t) /\ ~Sends(m, t)
    BY <1>1, PostalIs DEF AwaitPacket, TakePacket, PutMail
  <2> QED BY <1>1, <2>1 DEF AwaitPacket, TakePacket, PutMail, P, Place
<1>2. CASE ~(t = "postal" /\ (AwaitPacket(m) \/ TakePacket(m) \/ PutMail(m)))
  <2>1. Runs(m, t) /\ Call(m, t).op \in {"receive", "echo", "compute", "finish", "halt"}
    BY <1>2 DEF Foreign, Get, AwaitChar, EchoChar, AwaitWrite, NextChar, Computes, Ends,
      HaltCalled, At
  <2>2. ~Sends(m, t)
    BY <2>1 DEF Sends
  <2>3. \/ pc' = pc
        \/ Returns(m, t)
        \/ \E w \in Place : Goes(m, t, w)
    BY <1>2 DEF Foreign, Get, AwaitChar, EchoChar, AwaitWrite, NextChar, Computes, Ends,
      HaltCalled, P, Place, thrVars
  <2> QED BY <2>1, <2>2, <2>3
<1> QED BY <1>1, <1>2

(* They leave the senders where they are.                                   *)
SendersStay(m) ==
  \A u \in Thread : /\ Sending(m, u)' <=> Sending(m, u)
                    /\ Sending(m, u) => pc'[m][u] = pc[m][u]

LEMMA ForeignStays ==
  ASSUME KernelTypes, NEW m \in Machine, NEW t \in Thread, ~Sends(m, t), setup' = setup,
         \/ pc' = pc
         \/ Returns(m, t)
         \/ \E w \in Place : Goes(m, t, w)
  PROVE  SendersStay(m)
<1>1. ASSUME NEW u \in Thread, pc'[m][u] = pc[m][u]
      PROVE  Sending(m, u)' <=> Sending(m, u)
  BY <1>1, CallStays, ProgramStays DEF Sending
<1>2. \A u \in Thread : u # t => pc'[m][u] = pc[m][u]
  BY GoesIs, ReturnsIs
<1>3. ~Sending(m, t)
  BY DEF Sending
<1>4. ~(Sending(m, t)')
  <2>1. CASE pc' = pc
    BY <1>1, <1>3, <2>1
  <2>2. CASE Returns(m, t)
    BY <2>2, ReturnsIs DEF Sending
  <2>3. ASSUME NEW w \in Place, Goes(m, t, w) PROVE ~(Sending(m, t)')
    BY <2>3, GoesIs, CallStays DEF Sending
  <2> QED BY <2>1, <2>2, <2>3
<1> QED BY <1>1, <1>2, <1>3, <1>4 DEF SendersStay

LEMMA SendAside ==
  ASSUME NEW m \in Machine, SendInv(m), SendersStay(m), holder'[m] = holder[m],
         holder[m] \subseteq Thread,
         Calm(m, {"sent"}, {"messageSent"})
  PROVE  SendInv(m)'
<1>1. \A t \in Thread : t \in holder'[m] <=> Sending(m, t)'
  BY DEF SendInv, SendersStay
<1>2. \A t, u \in holder'[m] : t = u
  BY DEF SendInv
<1>3. (\E t \in holder'[m] : pc'[m][t].at = "wait")
        <=> (\E t \in holder[m] : pc[m][t].at = "wait")
  BY DEF SendInv, SendersStay
<1>4. /\ Awaited(m, "sent", "messageSent") => Awaited(m, "sent", "messageSent")'
      /\ Quiet(m, "sent", "messageSent") => Quiet(m, "sent", "messageSent")'
  BY DEF Calm, KindsKept, CountKept, Awaited, Quiet
<1> QED BY <1>1, <1>2, <1>3, <1>4 DEF SendInv

LEMMA SendersSame ==
  ASSUME setup' = setup, pc' = pc, NEW m
  PROVE  SendersStay(m)
BY CallStays, ProgramStays DEF SendersStay, Sending

LEMMA AcquireKeeps ==
  ASSUME KernelTypes, MailTypes, NEW m \in Machine, ThreadsInv(m), SendInv(m),
         NEW t \in Thread, Acquire(m, t)
  PROVE  SendInv(m)'
<1>1. /\ Runs(m, t) /\ Sends(m, t) /\ setup' = setup /\ Made(m, t)
      /\ holder \in [Machine -> SUBSET Thread]
  BY RunnerIs DEF Acquire, MailTypes
<1>2. Calm(m, Kind, Event)
  BY PlainCalm DEF Plain
<1>3. "sent" \in Kind /\ "messageSent" \in Event
  BY DEF Kind, Event
<1>4. CASE holder[m] = {} /\ holder' = [holder EXCEPT ![m] = {t}] /\ Goes(m, t, "put")
  <2>1. holder'[m] = {t}
    BY <1>1, <1>4
  <2>2. /\ pc'[m][t].call = pc[m][t].call /\ pc'[m][t].at = "put"
        /\ \A u \in Thread : u # t => pc'[m][u] = pc[m][u]
    BY <1>4, GoesIs DEF Place
  <2>3. Sending(m, t)'
    BY <1>1, <2>2, CallStays, ProgramStays DEF Sending
  <2>4. \A u \in Thread : u # t => ~(Sending(m, u)')
    BY <1>1, <1>4, <2>2, CallStays, ProgramStays DEF Sending, SendInv
  <2>5. Quiet(m, "sent", "messageSent")
    BY <1>4 DEF SendInv
  <2>6. Quiet(m, "sent", "messageSent")'
    BY <1>2, <1>3, <2>5 DEF Calm, KindsKept, CountKept, Quiet
  <2> QED BY <2>1, <2>2, <2>3, <2>4, <2>6 DEF SendInv
<1>5. CASE UNCHANGED <<holder, pc>>
  BY <1>1, <1>2, <1>3, <1>5, SendersSame, SendAside DEF Calm, KindsKept, CountKept
<1> QED BY <1>4, <1>5 DEF Acquire

LEMMA PostKeeps ==
  ASSUME KernelTypes, MailTypes, NEW m \in Machine, ThreadsInv(m), SendInv(m),
         NEW t \in Thread, Post(m, t)
  PROVE  SendInv(m)'
<1>1. /\ Runs(m, t) /\ Sends(m, t) /\ pc[m][t].at = "put" /\ UNCHANGED <<setup, holder>>
      /\ Made(m, t) /\ holder \in [Machine -> SUBSET Thread]
  BY RunnerIs DEF Post, MailTypes
<1>2. "sent" \in Kind /\ "messageSent" \in Event
  BY DEF Kind, Event
<1>3. t \in holder[m] /\ \A u \in holder[m] : u = t
  BY <1>1 DEF SendInv, Sending
<1>4. Quiet(m, "sent", "messageSent")
  BY <1>1, <1>3 DEF SendInv
<1>5. CASE /\ Calm(m, Kind \ {"sent"}, Event) /\ Goes(m, t, "wait")
           /\ None(pending[m], "sent") => One(pending'[m], "sent")
  <2>1. /\ pc'[m][t].call = pc[m][t].call /\ pc'[m][t].at = "wait"
        /\ \A u \in Thread : u # t => pc'[m][u] = pc[m][u]
    BY <1>5, GoesIs DEF Place
  <2>2. Sending(m, t)'
    BY <1>1, <2>1, CallStays, ProgramStays DEF Sending
  <2>3. \A u \in Thread : u # t => ~(Sending(m, u)')
    BY <1>1, <1>3, <2>1, CallStays, ProgramStays DEF Sending, SendInv
  <2>4. Awaited(m, "sent", "messageSent")'
    BY <1>2, <1>4, <1>5 DEF Calm, CountKept, Quiet, Awaited
  <2> QED BY <1>1, <1>3, <2>1, <2>2, <2>3, <2>4 DEF SendInv
<1>6. CASE Calm(m, Kind \ {"sent"}, Event) /\ KindsKept(m, Kind) /\ pc' = pc
  <2>1. Calm(m, {"sent"}, {"messageSent"})
    BY <1>2, <1>6 DEF Calm, KindsKept, CountKept
  <2> QED BY <1>1, <1>6, <2>1, SendersSame, SendAside
<1> QED BY <1>5, <1>6, PostCalm

LEMMA AwaitKeeps ==
  ASSUME KernelTypes, MailTypes, NEW m \in Machine, ThreadsInv(m), SendInv(m),
         NEW t \in Thread, AwaitSent(m, t)
  PROVE  SendInv(m)'
<1>1. /\ Runs(m, t) /\ Sends(m, t) /\ pc[m][t].at = "wait" /\ UNCHANGED <<setup, holder>>
      /\ Made(m, t) /\ holder \in [Machine -> SUBSET Thread]
  BY RunnerIs DEF AwaitSent, MailTypes, netVars
<1>2. /\ "sent" \in Kind /\ "messageSent" \in Event /\ "release" \in Place
      /\ count \in [Machine -> [Event -> Nat]]
  BY DEF Kind, Event, Place, KernelTypes
<1>3. t \in holder[m] /\ \A u \in holder[m] : u = t
  BY <1>1 DEF SendInv, Sending
<1>4. Awaited(m, "sent", "messageSent")
  BY <1>1, <1>3 DEF SendInv
<1>5. /\ Calm(m, Kind, Event \ {"messageSent"})
      /\ \/ /\ count[m]["messageSent"] > 0
            /\ count'[m]["messageSent"] = count[m]["messageSent"] - 1
            /\ Goes(m, t, "release")
         \/ count[m]["messageSent"] = 0 /\ count'[m]["messageSent"] = 0 /\ pc' = pc
  BY <1>2, PIs DEF AwaitSent
<1>6. CASE /\ count[m]["messageSent"] > 0
           /\ count'[m]["messageSent"] = count[m]["messageSent"] - 1
           /\ Goes(m, t, "release")
  <2>1. /\ pc'[m][t].call = pc[m][t].call /\ pc'[m][t].at = "release"
        /\ \A u \in Thread : u # t => pc'[m][u] = pc[m][u]
    BY <1>2, <1>6, GoesIs
  <2>2. Sending(m, t)'
    BY <1>1, <2>1, CallStays, ProgramStays DEF Sending
  <2>3. \A u \in Thread : u # t => ~(Sending(m, u)')
    BY <1>1, <1>3, <2>1, CallStays, ProgramStays DEF Sending, SendInv
  <2>4. None(pending[m], "sent") /\ count[m]["messageSent"] = 1
    BY <1>4, <1>6 DEF Awaited
  <2>5. Quiet(m, "sent", "messageSent")'
    BY <1>2, <1>5, <1>6, <2>4 DEF Calm, KindsKept, Quiet
  <2> QED BY <1>1, <1>3, <2>1, <2>2, <2>3, <2>5 DEF SendInv
<1>7. CASE count[m]["messageSent"] = 0 /\ count'[m]["messageSent"] = 0 /\ pc' = pc
  <2>1. Calm(m, {"sent"}, {"messageSent"})
    BY <1>2, <1>5, <1>7 DEF Calm, KindsKept, CountKept
  <2> QED BY <1>1, <1>7, <2>1, SendersSame, SendAside
<1> QED BY <1>5, <1>6, <1>7

LEMMA ReleaseKeeps ==
  ASSUME KernelTypes, MailTypes, NEW m \in Machine, ThreadsInv(m), SendInv(m),
         NEW t \in Thread, Release(m, t)
  PROVE  SendInv(m)'
<1>1. /\ Runs(m, t) /\ Sends(m, t) /\ pc[m][t].at = "release" /\ setup' = setup
      /\ Returns(m, t) /\ holder' = [holder EXCEPT ![m] = @ \ {t}]
      /\ Made(m, t) /\ holder \in [Machine -> SUBSET Thread]
  BY RunnerIs DEF Release, MailTypes
<1>2. t \in holder[m] /\ \A u \in holder[m] : u = t
  BY <1>1 DEF SendInv, Sending
<1>3. holder'[m] = {}
  BY <1>1, <1>2
<1>4. /\ pc'[m][t].at = "start"
      /\ \A u \in Thread : u # t => pc'[m][u] = pc[m][u]
  BY <1>1, ReturnsIs
<1>5. \A u \in Thread : ~(Sending(m, u)')
  BY <1>1, <1>2, <1>4, CallStays, ProgramStays DEF Sending, SendInv
<1>6. Quiet(m, "sent", "messageSent")
  BY <1>1, <1>2 DEF SendInv
<1>7. Calm(m, Kind, Event) /\ "sent" \in Kind /\ "messageSent" \in Event
  BY PlainCalm DEF Plain, Kind, Event
<1>8. Quiet(m, "sent", "messageSent")'
  BY <1>6, <1>7 DEF Calm, KindsKept, CountKept, Quiet
<1> QED BY <1>3, <1>5, <1>8 DEF SendInv

LEMMA SendDoneKeeps ==
  ASSUME KernelTypes, MailTypes, NEW m \in Machine, SendInv(m), Fires(m),
         Head(pending[m]).kind = "sent"
  PROVE  SendInv(m)'
<1>1. /\ UNCHANGED <<setup, pc, holder>> /\ holder \in [Machine -> SUBSET Thread]
  BY FiresIs DEF SendDone, MailTypes, netVars
<1>2. /\ ~None(pending[m], "sent")
      /\ One(pending[m], "sent") => None(pending'[m], "sent")
      /\ count'[m]["messageSent"] = count[m]["messageSent"] + 1
  BY PollCalm
<1>3. ~Quiet(m, "sent", "messageSent")
  BY <1>2 DEF Quiet
<1>4. (\E t \in holder[m] : pc[m][t].at = "wait") /\ Awaited(m, "sent", "messageSent")
  BY <1>3 DEF SendInv
<1>5. Awaited(m, "sent", "messageSent")'
  BY <1>2, <1>4 DEF Awaited
<1>6. \A t \in Thread : Sending(m, t)' <=> Sending(m, t)
  BY <1>1, SendersSame DEF SendersStay
<1> QED BY <1>1, <1>4, <1>5, <1>6 DEF SendInv

LEMMA SendStep ==
  ASSUME KernelTypes, MailTypes, NEW m \in Machine, ThreadsInv(m), SendInv(m), Steps(m)
  PROVE  SendInv(m)'
<1>1. setup' = setup /\ holder[m] \subseteq Thread
  BY ThreadsStep DEF MailTypes
<1>2. "sent" \in Kind /\ "messageSent" \in Event
  BY DEF Kind, Event
<1>3. ASSUME NEW t \in Thread, Foreign(m, t) PROVE SendInv(m)'
  <2>1. SendersStay(m)
    BY <1>1, <1>3, ForeignIs, ForeignStays
  <2>2. holder' = holder
    BY <1>3 DEF Foreign, Get, AwaitChar, EchoChar, AwaitWrite, NextChar, Computes, Ends,
      HaltCalled, AwaitPacket, TakePacket, PutMail, netVars
  <2>3. Calm(m, {"sent"}, {"messageSent"})
    <3>1. CASE Plain(m, t)
      BY <1>2, <3>1, PlainCalm DEF Calm, KindsKept, CountKept
    <3>2. CASE EchoChar(m, t)
      BY <1>2, <3>2, EchoCalm DEF Calm, KindsKept, CountKept
    <3>3. CASE AwaitChar(m, t) \/ AwaitWrite(m, t) \/ (t = "postal" /\ AwaitPacket(m))
      <4>1. \E e \in Event \ {"messageSent"}, w \in Place : P(m, t, e, w)
        BY <3>3 DEF AwaitChar, AwaitWrite, AwaitPacket, Event, Place
      <4>2. PICK e \in Event \ {"messageSent"} : \E w \in Place : P(m, t, e, w)
        BY <4>1
      <4>3. Calm(m, Kind, Event \ {e})
        BY <4>2, PIs
      <4> QED BY <1>2, <4>3 DEF Calm, KindsKept, CountKept
    <3> QED BY <1>3, <3>1, <3>2, <3>3 DEF Foreign, Plain
  <2> QED BY <1>1, <2>1, <2>2, <2>3, SendAside
<1>4. CASE Fires(m) /\ Head(pending[m]).kind # "sent"
  <2>1. UNCHANGED <<pc, holder>>
    BY <1>4, FiresIs DEF CheckPktAvail, CheckCharAvail, WriteDone, TimerExpired, netVars
  <2>2. Calm(m, {"sent"}, {"messageSent"})
    BY <1>2, <1>4, PollCalm DEF Calm, KindsKept, CountKept
  <2> QED BY <1>1, <2>1, <2>2, SendersSame, SendAside
<1>5. CASE Resumes(m) \/ Idle(m)
  <2>1. UNCHANGED <<pc, holder>>
    BY <1>5 DEF Resumes, Idle, thrVars, netVars
  <2>2. Calm(m, Kind, Event)
    BY <1>5, PlainCalm DEF Plain
  <2>3. Calm(m, {"sent"}, {"messageSent"})
    BY <1>2, <2>2 DEF Calm, KindsKept, CountKept
  <2> QED BY <1>1, <2>1, <2>3, SendersSame, SendAside
<1>6. CASE AwaitPacket(m) \/ TakePacket(m) \/ PutMail(m)
  BY <1>3, <1>6, ThreadIs DEF Foreign, Thread
<1> QED BY <1>3, <1>4, <1>5, <1>6, SendDoneKeeps, AcquireKeeps, PostKeeps, AwaitKeeps,
      ReleaseKeeps DEF Steps, Foreign

-----------------------------------------------------------------------------
(* The display, and the interrupt that the echo awaits.                     *)

LEMMA OneEcho ==
  ASSUME KernelTypes, NEW m \in Machine, ThreadsInv(m), NEW t \in Thread, NEW u \in Thread,
         Echoes(m, t), Echoes(m, u)
  PROVE  t = u
<1>1. ASSUME NEW x \in Thread, Echoes(m, x)
      PROVE  /\ x \in User /\ pc[m][x].call \in DOMAIN setup.code[m][x]
             /\ setup.code[m][x][pc[m][x].call].op = "echo"
  <2>1. x # "postal"
    BY <1>1, PostalIs DEF Echoes
  <2>2. Program(m, x) = setup.code[m][x] /\ pc[m][x].call \in DOMAIN Program(m, x)
    BY <1>1, <2>1 DEF Program, ThreadsInv, Positions, Echoes
  <2> QED BY <1>1, <2>1, <2>2, ThreadIs DEF Echoes, Call
<1>2. setup \in Setups
  BY DEF KernelTypes
<1> QED BY <1>1, <1>2, ConversationAssumption

Writing(m, t) == Echoes(m, t) /\ pc[m][t].at = "write"

WritersStay(m) == \A u \in Thread : Writing(m, u)' <=> Writing(m, u)

LEMMA WritersSame ==
  ASSUME setup' = setup, pc' = pc, NEW m
  PROVE  WritersStay(m)
BY CallStays, ProgramStays DEF WritersStay, Writing, Echoes

LEMMA WritersMove ==
  ASSUME KernelTypes, NEW m \in Machine, NEW t \in Thread, ~Writing(m, t), setup' = setup,
         \/ pc' = pc
         \/ Returns(m, t)
         \/ \E w \in Place \ {"write"} : Goes(m, t, w)
  PROVE  WritersStay(m)
<1>1. \A u \in Thread : pc'[m][u] = pc[m][u] => (Writing(m, u)' <=> Writing(m, u))
  BY CallStays, ProgramStays DEF Writing, Echoes
<1>2. \A u \in Thread : u # t => pc'[m][u] = pc[m][u]
  BY GoesIs, ReturnsIs
<1>3. ~(Writing(m, t)')
  <2>1. CASE pc' = pc
    BY <1>1, <2>1
  <2>2. CASE Returns(m, t)
    BY <2>2, ReturnsIs DEF Writing
  <2>3. ASSUME NEW w \in Place \ {"write"}, Goes(m, t, w) PROVE ~(Writing(m, t)')
    BY <2>3, GoesIs DEF Writing
  <2> QED BY <2>1, <2>2, <2>3
<1> QED BY <1>1, <1>2, <1>3 DEF WritersStay

LEMMA EchoAside ==
  ASSUME NEW m \in Machine, EchoInv(m), WritersStay(m), putBusy'[m] = putBusy[m],
         Calm(m, {"write"}, {"writeDone"})
  PROVE  EchoInv(m)'
<1>1. (\E t \in Thread : Writing(m, t)') <=> (\E t \in Thread : Writing(m, t))
  BY DEF WritersStay
<1>2. /\ Awaited(m, "write", "writeDone") => Awaited(m, "write", "writeDone")'
      /\ Quiet(m, "write", "writeDone") => Quiet(m, "write", "writeDone")'
      /\ None(pending'[m], "write") <=> None(pending[m], "write")
  BY DEF Calm, KindsKept, CountKept, Awaited, Quiet
<1> QED BY <1>1, <1>2 DEF EchoInv, Writing

LEMMA EchoCharKeeps ==
  ASSUME KernelTypes, ConsoleTypes, NEW m \in Machine, ThreadsInv(m), EchoInv(m),
         NEW t \in Thread, EchoChar(m, t)
  PROVE  EchoInv(m)' /\ life' = life
<1>1. /\ Runs(m, t) /\ Call(m, t).op = "echo" /\ pc[m][t].at = "echo" /\ setup' = setup
      /\ Made(m, t) /\ Echoes(m, t) /\ putBusy \in [Machine -> BOOLEAN]
  BY RunnerIs DEF EchoChar, At, Echoes, ConsoleTypes
<1>2. \A u \in Thread : ~Writing(m, u)
  BY <1>1, OneEcho DEF Writing
<1>3. Quiet(m, "write", "writeDone") /\ ~putBusy[m]
  BY <1>2 DEF EchoInv, Writing, Quiet
<1>4. /\ Calm(m, Kind \ {"write"}, Event) /\ Goes(m, t, "write") /\ life' = life
      /\ One(pending'[m], "write") /\ ~None(pending'[m], "write")
  BY <1>3, EchoCalm DEF Quiet
<1>5. pc'[m][t].call = pc[m][t].call /\ pc'[m][t].at = "write"
  BY <1>4, GoesIs DEF Place
<1>6. Writing(m, t)'
  BY <1>1, <1>5, CallStays, ProgramStays DEF Writing, Echoes
<1>7. Awaited(m, "write", "writeDone")'
  BY <1>3, <1>4 DEF Calm, CountKept, Quiet, Awaited, Event
<1> QED BY <1>4, <1>6, <1>7 DEF EchoInv, Writing

LEMMA AwaitWriteKeeps ==
  ASSUME KernelTypes, ConsoleTypes, NEW m \in Machine, ThreadsInv(m), EchoInv(m),
         NEW t \in Thread, AwaitWrite(m, t)
  PROVE  EchoInv(m)'
<1>1. /\ Runs(m, t) /\ Call(m, t).op = "echo" /\ pc[m][t].at = "write"
      /\ UNCHANGED <<setup, putBusy>> /\ Made(m, t)
  BY RunnerIs DEF AwaitWrite, At, conVars
<1>2. /\ "write" \in Kind /\ "writeDone" \in Event /\ "written" \in Place
      /\ count \in [Machine -> [Event -> Nat]]
  BY DEF Kind, Event, Place, KernelTypes
<1>3. Writing(m, t) /\ \A u \in Thread : Writing(m, u) => u = t
  BY <1>1, OneEcho DEF Writing, Echoes
<1>4. Awaited(m, "write", "writeDone")
  BY <1>3 DEF EchoInv, Writing
<1>5. /\ Calm(m, Kind, Event \ {"writeDone"})
      /\ \/ /\ count[m]["writeDone"] > 0
            /\ count'[m]["writeDone"] = count[m]["writeDone"] - 1
            /\ Goes(m, t, "written")
         \/ count[m]["writeDone"] = 0 /\ count'[m]["writeDone"] = 0 /\ pc' = pc
  BY <1>2, PIs DEF AwaitWrite
<1>6. CASE /\ count[m]["writeDone"] > 0
           /\ count'[m]["writeDone"] = count[m]["writeDone"] - 1
           /\ Goes(m, t, "written")
  <2>1. /\ pc'[m][t].at = "written"
        /\ \A u \in Thread : u # t => pc'[m][u] = pc[m][u]
    BY <1>2, <1>6, GoesIs
  <2>2. \A u \in Thread : ~(Writing(m, u)')
    BY <1>1, <1>3, <2>1, CallStays, ProgramStays DEF Writing, Echoes
  <2>3. None(pending[m], "write") /\ count[m]["writeDone"] = 1
    BY <1>4, <1>6 DEF Awaited
  <2>4. Quiet(m, "write", "writeDone")' /\ ~putBusy'[m]
    BY <1>1, <1>2, <1>5, <1>6, <2>3 DEF Calm, KindsKept, Quiet, EchoInv
  <2> QED BY <2>2, <2>4 DEF EchoInv, Writing
<1>7. CASE count[m]["writeDone"] = 0 /\ count'[m]["writeDone"] = 0 /\ pc' = pc
  <2>1. Calm(m, {"write"}, {"writeDone"})
    BY <1>2, <1>5, <1>7 DEF Calm, KindsKept, CountKept
  <2> QED BY <1>1, <1>7, <2>1, WritersSame, EchoAside
<1> QED BY <1>5, <1>6, <1>7

LEMMA WriteDoneKeeps ==
  ASSUME KernelTypes, ConsoleTypes, NEW m \in Machine, EchoInv(m), Fires(m),
         Head(pending[m]).kind = "write"
  PROVE  EchoInv(m)'
<1>1. UNCHANGED <<setup, pc>> /\ putBusy' = [putBusy EXCEPT ![m] = FALSE]
      /\ putBusy \in [Machine -> BOOLEAN]
  BY FiresIs DEF WriteDone, ConsoleTypes
<1>2. /\ ~None(pending[m], "write")
      /\ One(pending[m], "write") => None(pending'[m], "write")
      /\ count'[m]["writeDone"] = count[m]["writeDone"] + 1
  BY PollCalm
<1>3. ~Quiet(m, "write", "writeDone")
  BY <1>2 DEF Quiet
<1>4. (\E t \in Thread : Writing(m, t)) /\ Awaited(m, "write", "writeDone")
  BY <1>3 DEF EchoInv, Writing
<1>5. Awaited(m, "write", "writeDone")' /\ ~putBusy'[m]
  BY <1>1, <1>2, <1>4 DEF Awaited
<1>6. \A t \in Thread : Writing(m, t)' <=> Writing(m, t)
  BY <1>1, WritersSame DEF WritersStay
<1> QED BY <1>4, <1>5, <1>6 DEF EchoInv, Writing

LEMMA EchoStep ==
  ASSUME KernelTypes, ConsoleTypes, NEW m \in Machine, ThreadsInv(m), EchoInv(m), Steps(m)
  PROVE  EchoInv(m)'
<1>1. setup' = setup
  BY ThreadsStep
<1>2. "write" \in Kind /\ "writeDone" \in Event
  BY DEF Kind, Event
<1>3. ASSUME NEW t \in Thread, Plain(m, t), ~Resumes(m), ~Idle(m),
             TakePacket(m) \/ PutMail(m) => t = "postal"
      PROVE  EchoInv(m)'
  <2>1. putBusy' = putBusy
    BY <1>3 DEF Plain, Acquire, Release, Get, NextChar, Computes, Ends, HaltCalled, TakePacket,
      PutMail, conVars
  <2>2. Calm(m, {"write"}, {"writeDone"})
    BY <1>2, <1>3, PlainCalm DEF Calm, KindsKept, CountKept
  <2>3. ~Writing(m, t)
    BY <1>3, PostalIs DEF Plain, Acquire, Release, Get, NextChar, Computes, Ends, HaltCalled,
      TakePacket, PutMail, At, Sends, Writing, Echoes
  <2>4. \/ pc' = pc
        \/ Returns(m, t)
        \/ \E w \in Place \ {"write"} : Goes(m, t, w)
    BY <1>3 DEF Plain, Acquire, Release, Get, NextChar, Computes, Ends, HaltCalled,
      TakePacket, PutMail, Place, thrVars
  <2> QED BY <1>1, <2>1, <2>2, <2>3, <2>4, WritersMove, EchoAside
<1>4. ASSUME NEW t \in Thread, Post(m, t) PROVE EchoInv(m)'
  <2>1. putBusy' = putBusy /\ ~Writing(m, t)
    BY <1>4 DEF Post, conVars, Sends, Writing, Echoes
  <2>2. Calm(m, {"write"}, {"writeDone"})
    BY <1>2, <1>4, PostCalm DEF Calm, KindsKept, CountKept
  <2>3. pc' = pc \/ \E w \in Place \ {"write"} : Goes(m, t, w)
    BY <1>4, PostCalm DEF Place
  <2> QED BY <1>1, <2>1, <2>2, <2>3, WritersMove, EchoAside
<1>5. ASSUME NEW t \in Thread,
             \/ AwaitSent(m, t) \/ AwaitChar(m, t)
             \/ t = "postal" /\ AwaitPacket(m)
      PROVE  EchoInv(m)'
  <2>1. putBusy' = putBusy /\ ~Writing(m, t)
    BY <1>5, PostalIs DEF AwaitSent, AwaitChar, AwaitPacket, At, conVars, Sends, Writing, Echoes
  <2>2. \E e \in Event \ {"writeDone"}, w \in Place \ {"write"} : P(m, t, e, w)
    BY <1>5 DEF AwaitSent, AwaitChar, AwaitPacket, Event, Place
  <2>3. PICK e \in Event \ {"writeDone"} : \E w \in Place \ {"write"} : P(m, t, e, w)
    BY <2>2
  <2>4. PICK w \in Place \ {"write"} : P(m, t, e, w)
    BY <2>3
  <2>5. Calm(m, Kind, Event \ {e}) /\ (pc' = pc \/ Goes(m, t, w))
    BY <2>4, PIs
  <2>6. Calm(m, {"write"}, {"writeDone"})
    BY <1>2, <2>5 DEF Calm, KindsKept, CountKept
  <2> QED BY <1>1, <2>1, <2>5, <2>6, WritersMove, EchoAside
<1>6. CASE Fires(m) /\ Head(pending[m]).kind # "write"
  <2>1. UNCHANGED <<pc, putBusy>>
    BY <1>6, FiresIs DEF CheckPktAvail, CheckCharAvail, SendDone, TimerExpired, conVars
  <2>2. Calm(m, {"write"}, {"writeDone"})
    BY <1>2, <1>6, PollCalm DEF Calm, KindsKept, CountKept
  <2> QED BY <1>1, <2>1, <2>2, WritersSame, EchoAside
<1>7. CASE Resumes(m) \/ Idle(m)
  <2>1. UNCHANGED <<pc, putBusy>>
    BY <1>7 DEF Resumes, Idle, thrVars, conVars
  <2>2. Calm(m, {"write"}, {"writeDone"})
    BY <1>2, <1>7, PlainCalm DEF Plain, Calm, KindsKept, CountKept
  <2> QED BY <1>1, <2>1, <2>2, WritersSame, EchoAside
<1>8. CASE AwaitPacket(m) \/ TakePacket(m) \/ PutMail(m)
  BY <1>3, <1>5, <1>7, <1>8, ThreadIs DEF Plain
<1> QED BY <1>3, <1>4, <1>5, <1>6, <1>7, <1>8, WriteDoneKeeps, EchoCharKeeps,
      AwaitWriteKeeps DEF Steps, Plain

-----------------------------------------------------------------------------
(* The characters of the keyboard.                                          *)

(* The machines that do not step keep their consoles.                       *)
ConsoleKept(m) ==
  /\ ConsoleTypes'
  /\ \A x \in Machine : x # m =>
       /\ incoming'[x] = incoming[x] /\ putBusy'[x] = putBusy[x]
       /\ keys'[x] = keys[x] /\ shown'[x] = shown[x]

LEMMA EchoShows ==
  ASSUME KernelTypes, ConsoleTypes, NEW m \in Machine, KeysInv(m), setup' = setup,
         NEW t \in Thread, EchoChar(m, t)
  PROVE  ConsoleKept(m) /\ KeysInv(m)'
<1>1. /\ incoming \in [Machine -> Seq(Char)] /\ putBusy \in [Machine -> BOOLEAN]
      /\ keys \in [Machine -> Seq(Char)] /\ shown \in [Machine -> Seq(Char)]
  BY DEF ConsoleTypes
<1>2. CASE UNCHANGED <<shown, incoming, putBusy, keys>>
  BY <1>2 DEF ConsoleKept, ConsoleTypes, KeysInv
<1>3. CASE /\ shown' = [shown EXCEPT ![m] = @ \o incoming[m]]
           /\ incoming' = [incoming EXCEPT ![m] = <<>>]
           /\ putBusy' = [putBusy EXCEPT ![m] = TRUE] /\ keys' = keys
  <2> DEFINE a == shown[m]
             b == incoming[m]
             c == keys[m]
  <2>1. a \in Seq(Char) /\ b \in Seq(Char) /\ c \in Seq(Char)
    BY <1>1
  <2>2. /\ shown'[m] = a \o b /\ incoming'[m] = <<>> /\ keys'[m] = c
        /\ \A x \in Machine : x # m => shown'[x] = shown[x] /\ incoming'[x] = incoming[x]
                                       /\ putBusy'[x] = putBusy[x]
    BY <1>1, <1>3
  <2>3. a \o b \in Seq(Char)
    <3> HIDE DEF a, b
    <3> QED BY <2>1, ConcatProperties
  <2>4. ConsoleTypes'
    BY <1>1, <1>3, <2>3 DEF ConsoleTypes
  <2>5. (a \o b) \o <<>> = a \o b
    <3> DEFINE s == a \o b
    <3> HIDE DEF s
    <3>1. s \in Seq(Char)
      BY <2>3 DEF s
    <3> QED BY <3>1, ConcatEmptySeq DEF s
  <2> QED BY <1>3, <2>2, <2>4, <2>5 DEF ConsoleKept, KeysInv
<1> QED BY <1>2, <1>3 DEF EchoChar

LEMMA CharComes ==
  ASSUME KernelTypes, ConsoleTypes, NEW m \in Machine, KeysInv(m), setup' = setup,
         NEW rest, CheckCharAvail(m, rest)
  PROVE  /\ ConsoleKept(m) /\ KeysInv(m)'
         /\ life' = life \/ (setup.file /\ life' = [life EXCEPT ![m] = "aborted"])
<1>1. /\ incoming \in [Machine -> Seq(Char)] /\ putBusy \in [Machine -> BOOLEAN]
      /\ keys \in [Machine -> Seq(Char)] /\ shown \in [Machine -> Seq(Char)]
  BY DEF ConsoleTypes
<1>2. CASE UNCHANGED <<shown, incoming, putBusy, keys>>
  <2>1. life' = life \/ (setup.file /\ life' = [life EXCEPT ![m] = "aborted"])
    <3>1. CASE life' # life
      <4>1. PollFile(m) /\ keys[m] = <<>> /\ life' = [life EXCEPT ![m] = "aborted"]
        BY <3>1 DEF CheckCharAvail, ReadChar
      <4> QED BY <4>1, Zenon DEF PollFile
    <3> QED BY <3>1
  <2> QED BY <1>2, <2>1 DEF ConsoleKept, ConsoleTypes, KeysInv
<1>3. CASE /\ incoming[m] = <<>> /\ keys[m] # <<>>
           /\ incoming' = [incoming EXCEPT ![m] = <<Head(keys[m])>>]
           /\ keys' = [keys EXCEPT ![m] = Tail(@)]
           /\ UNCHANGED <<shown, putBusy, life>>
  <2> DEFINE a == shown[m]
             h == Head(keys[m])
             c == Tail(keys[m])
  <2>1. a \in Seq(Char) /\ h \in Char /\ c \in Seq(Char) /\ <<h>> \in Seq(Char)
    BY <1>1, <1>3
  <2>2. keys[m] = <<h>> \o c
    <3> DEFINE k == keys[m]
    <3>1. k \in Seq(Char) /\ k # <<>>
      BY <1>1, <1>3
    <3> HIDE DEF k
    <3>2. k = <<Head(k)>> \o Tail(k)
      BY <3>1
    <3> QED BY <3>2 DEF k
  <2>3. /\ shown'[m] = a /\ incoming'[m] = <<h>> /\ keys'[m] = c
        /\ \A x \in Machine : x # m => incoming'[x] = incoming[x] /\ keys'[x] = keys[x]
    BY <1>1, <1>3
  <2>4. ConsoleTypes'
    BY <1>1, <1>3, <2>1 DEF ConsoleTypes
  <2>5. (a \o <<>>) \o keys[m] = (a \o <<h>>) \o c
    <3> DEFINE d == <<h>>
    <3>1. d \in Seq(Char)
      BY <2>1
    <3> HIDE DEF a, c, d
    <3>2. a \o <<>> = a /\ (a \o d) \o c = a \o (d \o c)
      BY <2>1, <3>1, ConcatEmptySeq, ConcatAssociative
    <3> QED BY <2>2, <3>2 DEF d
  <2> HIDE DEF a, h, c
  <2>6. KeysInv(m)'
    BY <1>3, <2>3, <2>5 DEF KeysInv, a
  <2>7. \A x \in Machine : x # m =>
          /\ incoming'[x] = incoming[x] /\ putBusy'[x] = putBusy[x]
          /\ keys'[x] = keys[x] /\ shown'[x] = shown[x]
    <3>1. putBusy' = putBusy /\ shown' = shown
      BY <1>3
    <3> QED BY <2>3, <3>1
  <2>8. ConsoleKept(m) /\ life' = life
    BY <1>3, <2>4, <2>7 DEF ConsoleKept
  <2> QED BY <2>6, <2>8, Zenon
<1> QED BY <1>2, <1>3 DEF CheckCharAvail, ReadChar, PollFile

LEMMA WriteShows ==
  ASSUME ConsoleTypes, NEW m \in Machine, KeysInv(m), setup' = setup, NEW rest,
         WriteDone(m, rest)
  PROVE  ConsoleKept(m) /\ KeysInv(m)'
<1>1. /\ putBusy \in [Machine -> BOOLEAN] /\ putBusy' = [putBusy EXCEPT ![m] = FALSE]
      /\ UNCHANGED <<incoming, keys, shown>>
  BY DEF ConsoleTypes, WriteDone
<1>2. ConsoleTypes'
  BY <1>1 DEF ConsoleTypes
<1> QED BY <1>1, <1>2 DEF ConsoleKept, KeysInv

LEMMA KeysStep ==
  ASSUME KernelTypes, ConsoleTypes, NEW m \in Machine, ThreadsInv(m), KeysInv(m), Steps(m)
  PROVE  ConsoleKept(m) /\ KeysInv(m)'
<1>1. setup' = setup
  BY ThreadsStep
<1>2. CASE UNCHANGED conVars
  BY <1>1, <1>2 DEF conVars, ConsoleKept, ConsoleTypes, KeysInv
<1>3. CASE \E t \in Thread : EchoChar(m, t)
  BY <1>1, <1>3, EchoShows
<1>4. CASE Fires(m)
  <2>1. \/ UNCHANGED conVars
        \/ CheckCharAvail(m, Tail(pending[m])) \/ WriteDone(m, Tail(pending[m]))
    BY <1>4, FiresIs DEF CheckPktAvail, SendDone, TimerExpired
  <2> QED BY <1>1, <1>2, <2>1, CharComes, WriteShows
<1>5. UNCHANGED conVars \/ (\E t \in Thread : EchoChar(m, t)) \/ Fires(m)
  BY DEF Steps, Acquire, Post, AwaitSent, Release, Get, AwaitChar, AwaitWrite, NextChar,
    Computes, Ends, HaltCalled, AwaitPacket, TakePacket, PutMail, Resumes, Idle
<1> QED BY <1>2, <1>3, <1>4, <1>5

-----------------------------------------------------------------------------
(* Sequences that are shifted or joined.                                    *)

LEMMA HeadComesOver ==
  ASSUME NEW S, NEW s \in Seq(S), NEW r \in Seq(S), r # <<>>
  PROVE  /\ (s \o <<Head(r)>>) \o Tail(r) = s \o r
         /\ Append(s, Head(r)) \o Tail(r) = s \o r
<1> DEFINE h == <<Head(r)>>
           c == Tail(r)
<1>1. Head(r) \in S /\ c \in Seq(S) /\ h \in Seq(S)
  BY HeadTailProperties
<1>2. r = h \o c
  OBVIOUS
<1>3. Append(s, Head(r)) = s \o h
  BY <1>1, AppendIsConcat
<1> HIDE DEF h, c
<1>4. (s \o h) \o c = s \o (h \o c)
  BY <1>1, ConcatAssociative
<1> QED BY <1>2, <1>3, <1>4 DEF h, c

LEMMA AppendComesOver ==
  ASSUME NEW S, NEW s \in Seq(S), NEW r \in Seq(S), NEW e \in S
  PROVE  /\ s \o Append(r, e) = (s \o r) \o <<e>>
         /\ s \o Append(r, e) = Append(s \o r, e)
<1> DEFINE h == <<e>>
           c == s \o r
<1>1. h \in Seq(S) /\ Append(r, e) = r \o h
  BY AppendIsConcat
<1>2. c \in Seq(S)
  BY ConcatProperties
<1> HIDE DEF c
<1>3. Append(c, e) = c \o h
  BY <1>2, AppendIsConcat
<1> HIDE DEF h
<1>4. s \o (r \o h) = (s \o r) \o h
  BY <1>1, ConcatAssociative
<1> QED BY <1>1, <1>3, <1>4 DEF h, c

-----------------------------------------------------------------------------
(* The packet in the card.                                                  *)

LEMMA PacketIs == ASSUME NEW p \in Packet
                  PROVE  p.from \in Machine /\ p.to \in Machine /\ p.box \in Box /\ p.n \in Nat
BY DEF Packet

LEMMA CardAside ==
  ASSUME NEW m \in Machine, CardInv(m), pc'[m]["postal"] = pc[m]["postal"],
         hold'[m] = hold[m], inbox'[m] = inbox[m], Calm(m, {}, {"messageAvailable"})
  PROVE  CardInv(m)'
BY DEF CardInv, Calm, CountKept

LEMMA CardStep ==
  ASSUME KernelTypes, MailTypes, NEW m \in Machine, ThreadsInv(m), CardInv(m), Steps(m)
  PROVE  CardInv(m)'
<1> USE ThreadIs
<1>1. /\ "messageAvailable" \in Event /\ {"take", "put", "start"} \subseteq Place
      /\ count \in [Machine -> [Event -> Nat]]
      /\ inbox \in [Machine -> Seq(Packet)] /\ hold \in [Machine -> Seq(Packet)]
  BY DEF Event, Place, KernelTypes, MailTypes
<1>2. /\ count[m]["messageAvailable"] \in Nat
      /\ Len(inbox[m]) \in Nat /\ Len(hold[m]) \in Nat
  <2> HIDE DEF Packet
  <2> QED BY <1>1
<1>3. CASE AwaitPacket(m)
  <2>1. UNCHANGED <<hold, inbox>> /\ pc[m]["postal"].at = "start"
    BY <1>3 DEF AwaitPacket, netVars
  <2>2. \/ /\ count[m]["messageAvailable"] > 0
           /\ count'[m]["messageAvailable"] = count[m]["messageAvailable"] - 1
           /\ Goes(m, "postal", "take")
        \/ count[m]["messageAvailable"] = 0 /\ count'[m]["messageAvailable"] = 0 /\ pc' = pc
    BY <1>1, <1>3, PIs DEF AwaitPacket
  <2>3. CASE Goes(m, "postal", "take")
    <3>1. pc'[m]["postal"].at = "take"
      BY <1>1, <2>3, GoesIs
    <3> QED BY <1>1, <1>2, <2>1, <2>2, <3>1 DEF CardInv
  <2>4. CASE pc' = pc
    <3>1. count'[m]["messageAvailable"] = count[m]["messageAvailable"]
      BY <1>1, <2>1, <2>2, <2>4, GoesIs
    <3> QED BY <2>1, <2>4, <3>1 DEF CardInv
  <2> QED BY <2>2, <2>3, <2>4
<1>4. CASE TakePacket(m)
  <2>1. /\ hold' = [hold EXCEPT ![m] = inbox[m]] /\ inbox' = [inbox EXCEPT ![m] = <<>>]
        /\ pc[m]["postal"].at = "take" /\ Goes(m, "postal", "put") /\ count' = count
    BY <1>4 DEF TakePacket
  <2>2. pc'[m]["postal"].at = "put"
    BY <1>1, <2>1, GoesIs
  <2>3. hold'[m] = inbox[m] /\ inbox'[m] = <<>>
    BY <1>1, <2>1
  <2>4. Len(inbox[m]) = 1 /\ count[m]["messageAvailable"] = 0
    BY <1>2, <2>1 DEF CardInv
  <2> QED BY <2>1, <2>2, <2>3, <2>4 DEF CardInv
<1>5. CASE PutMail(m)
  <2>1. /\ hold' = [hold EXCEPT ![m] = <<>>] /\ inbox' = inbox
        /\ pc[m]["postal"].at = "put" /\ Returns(m, "postal") /\ count' = count
    BY <1>5 DEF PutMail
  <2>2. pc'[m]["postal"].at = "start"
    BY <1>1, <2>1, ReturnsIs
  <2>3. hold'[m] = <<>>
    BY <1>1, <2>1
  <2> QED BY <2>1, <2>2, <2>3 DEF CardInv
<1>6. CASE Fires(m)
  <2>1. pc' = pc
    BY <1>6, FiresIs
  <2>2. CASE UNCHANGED <<hold, inbox, count>>
    BY <2>1, <2>2 DEF CardInv
  <2>3. CASE CheckPktAvail(m, Tail(pending[m]))
    <3>1. CASE /\ inbox[m] = <<>> /\ hold' = hold
               /\ inbox' = [inbox EXCEPT ![m] = <<Head(wire[m])>>]
               /\ V(m, "messageAvailable")
      <4>1. count'[m]["messageAvailable"] = count[m]["messageAvailable"] + 1
        BY <1>1, <3>1, VIs
      <4>2. Len(inbox'[m]) = 1 /\ Len(inbox[m]) = 0
        BY <1>1, <3>1
      <4>3. pc[m]["postal"].at # "take" /\ count[m]["messageAvailable"] = 0
        <5>1. Len(inbox[m]) = count[m]["messageAvailable"]
                              + (IF pc[m]["postal"].at = "take" THEN 1 ELSE 0)
          BY DEF CardInv
        <5>2. count[m]["messageAvailable"] \in Nat /\ Len(inbox[m]) = 0
          BY <1>2, <4>2
        <5> QED BY <5>1, <5>2
      <4> QED BY <2>1, <3>1, <4>1, <4>2, <4>3 DEF CardInv
    <3>2. CASE UNCHANGED <<hold, inbox, count>>
      BY <2>2, <3>2
    <3> QED BY <2>3, <3>1, <3>2 DEF CheckPktAvail, ReadFromSocket, IncomingPacket
  <2>4. CASE ~CheckPktAvail(m, Tail(pending[m]))
    <3>1. UNCHANGED <<hold, inbox>>
      BY <1>6, <2>4, FiresIs DEF SendDone, CheckCharAvail, WriteDone, TimerExpired, netVars
    <3>2. Calm(m, {}, {"messageAvailable"})
      BY <1>1, <1>6, <2>4, PollCalm DEF Calm, KindsKept, CountKept
    <3> QED BY <2>1, <3>1, <3>2, CardAside
  <2> QED BY <2>3, <2>4
<1>7. ASSUME NEW t \in User, Plain(m, t) \/ Post(m, t) \/ EchoChar(m, t),
             ~TakePacket(m), ~PutMail(m)
      PROVE  CardInv(m)'
  <2>1. UNCHANGED <<hold, inbox>>
    BY <1>7 DEF Plain, Acquire, Release, Get, NextChar, Computes, Ends, HaltCalled, Resumes,
      Idle, Post, EchoChar, netVars
  <2>2. pc' = pc \/ Returns(m, t) \/ (\E w \in Place : Goes(m, t, w))
    BY <1>7 DEF Plain, Acquire, Release, Get, NextChar, Computes, Ends, HaltCalled, Resumes,
      Idle, Post, EchoChar, thrVars, Place
  <2>3. pc'[m]["postal"] = pc[m]["postal"]
    BY <2>2, GoesIs, ReturnsIs
  <2>4. Calm(m, {}, {"messageAvailable"})
    BY <1>1, <1>7, PlainCalm, PostCalm, EchoCalm DEF Calm, KindsKept, CountKept
  <2> QED BY <2>1, <2>3, <2>4, CardAside
<1>8. ASSUME NEW t \in User, AwaitSent(m, t) \/ AwaitChar(m, t) \/ AwaitWrite(m, t)
      PROVE  CardInv(m)'
  <2>1. UNCHANGED <<hold, inbox>>
    BY <1>8 DEF AwaitSent, AwaitChar, AwaitWrite, netVars
  <2>2. \E e \in Event \ {"messageAvailable"}, w \in Place : P(m, t, e, w)
    BY <1>8 DEF AwaitSent, AwaitChar, AwaitWrite, Event, Place
  <2>3. PICK e \in Event \ {"messageAvailable"} : \E w \in Place : P(m, t, e, w)
    BY <2>2
  <2>4. PICK w \in Place : P(m, t, e, w)
    BY <2>3
  <2>5. Calm(m, Kind, Event \ {e}) /\ (pc' = pc \/ Goes(m, t, w))
    BY <2>4, PIs
  <2>6. pc'[m]["postal"] = pc[m]["postal"] /\ Calm(m, {}, {"messageAvailable"})
    BY <1>1, <2>5, GoesIs DEF Calm, KindsKept, CountKept
  <2> QED BY <2>1, <2>6, CardAside
<1>9. ASSUME NEW t \in Thread,
             \/ Acquire(m, t) \/ Post(m, t) \/ AwaitSent(m, t) \/ Release(m, t) \/ Get(m, t)
             \/ AwaitChar(m, t) \/ EchoChar(m, t) \/ AwaitWrite(m, t) \/ NextChar(m, t)
             \/ Computes(m, t) \/ Ends(m, t) \/ HaltCalled(m, t)
      PROVE  t \in User
  <2>1. Runs(m, t) /\ Call(m, t).op # "deliver"
    BY <1>9 DEF Acquire, Post, AwaitSent, Release, Get, AwaitChar, EchoChar, AwaitWrite,
      NextChar, Computes, Ends, HaltCalled, At, Sends
  <2> QED BY <2>1, CallerIs
<1>10. "main" \in User
  BY DEF User
<1> QED BY <1>3, <1>4, <1>5, <1>6, <1>7, <1>8, <1>9, <1>10 DEF Steps, Plain

-----------------------------------------------------------------------------
(* What a step does with the mail.                                          *)

LEMMA WayIs ==
  ASSUME MailTypes, NEW m \in Machine, NEW b \in Box
  PROVE  /\ Way(m, b) \in Seq(Packet) /\ Len(taken[m][b]) <= Len(Way(m, b))
         /\ \A i \in 1..Len(taken[m][b]) : Way(m, b)[i] = taken[m][b][i]
<1> HIDE DEF Packet
<1> DEFINE a == taken[m][b]
           c == boxes[m][b]
           d == hold[m]
           e == inbox[m]
           f == wire[m]
<1>1. /\ a \in Seq(Packet) /\ c \in Seq(Packet) /\ d \in Seq(Packet)
      /\ e \in Seq(Packet) /\ f \in Seq(Packet)
  BY DEF MailTypes
<1>2. Way(m, b) = a \o c \o d \o e \o f
  BY DEF Way
<1> HIDE DEF a, c, d, e, f
<1>3. ASSUME NEW s \in Seq(Packet), NEW r \in Seq(Packet)
      PROVE  /\ s \o r \in Seq(Packet) /\ Len(s) <= Len(s \o r)
             /\ \A i \in 1..Len(s) : (s \o r)[i] = s[i]
  <2>1. Len(s) \in Nat /\ Len(r) \in Nat
    OBVIOUS
  <2>2. /\ s \o r \in Seq(Packet) /\ Len(s \o r) = Len(s) + Len(r)
        /\ \A i \in 1 .. Len(s) + Len(r) : (s \o r)[i] = IF i <= Len(s) THEN s[i] ELSE r[i - Len(s)]
    BY ConcatProperties
  <2> QED BY <2>1, <2>2
<1>4. ASSUME NEW s \in Seq(Packet), NEW r \in Seq(Packet), Len(a) <= Len(s),
             \A i \in 1..Len(a) : s[i] = a[i]
      PROVE  /\ s \o r \in Seq(Packet) /\ Len(a) <= Len(s \o r)
             /\ \A i \in 1..Len(a) : (s \o r)[i] = a[i]
  <2>1. Len(a) \in Nat /\ Len(s) \in Nat
    BY <1>1
  <2>2. s \o r \in Seq(Packet) /\ Len(s) <= Len(s \o r) /\ \A i \in 1..Len(s) : (s \o r)[i] = s[i]
    BY <1>3
  <2>3. Len(s \o r) \in Nat
    BY <2>2
  <2> QED BY <1>4, <2>1, <2>2, <2>3
<1> DEFINE v == a \o c
           w == v \o d
           x == w \o e
<1>5. /\ v \in Seq(Packet) /\ Len(a) <= Len(v) /\ \A i \in 1..Len(a) : v[i] = a[i]
  BY <1>1, <1>3
<1> HIDE DEF v
<1>6. /\ w \in Seq(Packet) /\ Len(a) <= Len(w) /\ \A i \in 1..Len(a) : w[i] = a[i]
  BY <1>1, <1>4, <1>5
<1> HIDE DEF w
<1>7. /\ x \in Seq(Packet) /\ Len(a) <= Len(x) /\ \A i \in 1..Len(a) : x[i] = a[i]
  BY <1>1, <1>4, <1>6
<1> HIDE DEF x
<1>8. /\ x \o f \in Seq(Packet) /\ Len(a) <= Len(x \o f) /\ \A i \in 1..Len(a) : (x \o f)[i] = a[i]
  BY <1>1, <1>4, <1>7
<1> QED BY <1>2, <1>8 DEF a, v, w, x

(* The machines that do not step keep what their threads and cards have.    *)
MailKept(m) ==
  /\ MailTypes'
  /\ \A x \in Machine : x # m =>
       /\ holder'[x] = holder[x] /\ inbox'[x] = inbox[x] /\ hold'[x] = hold[x]
       /\ boxes'[x] = boxes[x] /\ taken'[x] = taken[x]

WaysKept == posted' = posted /\ \A x \in Machine, b \in Box : Way(x, b)' = Way(x, b)

LEMMA MailSame ==
  ASSUME MailTypes, NEW m \in Machine, UNCHANGED netVars
  PROVE  MailKept(m) /\ WaysKept
BY DEF netVars, MailTypes, MailKept, WaysKept, Way

LEMMA LockMail ==
  ASSUME MailTypes, NEW m \in Machine, NEW S \in SUBSET Thread,
         holder' = [holder EXCEPT ![m] = S],
         UNCHANGED <<inbox, hold, wire, boxes, taken, posted>>
  PROVE  MailKept(m) /\ WaysKept
<1>1. holder' \in [Machine -> SUBSET Thread] /\ \A x \in Machine : x # m => holder'[x] = holder[x]
  BY DEF MailTypes
<1> QED BY <1>1 DEF MailTypes, MailKept, WaysKept, Way

LEMMA GetMail ==
  ASSUME MailTypes, NEW m \in Machine, NEW b \in Box, boxes[m][b] # <<>>,
         taken' = [taken EXCEPT ![m][b] = Append(@, Head(boxes[m][b]))],
         boxes' = [boxes EXCEPT ![m][b] = Tail(@)],
         UNCHANGED <<holder, inbox, hold, wire, posted>>
  PROVE  /\ MailKept(m) /\ WaysKept
         /\ Len(taken'[m][b]) = Len(taken[m][b]) + 1
         /\ \A c \in Box : c # b => taken'[m][c] = taken[m][c] /\ boxes'[m][c] = boxes[m][c]
         /\ taken'[m][b] = Append(taken[m][b], Head(boxes[m][b]))
         /\ boxes'[m][b] = Tail(boxes[m][b])
<1> HIDE DEF Packet
<1> DEFINE a == taken[m][b]
           r == boxes[m][b]
<1>1. /\ taken \in [Machine -> [Box -> Seq(Packet)]] /\ boxes \in [Machine -> [Box -> Seq(Packet)]]
      /\ a \in Seq(Packet) /\ r \in Seq(Packet) /\ r # <<>>
  BY DEF MailTypes
<1>2. /\ taken' = [taken EXCEPT ![m][b] = Append(a, Head(r))]
      /\ boxes' = [boxes EXCEPT ![m][b] = Tail(r)]
  OBVIOUS
<1> HIDE DEF a, r
<1>3. /\ Head(r) \in Packet /\ Tail(r) \in Seq(Packet)
      /\ Append(a, Head(r)) \in Seq(Packet) /\ Len(Append(a, Head(r))) = Len(a) + 1
  BY <1>1
<1> DEFINE more == Append(a, Head(r))
           less == Tail(r)
<1>4. more \o less = a \o r
  BY <1>1, HeadComesOver
<1> HIDE DEF more, less
<1>5. /\ taken' = [taken EXCEPT ![m][b] = more] /\ boxes' = [boxes EXCEPT ![m][b] = less]
      /\ more \in Seq(Packet) /\ less \in Seq(Packet)
  BY <1>2, <1>3 DEF more, less
<1>6. /\ taken' \in [Machine -> [Box -> Seq(Packet)]] /\ boxes' \in [Machine -> [Box -> Seq(Packet)]]
      /\ taken'[m][b] = more /\ boxes'[m][b] = less
      /\ \A c \in Box : c # b => taken'[m][c] = taken[m][c] /\ boxes'[m][c] = boxes[m][c]
      /\ \A x \in Machine : x # m => taken'[x] = taken[x] /\ boxes'[x] = boxes[x]
  BY <1>1, <1>5
<1>7. \A x \in Machine, c \in Box :
        taken'[x][c] \o boxes'[x][c] = taken[x][c] \o boxes[x][c]
  BY <1>4, <1>6 DEF a, r
<1>8. WaysKept
  BY <1>7 DEF WaysKept, Way
<1>9. MailKept(m)
  BY <1>6 DEF MailKept, MailTypes
<1> QED BY <1>3, <1>6, <1>8, <1>9 DEF more, less, a, r

LEMMA TakeMail ==
  ASSUME MailTypes, NEW m \in Machine, CardInv(m), pc[m]["postal"].at = "take",
         hold' = [hold EXCEPT ![m] = inbox[m]], inbox' = [inbox EXCEPT ![m] = <<>>],
         UNCHANGED <<holder, wire, boxes, taken, posted>>
  PROVE  MailKept(m) /\ WaysKept
<1> HIDE DEF Packet
<1>1. /\ hold \in [Machine -> Seq(Packet)] /\ inbox \in [Machine -> Seq(Packet)]
      /\ hold[m] \in Seq(Packet) /\ inbox[m] \in Seq(Packet)
  BY DEF MailTypes
<1>2. hold[m] = <<>>
  <2>1. Len(hold[m]) = 0
    BY DEF CardInv
  <2> QED BY <1>1, <2>1
<1>3. /\ hold' \in [Machine -> Seq(Packet)] /\ inbox' \in [Machine -> Seq(Packet)]
      /\ hold'[m] = inbox[m] /\ inbox'[m] = <<>>
      /\ \A x \in Machine : x # m => hold'[x] = hold[x] /\ inbox'[x] = inbox[x]
  BY <1>1
<1>4. ASSUME NEW b \in Box PROVE Way(m, b)' = Way(m, b)
  <2> DEFINE s == taken[m][b] \o boxes[m][b]
             i == inbox[m]
  <2>1. s \in Seq(Packet)
    <3> DEFINE c == taken[m][b]
               d == boxes[m][b]
    <3>1. c \in Seq(Packet) /\ d \in Seq(Packet)
      BY DEF MailTypes
    <3> HIDE DEF c, d
    <3>2. c \o d \in Seq(Packet)
      BY <3>1, ConcatProperties
    <3> QED BY <3>2 DEF c, d
  <2> HIDE DEF s
  <2>2. s \o i \in Seq(Packet) /\ s \o <<>> = s
    BY <1>1, <2>1, ConcatProperties, ConcatEmptySeq
  <2> DEFINE q == s \o i
  <2>3. q \o <<>> = q
    <3> HIDE DEF q
    <3>1. q \in Seq(Packet)
      BY <2>2 DEF q
    <3> QED BY <3>1, ConcatEmptySeq
  <2>4. Way(m, b) = s \o <<>> \o i \o wire[m] /\ Way(m, b)' = s \o i \o <<>> \o wire[m]
    BY <1>2, <1>3 DEF Way, s
  <2> QED BY <2>2, <2>3, <2>4
<1>5. \A x \in Machine, b \in Box : x # m => Way(x, b)' = Way(x, b)
  BY <1>3 DEF Way
<1>6. MailKept(m)
  BY <1>3 DEF MailKept, MailTypes
<1> QED BY <1>4, <1>5, <1>6 DEF WaysKept

LEMMA PollMail ==
  ASSUME MailTypes, NEW m \in Machine, inbox[m] = <<>>, wire[m] # <<>>,
         inbox' = [inbox EXCEPT ![m] = <<Head(wire[m])>>],
         wire' = [wire EXCEPT ![m] = Tail(@)],
         UNCHANGED <<holder, hold, boxes, taken, posted>>
  PROVE  MailKept(m) /\ WaysKept
<1> HIDE DEF Packet
<1>1. /\ wire \in [Machine -> Seq(Packet)] /\ inbox \in [Machine -> Seq(Packet)]
      /\ wire[m] \in Seq(Packet)
  BY DEF MailTypes
<1>2. Head(wire[m]) \in Packet /\ Tail(wire[m]) \in Seq(Packet) /\ <<Head(wire[m])>> \in Seq(Packet)
  BY <1>1
<1>3. /\ wire' \in [Machine -> Seq(Packet)] /\ inbox' \in [Machine -> Seq(Packet)]
      /\ inbox'[m] = <<Head(wire[m])>> /\ wire'[m] = Tail(wire[m])
      /\ \A x \in Machine : x # m => wire'[x] = wire[x] /\ inbox'[x] = inbox[x]
  BY <1>1, <1>2
<1>4. ASSUME NEW b \in Box PROVE Way(m, b)' = Way(m, b)
  <2> DEFINE s == taken[m][b] \o boxes[m][b] \o hold[m]
             r == wire[m]
  <2>1. s \in Seq(Packet)
    <3> DEFINE c == taken[m][b]
               d == boxes[m][b]
               e == hold[m]
               f == c \o d
    <3>1. c \in Seq(Packet) /\ d \in Seq(Packet) /\ e \in Seq(Packet)
      BY DEF MailTypes
    <3> HIDE DEF c, d, e
    <3>2. f \in Seq(Packet)
      BY <3>1, ConcatProperties
    <3> HIDE DEF f
    <3>3. f \o e \in Seq(Packet)
      BY <3>1, <3>2, ConcatProperties
    <3> QED BY <3>3 DEF c, d, e, f
  <2>2. Way(m, b) = s \o <<>> \o r /\ Way(m, b)' = s \o <<Head(r)>> \o Tail(r)
    BY <1>3 DEF Way, s
  <2> HIDE DEF s, r
  <2>3. r \in Seq(Packet) /\ r # <<>>
    BY <1>1 DEF r
  <2>4. s \o <<>> = s /\ (s \o <<Head(r)>>) \o Tail(r) = s \o r
    BY <2>1, <2>3, ConcatEmptySeq, HeadComesOver
  <2> QED BY <2>2, <2>4
<1>5. \A x \in Machine, b \in Box : x # m => Way(x, b)' = Way(x, b)
  BY <1>3 DEF Way
<1>6. MailKept(m)
  BY <1>3 DEF MailKept, MailTypes
<1> QED BY <1>4, <1>5, <1>6 DEF WaysKept

(* The postal worker passes a packet on to its box; the other boxes have it *)
(* behind them.                                                             *)
LEMMA PutIs ==
  ASSUME MailTypes, NEW m \in Machine, CardInv(m), PutMail(m)
  PROVE  LET h == hold[m][1] IN
         /\ h \in Packet /\ hold[m] = <<h>> /\ hold'[m] = <<>>
         /\ MailKept(m) /\ posted' = posted /\ taken' = taken
         /\ boxes'[m][h.box] = Append(boxes[m][h.box], h)
         /\ \A b \in Box : b # h.box => boxes'[m][b] = boxes[m][b]
         /\ \A x \in Machine, b \in Box : x # m \/ b = h.box => Way(x, b)' = Way(x, b)
         /\ \A b \in Box : b # h.box =>
              \E s \in Seq(Packet) : \E r \in Seq(Packet) :
                Way(m, b) = (s \o <<h>>) \o r /\ Way(m, b)' = s \o r
<1> DEFINE h == hold[m][1]
<1>1. /\ hold \in [Machine -> Seq(Packet)] /\ boxes \in [Machine -> [Box -> Seq(Packet)]]
      /\ taken \in [Machine -> [Box -> Seq(Packet)]]
      /\ inbox[m] \in Seq(Packet) /\ wire[m] \in Seq(Packet)
      /\ pc[m]["postal"].at = "put" /\ UNCHANGED <<inbox, wire, taken, posted, holder>>
      /\ hold' = [hold EXCEPT ![m] = <<>>]
      /\ boxes' = [boxes EXCEPT ![m][h.box] = Append(@, h)]
  BY DEF MailTypes, PutMail, Put
<1>2. h \in Packet /\ hold[m] = <<h>> /\ <<h>> \in Seq(Packet)
  <2> HIDE DEF Packet
  <2>1. hold[m] \in Seq(Packet) /\ Len(hold[m]) = 1
    BY <1>1 DEF CardInv
  <2> QED BY <2>1
<1>3. PICK k \in Box : k = h.box
  BY <1>2, PacketIs
<1> HIDE DEF h, Packet
<1> DEFINE more == Append(boxes[m][k], h)
<1>4. k \in Box /\ boxes[m][k] \in Seq(Packet) /\ more \in Seq(Packet)
  BY <1>1, <1>2
<1>5. boxes' = [boxes EXCEPT ![m][k] = more]
  BY <1>1, <1>3
<1> HIDE DEF more
<1>6. /\ boxes' \in [Machine -> [Box -> Seq(Packet)]] /\ boxes'[m][k] = more
      /\ \A b \in Box : b # k => boxes'[m][b] = boxes[m][b]
      /\ \A x \in Machine : x # m => boxes'[x] = boxes[x]
  <2>1. boxes \in [Machine -> [Box -> Seq(Packet)]]
    BY <1>1
  <2> QED BY <1>4, <1>5, <2>1
<1>7. /\ hold' \in [Machine -> Seq(Packet)] /\ hold'[m] = <<>>
      /\ \A x \in Machine : x # m => hold'[x] = hold[x]
  BY <1>1
<1>8. MailKept(m)
  BY <1>1, <1>6, <1>7 DEF MailKept, MailTypes
<1> DEFINE q == <<h>>
           i == inbox[m]
           w == wire[m]
<1>9. /\ q \in Seq(Packet) /\ i \in Seq(Packet) /\ w \in Seq(Packet)
  BY <1>1, <1>2
<1> HIDE DEF q, i, w
<1>10. ASSUME NEW s \in Seq(Packet)
       PROVE  s \o q \in Seq(Packet) /\ s \o <<>> = s /\ (s \o q) \o <<>> = s \o q
  <2>1. s \o q \in Seq(Packet) /\ s \o <<>> = s
    BY <1>9, ConcatProperties, ConcatEmptySeq
  <2> DEFINE r == s \o q
  <2> HIDE DEF r
  <2>2. r \o <<>> = r
    BY <2>1, ConcatEmptySeq DEF r
  <2> QED BY <2>1, <2>2 DEF r
<1>11. Way(m, k)' = Way(m, k)
  <2> DEFINE a == taken[m][k]
             c == boxes[m][k]
             s == a \o c
  <2>1. a \in Seq(Packet) /\ c \in Seq(Packet)
    BY <1>1, <1>4
  <2> HIDE DEF a, c
  <2>2. s \in Seq(Packet) /\ a \o Append(c, h) = s \o q
    BY <1>2, <2>1, ConcatProperties, AppendComesOver DEF q
  <2>3. Way(m, k) = s \o q \o i \o w
    BY <1>2 DEF Way, q, i, w, a, c
  <2>4. Way(m, k)' = (a \o Append(c, h)) \o <<>> \o i \o w
    <3>1. boxes'[m][k] = Append(c, h)
      BY <1>6 DEF more, c
    <3>2. taken'[m][k] = a /\ inbox'[m] = i /\ wire'[m] = w
      <4>1. taken' = taken /\ inbox' = inbox /\ wire' = wire
        BY <1>1
      <4> QED BY <4>1 DEF a, i, w
    <3> QED BY <1>7, <3>1, <3>2 DEF Way
  <2> HIDE DEF s
  <2> QED BY <2>2, <2>3, <2>4, <1>10
<1>12. ASSUME NEW b \in Box, b # k
       PROVE  \E s \in Seq(Packet) : \E r \in Seq(Packet) :
                Way(m, b) = (s \o <<h>>) \o r /\ Way(m, b)' = s \o r
  <2> DEFINE a == taken[m][b]
             c == boxes[m][b]
             s == a \o c
             r == i \o w
             v == s \o q
  <2>1. a \in Seq(Packet) /\ c \in Seq(Packet)
    BY <1>1
  <2>2. Way(m, b) = s \o q \o i \o w /\ Way(m, b)' = s \o <<>> \o i \o w
    BY <1>1, <1>2, <1>6, <1>7, <1>12 DEF Way, q, i, w
  <2> HIDE DEF a, c
  <2>3. s \in Seq(Packet)
    BY <2>1, ConcatProperties
  <2> HIDE DEF s
  <2>4. r \in Seq(Packet) /\ v \in Seq(Packet) /\ s \o <<>> = s
    BY <1>9, <1>10, <2>3, ConcatProperties
  <2>5. (s \o i) \o w = s \o r
    BY <1>9, <2>3, ConcatAssociative
  <2> HIDE DEF v
  <2>6. (v \o i) \o w = v \o r
    BY <1>9, <2>4, ConcatAssociative
  <2>7. Way(m, b) = (s \o <<h>>) \o r /\ Way(m, b)' = s \o r
    BY <2>2, <2>4, <2>5, <2>6 DEF v, q
  <2> HIDE DEF r
  <2> QED BY <2>3, <2>4, <2>7
<1>13. \A x \in Machine, b \in Box : x # m => Way(x, b)' = Way(x, b)
  BY <1>1, <1>6, <1>7 DEF Way
<1>14. /\ boxes'[m][k] = Append(boxes[m][k], h)
       /\ \A b \in Box : b # k => boxes'[m][b] = boxes[m][b]
  BY <1>6 DEF more
<1>15. /\ hold'[m] = <<>> /\ posted' = posted /\ taken' = taken
  BY <1>1, <1>7
<1>16. \A x \in Machine, b \in Box : x # m \/ b = k => Way(x, b)' = Way(x, b)
  BY <1>11, <1>13
<1> QED BY <1>2, <1>3, <1>8, <1>12, <1>14, <1>15, <1>16 DEF h

(* A packet goes to the end of the way of the machine that it is sent to,   *)
(* or is lost.                                                              *)
Wires(m, to, b, p, put) ==
  /\ wire' = IF put THEN [wire EXCEPT ![to] = Append(@, p)] ELSE wire
  /\ posted' = [posted EXCEPT ![m][to][b] = @ + 1]
  /\ UNCHANGED <<holder, inbox, hold, boxes, taken>>

Wired(m, to, b, p, put) ==
  /\ posted'[m][to][b] = posted[m][to][b] + 1
  /\ \A s, x \in Machine, c \in Box :
       <<s, x, c>> # <<m, to, b>> => posted'[s][x][c] = posted[s][x][c]
  /\ \A x \in Machine, c \in Box :
       Way(x, c)' = IF x = to /\ put THEN Append(Way(x, c), p) ELSE Way(x, c)

LEMMA WireMail ==
  ASSUME MailTypes, NEW m \in Machine, NEW to \in Machine, NEW b \in Box,
         NEW p \in Packet, NEW put \in BOOLEAN, Wires(m, to, b, p, put)
  PROVE  MailKept(m) /\ Wired(m, to, b, p, put)
<1> HIDE DEF Packet
<1>1. /\ wire \in [Machine -> Seq(Packet)]
      /\ posted \in [Machine -> [Machine -> [Box -> Nat]]]
      /\ wire' = IF put THEN [wire EXCEPT ![to] = Append(@, p)] ELSE wire
      /\ posted' = [posted EXCEPT ![m][to][b] = @ + 1]
  BY DEF MailTypes, Wires
<1> DEFINE next == posted[m][to][b] + 1
<1>2. next \in Nat /\ posted' = [posted EXCEPT ![m][to][b] = next]
  BY <1>1
<1> HIDE DEF next
<1>3. /\ posted' \in [Machine -> [Machine -> [Box -> Nat]]]
      /\ posted'[m][to][b] = next
      /\ \A s, x \in Machine, c \in Box :
           s # m \/ x # to \/ c # b => posted'[s][x][c] = posted[s][x][c]
  <2> DEFINE row == [posted[m][to] EXCEPT ![b] = next]
             all == [posted[m] EXCEPT ![to] = row]
  <2>1. /\ row \in [Box -> Nat] /\ row[b] = next
        /\ \A c \in Box : c # b => row[c] = posted[m][to][c]
    BY <1>1, <1>2
  <2>2. posted' = [posted EXCEPT ![m] = all]
    BY <1>1, <1>2
  <2> HIDE DEF row
  <2>3. /\ all \in [Machine -> [Box -> Nat]] /\ all[to] = row
        /\ \A x \in Machine : x # to => all[x] = posted[m][x]
    BY <1>1, <2>1
  <2> HIDE DEF all
  <2>4. /\ posted' \in [Machine -> [Machine -> [Box -> Nat]]] /\ posted'[m] = all
        /\ \A s \in Machine : s # m => posted'[s] = posted[s]
    BY <1>1, <2>2, <2>3
  <2> QED BY <2>1, <2>3, <2>4
<1>4. /\ wire' \in [Machine -> Seq(Packet)]
      /\ \A x \in Machine :
           wire'[x] = IF x = to /\ put THEN Append(wire[x], p) ELSE wire[x]
  <2>1. CASE ~put
    BY <1>1, <2>1
  <2>2. CASE put
    <3>1. Append(wire[to], p) \in Seq(Packet)
      BY <1>1
    <3> QED BY <1>1, <2>2, <3>1
  <2> QED BY <2>1, <2>2
<1>5. MailKept(m)
  BY <1>3, <1>4 DEF MailKept, MailTypes, Wires
<1>6. ASSUME NEW x \in Machine, NEW c \in Box
      PROVE  Way(x, c)' = IF x = to /\ put THEN Append(Way(x, c), p) ELSE Way(x, c)
  <2> DEFINE a == taken[x][c]
             d == boxes[x][c]
             e == hold[x]
             f == inbox[x]
             v == a \o d
             w == v \o e
             y == w \o f
             z == wire[x]
  <2>1. /\ a \in Seq(Packet) /\ d \in Seq(Packet) /\ e \in Seq(Packet) /\ f \in Seq(Packet)
        /\ z \in Seq(Packet)
    BY DEF MailTypes
  <2>2. Way(x, c) = y \o z /\ Way(x, c)' = y \o wire'[x]
    BY DEF Way, Wires
  <2> HIDE DEF a, d, e, f
  <2>3. v \in Seq(Packet)
    BY <2>1, ConcatProperties
  <2> HIDE DEF v
  <2>4. w \in Seq(Packet)
    BY <2>1, <2>3, ConcatProperties
  <2> HIDE DEF w
  <2>5. y \in Seq(Packet)
    BY <2>1, <2>4, ConcatProperties
  <2> HIDE DEF y
  <2>6. y \o Append(z, p) = Append(y \o z, p)
    BY <2>1, <2>5, AppendComesOver
  <2> QED BY <1>4, <2>2, <2>6
<1> QED BY <1>3, <1>5, <1>6 DEF Wired, next

(* A reply goes to another machine, whose mail has been read.               *)
LEMMA TargetIs ==
  ASSUME KernelTypes, MailTypes, NEW m \in Machine, ThreadsInv(m), ReadInv(m), OrderInv(m),
         NEW t, Runs(m, t), Sends(m, t)
  PROVE  /\ t \in User /\ Made(m, t) /\ Call(m, t) \in Calls
         /\ Target(m, t) \in Machine /\ Target(m, t) # m
<1>1. t \in User /\ Made(m, t)
  BY CallerIs DEF Sends
<1>2. /\ pc[m][t].call \in 1..Len(Program(m, t)) /\ Call(m, t) \in Calls
      /\ Call(m, t).op = "send" => Call(m, t).to # m
      /\ Call(m, t).op = "reply" =>
           \E j \in 1..(pc[m][t].call - 1) :
             Program(m, t)[j].op = "receive" /\ Program(m, t)[j].box = 0
  BY <1>1, CallIs
<1>3. CASE Call(m, t).op = "send"
  BY <1>1, <1>2, <1>3 DEF Target, Calls
<1>4. CASE Call(m, t).op = "reply"
  <2> DEFINE R == Reads(m, t, 0)
             n == pc[m][t].call - 1
             s == taken[m][0]
  <2>1. 0 \in Box /\ n \in Nat
    BY <1>2, ProgramAssumption
  <2>2. R # {} /\ R \in SUBSET (1..n)
    BY <1>2, <1>4 DEF Reads, ReadsOf
  <2>3. IsFiniteSet(R)
    <3> HIDE DEF R, n
    <3>1. IsFiniteSet(1..n)
      BY <2>1, FS_Interval
    <3> QED BY <2>2, <3>1, FS_Subset
  <2>4. Cardinality(R) \in Nat /\ Cardinality(R) # 0
    <3> HIDE DEF R
    <3> QED BY <2>2, <2>3, FS_CardinalityType, FS_EmptySet
  <2>5. Cardinality(R) <= Len(s)
    BY <1>1, <2>1 DEF ReadInv
  <2>6. s \in Seq(Packet)
    BY <2>1 DEF MailTypes
  <2> HIDE DEF R, s
  <2>7. Len(s) \in Nat \ {0} /\ s[Len(s)] \in Packet
    <3> HIDE DEF Packet
    <3>1. Len(s) \in Nat
      BY <2>6
    <3> QED BY <2>4, <2>5, <2>6, <3>1
  <2>8. Target(m, t) = s[Len(s)].from
    BY <1>4 DEF Target, Last, s
  <2>9. Len(s) \in DOMAIN Way(m, 0) /\ Way(m, 0)[Len(s)] = s[Len(s)]
    <3>1. /\ Way(m, 0) \in Seq(Packet) /\ Len(s) <= Len(Way(m, 0))
          /\ \A i \in 1..Len(s) : Way(m, 0)[i] = s[i]
      BY <2>1, WayIs DEF s
    <3>2. Len(Way(m, 0)) \in Nat /\ DOMAIN Way(m, 0) = 1..Len(Way(m, 0))
      <4> HIDE DEF Packet
      <4> QED BY <3>1
    <3> QED BY <2>7, <3>1, <3>2
  <2>10. s[Len(s)].from # m
    BY <2>1, <2>9 DEF OrderInv, Routed
  <2> QED BY <1>1, <1>2, <2>7, <2>8, <2>10, PacketIs
<1> QED BY <1>3, <1>4 DEF Sends

(* PostOffice::Send hands its packet to the network, or finds no machine.   *)
PacketOf(m, t) ==
  [from |-> m, to |-> Target(m, t), box |-> Call(m, t).box,
   n |-> posted[m][Target(m, t)][Call(m, t).box] + 1]

Posts(m, t, to, b, p, put) ==
  /\ to = Target(m, t) /\ b = Call(m, t).box /\ p = PacketOf(m, t)
  /\ Goes(m, t, "wait") /\ life' = life /\ (put \/ ~setup.reliable)
  /\ Wired(m, to, b, p, put)

LEMMA PostMail ==
  ASSUME KernelTypes, MailTypes, NEW m \in Machine, ThreadsInv(m), ReadInv(m), OrderInv(m),
         NEW t \in Thread, Post(m, t)
  PROVE  /\ MailKept(m) /\ taken' = taken /\ boxes' = boxes
         /\ \/ /\ WaysKept /\ pc' = pc /\ life[Target(m, t)] # "up"
               /\ life' = [life EXCEPT ![m] = "aborted"]
            \/ \E to \in Machine \ {m} : \E b \in Box : \E p \in Packet : \E put \in BOOLEAN :
                 Posts(m, t, to, b, p, put)
<1> DEFINE to == Target(m, t)
           b == Call(m, t).box
           p == PacketOf(m, t)
<1>1. /\ Runs(m, t) /\ Sends(m, t) /\ UNCHANGED <<holder, inbox, hold, boxes, taken>>
  BY DEF Post
<1>2. to \in Machine /\ to # m /\ b \in Box
  BY <1>1, TargetIs DEF Calls
<1>3. posted[m][to][b] \in Nat
  BY <1>2 DEF MailTypes
<1>4. p \in Packet
  <2>1. posted[m][to][b] + 1 \in Nat \ {0}
    BY <1>3
  <2> QED BY <1>2, <2>1 DEF PacketOf, Packet
<1>5. CASE /\ life[to] # "up" /\ life' = [life EXCEPT ![m] = "aborted"]
           /\ UNCHANGED <<wire, posted, pending, pc>>
  BY <1>1, <1>5, MailSame DEF netVars
<1>6. ASSUME NEW put \in BOOLEAN,
             wire' = IF put THEN [wire EXCEPT ![to] = Append(@, p)] ELSE wire,
             put \/ ~setup.reliable, Goes(m, t, "wait"), life' = life,
             posted' = [posted EXCEPT ![m][to][b] = @ + 1]
      PROVE  MailKept(m) /\ Posts(m, t, to, b, p, put)
  <2> HIDE DEF to, b, p
  <2>1. PICK d \in Machine : d = to
    BY <1>2
  <2>2. PICK e \in Box : e = b
    BY <1>2
  <2>3. PICK q \in Packet : q = p
    BY <1>4
  <2>4. Wires(m, d, e, q, put)
    BY <1>1, <1>6, <2>1, <2>2, <2>3 DEF Wires
  <2>5. MailKept(m) /\ Wired(m, d, e, q, put)
    BY <2>4, WireMail
  <2>6. Posts(m, t, d, e, q, put)
    BY <1>6, <2>1, <2>2, <2>3, <2>5 DEF Posts, to, b, p
  <2> QED BY <2>1, <2>2, <2>3, <2>5, <2>6
<1>7. CASE /\ wire' = [wire EXCEPT ![to] = Append(@, p)] /\ Goes(m, t, "wait") /\ life' = life
           /\ posted' = [posted EXCEPT ![m][to][b] = @ + 1]
  BY <1>1, <1>2, <1>4, <1>6, <1>7
<1>8. CASE /\ wire' = wire /\ ~setup.reliable /\ Goes(m, t, "wait") /\ life' = life
           /\ posted' = [posted EXCEPT ![m][to][b] = @ + 1]
  BY <1>1, <1>2, <1>4, <1>6, <1>8
<1> QED BY <1>5, <1>7, <1>8 DEF Post, SendToSocket, PacketOf

(* PostOffice::Receive takes the first mail of a box, or waits for one.     *)
LEMMA GetIs ==
  ASSUME KernelTypes, MailTypes, NEW m \in Machine, ThreadsInv(m), NEW t \in Thread, Get(m, t)
  PROVE  /\ t \in User /\ Made(m, t) /\ Call(m, t).op = "receive"
         /\ \/ UNCHANGED <<netVars, pc>>
            \/ \E b \in Box :
                 /\ b = Call(m, t).box /\ boxes[m][b] # <<>> /\ Returns(m, t)
                 /\ taken' = [taken EXCEPT ![m][b] = Append(@, Head(boxes[m][b]))]
                 /\ boxes' = [boxes EXCEPT ![m][b] = Tail(@)]
                 /\ UNCHANGED <<holder, inbox, hold, wire, posted>>
<1>1. Runs(m, t) /\ Call(m, t).op = "receive"
  BY DEF Get, At
<1>2. t \in User /\ Made(m, t)
  BY <1>1, CallerIs
<1>3. Call(m, t).box \in Box
  BY <1>2, CallIs DEF Calls
<1>4. CASE UNCHANGED <<taken, boxes, pc>>
  BY <1>1, <1>2, <1>4 DEF Get, netVars
<1>5. CASE /\ boxes[m][BoxOf(m, t)] # <<>> /\ Returns(m, t)
           /\ taken' = [taken EXCEPT ![m][BoxOf(m, t)] =
                          Append(@, Head(boxes[m][BoxOf(m, t)]))]
           /\ boxes' = [boxes EXCEPT ![m][BoxOf(m, t)] = Tail(@)]
  <2>1. PICK b \in Box : b = BoxOf(m, t)
    BY <1>3 DEF BoxOf
  <2>2. UNCHANGED <<holder, inbox, hold, wire, posted>>
    BY DEF Get
  <2> QED BY <1>1, <1>2, <1>5, <2>1, <2>2 DEF BoxOf
<1> QED BY <1>4, <1>5 DEF Get

LEMMA MailStep ==
  ASSUME KernelTypes, MailTypes, NEW m \in Machine, ThreadsInv(m), ReadInv(m), CardInv(m),
         OrderInv(m), Steps(m)
  PROVE  /\ MailKept(m)
         /\ \/ WaysKept /\ (UNCHANGED <<taken, boxes>> \/ \E t \in Thread : Get(m, t))
            \/ PutMail(m) /\ taken' = taken /\ posted' = posted
            \/ UNCHANGED <<taken, boxes>> /\ \E t \in Thread : Post(m, t)
<1>1. CASE UNCHANGED netVars
  BY <1>1, MailSame DEF netVars
<1>2. ASSUME NEW t \in Thread, Acquire(m, t) \/ Release(m, t)
      PROVE  MailKept(m) /\ WaysKept /\ UNCHANGED <<taken, boxes>>
  <2>1. holder[m] \in SUBSET Thread /\ UNCHANGED <<inbox, hold, wire, boxes, taken, posted>>
    BY <1>2 DEF MailTypes, Acquire, Release
  <2>2. \/ holder' = holder
        \/ holder' = [holder EXCEPT ![m] = {t}]
        \/ holder' = [holder EXCEPT ![m] = holder[m] \ {t}]
    BY <1>2 DEF Acquire, Release
  <2>3. CASE holder' = holder
    BY <2>1, <2>3, MailSame DEF netVars
  <2>4. {t} \in SUBSET Thread /\ holder[m] \ {t} \in SUBSET Thread
    BY <2>1
  <2> QED BY <2>1, <2>2, <2>3, <2>4, LockMail
<1>3. ASSUME NEW t \in Thread, Get(m, t)
      PROVE  MailKept(m) /\ WaysKept
  BY <1>3, GetIs, GetMail, MailSame
<1>4. CASE TakePacket(m)
  BY <1>4, TakeMail DEF TakePacket
<1>5. CASE PutMail(m)
  BY <1>5, PutIs
<1>6. ASSUME NEW t \in Thread, Post(m, t)
      PROVE  MailKept(m) /\ UNCHANGED <<taken, boxes>>
  BY <1>6, PostMail
<1>7. CASE Fires(m)
  <2>1. CASE CheckPktAvail(m, Tail(pending[m]))
    <3>1. CASE UNCHANGED <<inbox, wire>>
      BY <1>1, <2>1, <3>1 DEF CheckPktAvail, netVars
    <3>2. CASE inbox[m] = <<>> /\ PollSocket(m) /\ ReadFromSocket(m)
      <4>1. /\ wire[m] # <<>> /\ inbox' = [inbox EXCEPT ![m] = <<Head(wire[m])>>]
            /\ wire' = [wire EXCEPT ![m] = Tail(@)]
            /\ UNCHANGED <<holder, hold, boxes, taken, posted>>
        BY <2>1, <3>2 DEF CheckPktAvail, PollSocket, ReadFromSocket
      <4> QED BY <3>2, <4>1, PollMail
    <3> QED BY <2>1, <3>1, <3>2 DEF CheckPktAvail
  <2>2. CASE ~CheckPktAvail(m, Tail(pending[m]))
    BY <1>1, <1>7, <2>2, FiresIs DEF SendDone, CheckCharAvail, WriteDone, TimerExpired
  <2> QED BY <2>1, <2>2
<1>8. \/ UNCHANGED netVars \/ TakePacket(m) \/ PutMail(m) \/ Fires(m)
      \/ \E t \in Thread : Acquire(m, t) \/ Release(m, t) \/ Get(m, t) \/ Post(m, t)
  BY DEF Steps, AwaitSent, AwaitChar, EchoChar, AwaitWrite, NextChar, Computes, Ends,
    HaltCalled, AwaitPacket, Resumes, Idle
<1> QED BY <1>1, <1>2, <1>3, <1>4, <1>5, <1>6, <1>7, <1>8, PutIs DEF TakePacket

-----------------------------------------------------------------------------
(* The mail that a thread has read.                                         *)

LEMMA ReadsAre ==
  ASSUME NEW p, NEW n \in Nat, NEW b
  PROVE  /\ IsFiniteSet(ReadsOf(p, n, b)) /\ Cardinality(ReadsOf(p, n, b)) \in Nat
         /\ ~(p[n + 1].op = "receive" /\ p[n + 1].box = b)
              => ReadsOf(p, n + 1, b) = ReadsOf(p, n, b)
         /\ Cardinality(ReadsOf(p, n + 1, b)) <= Cardinality(ReadsOf(p, n, b)) + 1
<1> DEFINE R(k) == ReadsOf(p, k, b)
<1> USE DEF ReadsOf
<1>1. IsFiniteSet(1..n)
  BY FS_Interval
<1>2. R(n) \in SUBSET (1..n) /\ n + 1 \notin R(n)
  OBVIOUS
<1>3. \/ R(n + 1) = R(n)
      \/ (p[n + 1].op = "receive" /\ p[n + 1].box = b) /\ R(n + 1) = R(n) \cup {n + 1}
  <2>1. \A i : i \in 1..(n + 1) <=> (i \in 1..n \/ i = n + 1)
    OBVIOUS
  <2>2. CASE p[n + 1].op = "receive" /\ p[n + 1].box = b
    BY <2>1, <2>2
  <2>3. CASE ~(p[n + 1].op = "receive" /\ p[n + 1].box = b)
    BY <2>1, <2>3
  <2> QED BY <2>2, <2>3
<1> HIDE DEF ReadsOf
<1>4. IsFiniteSet(R(n)) /\ Cardinality(R(n)) \in Nat
  BY <1>1, <1>2, FS_Subset, FS_CardinalityType
<1>5. Cardinality(R(n) \cup {n + 1}) = Cardinality(R(n)) + 1
  BY <1>2, <1>4, FS_AddElement
<1>6. Cardinality(R(n + 1)) <= Cardinality(R(n)) + 1
  BY <1>3, <1>4, <1>5
<1>7. ~(p[n + 1].op = "receive" /\ p[n + 1].box = b) => R(n + 1) = R(n)
  BY <1>3
<1> QED BY <1>4, <1>6, <1>7

LEMMA ReadsStay ==
  ASSUME setup' = setup, NEW m, NEW t, NEW b, pc'[m][t].call = pc[m][t].call
  PROVE  Reads(m, t, b)' = Reads(m, t, b)
BY ProgramStays DEF Reads

LEMMA ReadsFinite ==
  ASSUME KernelTypes, NEW m \in Machine, NEW t \in User, NEW b
  PROVE  Cardinality(Reads(m, t, b)) \in Nat
<1>1. PICK n \in Nat : n = pc[m][t].call - 1
  <2>1. t \in Thread
    BY ThreadIs
  <2>2. pc[m][t].call - 1 \in Nat
    BY <2>1 DEF KernelTypes
  <2> QED BY <2>2
<1>2. PICK p : p = Program(m, t)
  OBVIOUS
<1> QED BY <1>1, <1>2, ReadsAre DEF Reads

(* A call that returns is one more, if it read.                             *)
LEMMA ReadsMove ==
  ASSUME KernelTypes, NEW m \in Machine, ThreadsInv(m), NEW t \in User, Made(m, t),
         setup' = setup, Returns(m, t), NEW b \in Box
  PROVE  /\ Cardinality(Reads(m, t, b)) \in Nat /\ Cardinality(Reads(m, t, b)') \in Nat
         /\ Cardinality(Reads(m, t, b)') <= Cardinality(Reads(m, t, b)) + 1
         /\ ~(Call(m, t).op = "receive" /\ Call(m, t).box = b)
              => Reads(m, t, b)' = Reads(m, t, b)
<1>1. PICK p : p = Program(m, t)
  OBVIOUS
<1>2. /\ pc[m][t].call \in Nat \ {0} /\ pc'[m][t].call = pc[m][t].call + 1
      /\ Call(m, t) = p[pc[m][t].call]
  <2>1. t # "postal" /\ t \in Thread
    BY ThreadIs
  <2> QED BY <1>1, <2>1, ReturnsIs DEF KernelTypes, Call
<1>3. PICK n \in Nat : n + 1 = pc[m][t].call
  <2>1. pc[m][t].call - 1 \in Nat /\ (pc[m][t].call - 1) + 1 = pc[m][t].call
    BY <1>2
  <2> QED BY <2>1
<1>4. pc[m][t].call - 1 = n /\ pc'[m][t].call - 1 = n + 1
  BY <1>2, <1>3
<1> DEFINE R(k) == ReadsOf(p, k, b)
<1>5. Reads(m, t, b) = R(n)
  BY <1>1, <1>4 DEF Reads
<1>6. Reads(m, t, b)' = R(n + 1)
  BY <1>1, <1>4, ProgramStays DEF Reads
<1>7. /\ IsFiniteSet(R(n)) /\ Cardinality(R(n)) \in Nat
      /\ ~(p[n + 1].op = "receive" /\ p[n + 1].box = b) => R(n + 1) = R(n)
      /\ Cardinality(R(n + 1)) <= Cardinality(R(n)) + 1
  BY ReadsAre
<1>8. Cardinality(R(n + 1)) \in Nat
  <2>1. n + 1 \in Nat
    OBVIOUS
  <2> QED BY <2>1, ReadsAre
<1> QED BY <1>2, <1>3, <1>5, <1>6, <1>7, <1>8

LEMMA ReadStep ==
  ASSUME KernelTypes, MailTypes, NEW m \in Machine, ThreadsInv(m), ReadInv(m), CardInv(m),
         OrderInv(m), Steps(m)
  PROVE  ReadInv(m)'
<1>1. setup' = setup
  BY ThreadsStep
<1>2. ASSUME NEW t \in Thread, taken' = taken, Runs(m, t),
             \/ pc' = pc
             \/ \E w \in Place : Goes(m, t, w)
             \/ Returns(m, t) /\ Call(m, t).op # "receive"
      PROVE  ReadInv(m)'
  <2>1. ASSUME NEW u \in User, NEW b \in Box PROVE Reads(m, u, b)' = Reads(m, u, b)
    <3>1. u \in Thread
      BY ThreadIs
    <3>2. CASE pc'[m][u].call = pc[m][u].call
      BY <1>1, <3>2, ReadsStay
    <3>3. CASE pc'[m][u].call # pc[m][u].call
      <4>1. u = t /\ Returns(m, t) /\ Call(m, t).op # "receive"
        BY <1>2, <3>1, <3>3, GoesIs, ReturnsIs
      <4> QED BY <1>1, <1>2, <4>1, ReadsMove, RunnerIs
    <3> QED BY <3>2, <3>3
  <2> QED BY <1>2, <2>1 DEF ReadInv
<1>3. ASSUME NEW t \in Thread, Get(m, t) PROVE ReadInv(m)'
  <2>1. t \in User /\ Made(m, t) /\ Call(m, t).op = "receive" /\ Runs(m, t)
    BY <1>3, GetIs DEF Get
  <2>2. CASE UNCHANGED <<netVars, pc>>
    BY <1>2, <2>1, <2>2 DEF netVars
  <2>3. ASSUME NEW b \in Box, b = Call(m, t).box, boxes[m][b] # <<>>, Returns(m, t),
               taken' = [taken EXCEPT ![m][b] = Append(@, Head(boxes[m][b]))],
               boxes' = [boxes EXCEPT ![m][b] = Tail(@)],
               UNCHANGED <<holder, inbox, hold, wire, posted>>
        PROVE  ReadInv(m)'
    <3>1. /\ Len(taken'[m][b]) = Len(taken[m][b]) + 1
          /\ \A c \in Box : c # b => taken'[m][c] = taken[m][c]
      BY <2>3, GetMail
    <3>2. ASSUME NEW u \in User, NEW c \in Box
          PROVE  Cardinality(Reads(m, u, c)') <= Len(taken'[m][c])
      <4>1. /\ Cardinality(Reads(m, u, c)) <= Len(taken[m][c]) /\ Len(taken[m][c]) \in Nat
        <5>1. taken[m][c] \in Seq(Packet)
          BY DEF MailTypes
        <5> HIDE DEF Packet
        <5> QED BY <5>1 DEF ReadInv
      <4>2. Len(taken[m][c]) <= Len(taken'[m][c])
        BY <3>1, <4>1
      <4>3. CASE Reads(m, u, c)' = Reads(m, u, c)
        <5>1. Cardinality(Reads(m, u, c)) <= Len(taken'[m][c])
          <6>1. CASE c = b
            BY <3>1, <4>1, <6>1, ReadsFinite
          <6>2. CASE c # b
            BY <3>1, <4>1, <6>2
          <6> QED BY <6>1, <6>2
        <5> QED BY <4>3, <5>1
      <4>4. CASE Reads(m, u, c)' # Reads(m, u, c)
        <5>1. u = t
          <6>1. u \in Thread
            BY ThreadIs
          <6>2. u # t => pc'[m][u] = pc[m][u]
            BY <2>3, <6>1, ReturnsIs
          <6> QED BY <1>1, <4>4, <6>2, ReadsStay
        <5>2. /\ c = b /\ Cardinality(Reads(m, u, c)) \in Nat /\ Cardinality(Reads(m, u, c)') \in Nat
              /\ Cardinality(Reads(m, u, c)') <= Cardinality(Reads(m, u, c)) + 1
          BY <1>1, <2>1, <2>3, <4>4, <5>1, ReadsMove
        <5> QED BY <3>1, <4>1, <5>2
      <4> QED BY <4>3, <4>4
    <3> QED BY <3>2 DEF ReadInv
  <2> QED BY <1>3, <2>2, <2>3, GetIs
<1>4. ASSUME NEW t \in Thread, Acquire(m, t) \/ Release(m, t) \/ AwaitSent(m, t) \/ Post(m, t)
      PROVE  ReadInv(m)'
  <2>1. Runs(m, t) /\ taken' = taken /\ Call(m, t).op # "receive"
    BY <1>4 DEF Acquire, Release, AwaitSent, Post, netVars, Sends
  <2>2. pc' = pc \/ Returns(m, t) \/ \E w \in Place : Goes(m, t, w)
    BY <1>4 DEF Acquire, Release, AwaitSent, Post, P, Place
  <2> QED BY <1>2, <2>1, <2>2
<1>5. ASSUME NEW t \in Thread, Foreign(m, t), ~Get(m, t)
      PROVE  ReadInv(m)'
  <2>1. taken' = taken /\ Call(m, t).op # "receive"
    BY <1>5, PostalIs DEF Foreign, AwaitChar, EchoChar, AwaitWrite, NextChar, Computes, Ends,
      HaltCalled, AwaitPacket, TakePacket, PutMail, netVars, At
  <2> QED BY <1>2, <1>5, <2>1, ForeignIs
<1>6. CASE Fires(m) \/ Resumes(m) \/ Idle(m)
  <2>1. UNCHANGED <<pc, taken>>
    BY <1>6, FiresIs DEF CheckPktAvail, SendDone, CheckCharAvail, WriteDone, TimerExpired,
      Resumes, Idle, netVars, thrVars
  <2> QED BY <1>1, <2>1, ReadsStay DEF ReadInv
<1>7. CASE AwaitPacket(m) \/ TakePacket(m) \/ PutMail(m)
  <2>1. "postal" \in Thread /\ Foreign(m, "postal") /\ ~Get(m, "postal")
    BY <1>7, PostalIs, ThreadIs DEF Foreign, Get, At
  <2> QED BY <1>5, <2>1
<1> QED BY <1>3, <1>4, <1>5, <1>6, <1>7 DEF Steps, Foreign

-----------------------------------------------------------------------------
(* The order of mail: a packet is sent, or one of another box is passed on. *)

LEMMA InOrderMore ==
  ASSUME NEW way, NEW s, NEW m, NEW b, NEW last \in Nat, NEW more \in Nat, last <= more,
         way \in Seq(Packet), InOrder(way, s, m, b, last)
  PROVE  InOrder(way, s, m, b, more)
<1>1. \A i \in DOMAIN way : way[i].n \in Nat
  <2>1. \A i \in DOMAIN way : way[i] \in Packet
    <3> HIDE DEF Packet
    <3> QED OBVIOUS
  <2> QED BY <2>1, PacketIs
<1> QED BY <1>1 DEF InOrder

LEMMA InOrderAppend ==
  ASSUME NEW way \in Seq(Packet), NEW s, NEW m, NEW b, NEW last \in Nat, NEW more \in Nat,
         last <= more, InOrder(way, s, m, b, last), NEW p \in Packet,
         IsFrom(p, s, m, b) => last < p.n /\ p.n <= more
  PROVE  InOrder(Append(way, p), s, m, b, more)
<1> HIDE DEF Packet
<1> DEFINE a == Append(way, p)
           n == Len(way)
<1>1. /\ n \in Nat /\ DOMAIN way = 1..n /\ DOMAIN a = 1..(n + 1)
      /\ a[n + 1] = p /\ \A i \in 1..n : a[i] = way[i] /\ way[i] \in Packet
  OBVIOUS
<1> HIDE DEF a, n
<1>2. \A i \in 1..n : way[i].n \in Nat
  BY <1>1, PacketIs
<1>3. p.n \in Nat
  BY PacketIs
<1>4. ASSUME NEW i \in DOMAIN a, IsFrom(a[i], s, m, b) PROVE a[i].n <= more
  <2>1. CASE i = n + 1
    BY <1>1, <1>4, <2>1
  <2>2. CASE i \in 1..n
    BY <1>1, <1>2, <1>4, <2>2 DEF InOrder
  <2> QED BY <1>1, <2>1, <2>2
<1>5. ASSUME NEW i \in DOMAIN a, NEW j \in DOMAIN a, IsFrom(a[i], s, m, b),
             IsFrom(a[j], s, m, b), i < j
      PROVE  a[i].n < a[j].n
  <2>1. i \in 1..n /\ a[i] = way[i]
    BY <1>1, <1>5
  <2>2. CASE j = n + 1
    <3>1. way[i].n <= last /\ a[j] = p
      BY <1>1, <1>5, <2>1, <2>2 DEF InOrder
    <3> QED BY <1>2, <1>3, <1>5, <2>1, <3>1
  <2>3. CASE j \in 1..n
    BY <1>1, <1>5, <2>1, <2>3 DEF InOrder
  <2> QED BY <1>1, <2>2, <2>3
<1> QED BY <1>4, <1>5 DEF InOrder, a

LEMMA WholeAppend ==
  ASSUME NEW way \in Seq(Packet), NEW s, NEW m, NEW b, NEW last \in Nat, NEW more \in Nat,
         Whole(way, s, m, b, last), NEW p \in Packet,
         more = last \/ (more = last + 1 /\ IsFrom(p, s, m, b) /\ p.n = more)
  PROVE  Whole(Append(way, p), s, m, b, more)
<1> HIDE DEF Packet
<1> DEFINE a == Append(way, p)
           n == Len(way)
<1>1. /\ n \in Nat /\ DOMAIN way = 1..n /\ DOMAIN a = 1..(n + 1)
      /\ a[n + 1] = p /\ \A i \in 1..n : a[i] = way[i]
  OBVIOUS
<1> HIDE DEF a, n
<1>2. ASSUME NEW k \in 1..more
      PROVE  \E i \in DOMAIN a : IsFrom(a[i], s, m, b) /\ a[i].n = k
  <2>1. CASE k \in 1..last
    <3>1. PICK i \in DOMAIN way : IsFrom(way[i], s, m, b) /\ way[i].n = k
      BY <2>1 DEF Whole
    <3>2. i \in DOMAIN a /\ a[i] = way[i]
      BY <1>1, <3>1
    <3> QED BY <3>1, <3>2
  <2>2. CASE k \notin 1..last
    <3>1. more = last + 1 /\ k = more
      BY <2>2
    <3>2. n + 1 \in DOMAIN a /\ IsFrom(a[n + 1], s, m, b) /\ a[n + 1].n = k
      BY <1>1, <3>1
    <3> QED BY <3>2
  <2> QED BY <2>1, <2>2
<1> QED BY <1>2 DEF Whole, a

(* Where an element is in a sequence that has one more in its middle.       *)
Beyond(n, i) == IF i <= n THEN i ELSE i + 1

Dropped(long, short, n, h) ==
  /\ n \in Nat /\ long \in Seq(Packet) /\ short \in Seq(Packet)
  /\ DOMAIN long \subseteq Nat /\ DOMAIN short \subseteq Nat
  /\ IsFiniteSet(DOMAIN long)
  /\ n + 1 \in DOMAIN long /\ long[n + 1] = h
  /\ \A i \in DOMAIN short : /\ Beyond(n, i) \in DOMAIN long
                            /\ long[Beyond(n, i)] = short[i]
  /\ \A j \in DOMAIN long : j # n + 1 => \E i \in DOMAIN short : j = Beyond(n, i)

LEMMA DropIs ==
  ASSUME NEW s \in Seq(Packet), NEW h \in Packet, NEW r \in Seq(Packet)
  PROVE  Dropped((s \o <<h>>) \o r, s \o r, Len(s), h)
<1> HIDE DEF Packet
<1> DEFINE n == Len(s)
           k == Len(r)
           v == s \o <<h>>
           long == v \o r
           short == s \o r
<1>1. n \in Nat /\ k \in Nat
  OBVIOUS
<1>2. /\ v \in Seq(Packet) /\ Len(v) = n + 1 /\ v[n + 1] = h /\ \A i \in 1..n : v[i] = s[i]
  <2> DEFINE q == <<h>>
  <2>1. q \in Seq(Packet) /\ Len(q) = 1 /\ q[1] = h
    OBVIOUS
  <2> HIDE DEF q
  <2>2. /\ s \o q \in Seq(Packet) /\ Len(s \o q) = n + 1
        /\ \A i \in 1..(n + 1) : (s \o q)[i] = IF i <= n THEN s[i] ELSE q[i - n]
    <3>1. /\ s \o q \in Seq(Packet) /\ Len(s \o q) = n + Len(q)
          /\ \A i \in 1..(n + Len(q)) : (s \o q)[i] = IF i <= n THEN s[i] ELSE q[i - n]
      BY <2>1, ConcatProperties
    <3> HIDE DEF n
    <3> QED BY <2>1, <3>1
  <2>3. (n + 1) - n = 1 /\ n + 1 \in 1..(n + 1) /\ ~(n + 1 <= n)
    BY <1>1
  <2>4. \A i \in 1..n : i \in 1..(n + 1) /\ i <= n
    BY <1>1
  <2> QED BY <2>1, <2>2, <2>3, <2>4 DEF q
<1>3. /\ short \in Seq(Packet) /\ Len(short) = n + k
      /\ \A i \in 1..(n + k) : short[i] = IF i <= n THEN s[i] ELSE r[i - n]
  BY ConcatProperties
<1> HIDE DEF v
<1>4. /\ long \in Seq(Packet) /\ Len(long) = n + 1 + k
      /\ \A i \in 1..(n + 1 + k) : long[i] = IF i <= n + 1 THEN v[i] ELSE r[i - (n + 1)]
  <2>1. /\ long \in Seq(Packet) /\ Len(long) = Len(v) + k
        /\ \A i \in 1..(Len(v) + k) : long[i] = IF i <= Len(v) THEN v[i] ELSE r[i - Len(v)]
    BY <1>2, ConcatProperties
  <2> HIDE DEF long, n, k
  <2> QED BY <1>2, <2>1
<1>5. DOMAIN long = 1..(n + 1 + k) /\ DOMAIN short = 1..(n + k)
  <2> HIDE DEF long, short
  <2> QED BY <1>3, <1>4
<1> HIDE DEF long, short, n, k
<1>6. IsFiniteSet(DOMAIN long)
  <2>1. n + 1 + k \in Int
    BY <1>1
  <2> QED BY <1>5, <2>1, FS_Interval
<1>7. n + 1 \in DOMAIN long /\ long[n + 1] = h
  BY <1>1, <1>2, <1>4, <1>5
<1>8. ASSUME NEW i \in DOMAIN short
      PROVE  Beyond(n, i) \in DOMAIN long /\ long[Beyond(n, i)] = short[i]
  <2>1. CASE i <= n
    <3>1. /\ i \in 1..n /\ i \in 1..(n + 1 + k) /\ i <= n + 1 /\ i \in 1..(n + k)
      BY <1>1, <1>5, <2>1
    <3> QED BY <1>2, <1>3, <1>4, <1>5, <2>1, <3>1 DEF Beyond
  <2>2. CASE ~(i <= n)
    <3>1. /\ i + 1 \in 1..(n + 1 + k) /\ ~(i + 1 <= n + 1) /\ i \in 1..(n + k)
          /\ (i + 1) - (n + 1) = i - n
      BY <1>1, <1>5, <2>2
    <3> QED BY <1>3, <1>4, <1>5, <2>2, <3>1 DEF Beyond
  <2> QED BY <2>1, <2>2
<1>9. ASSUME NEW j \in DOMAIN long, j # n + 1
      PROVE  \E i \in DOMAIN short : j = Beyond(n, i)
  <2>1. CASE j <= n
    <3>1. j \in DOMAIN short /\ j = Beyond(n, j)
      BY <1>1, <1>5, <2>1 DEF Beyond
    <3> QED BY <3>1
  <2>2. CASE ~(j <= n)
    <3>1. j - 1 \in DOMAIN short /\ j = Beyond(n, j - 1)
      BY <1>1, <1>5, <1>9, <2>2 DEF Beyond
    <3> QED BY <3>1
  <2> QED BY <2>1, <2>2
<1>10. DOMAIN long \subseteq Nat /\ DOMAIN short \subseteq Nat
  BY <1>5
<1>11. Dropped(long, short, n, h)
  BY <1>1, <1>3, <1>4, <1>6, <1>7, <1>8, <1>9, <1>10 DEF Dropped
<1> QED BY <1>11 DEF long, short, n, v

LEMMA InOrderDrop ==
  ASSUME NEW s \in Seq(Packet), NEW h \in Packet, NEW r \in Seq(Packet),
         NEW f, NEW m, NEW b, NEW last, InOrder((s \o <<h>>) \o r, f, m, b, last)
  PROVE  InOrder(s \o r, f, m, b, last)
<1> HIDE DEF Packet
<1> DEFINE long == (s \o <<h>>) \o r
           short == s \o r
           n == Len(s)
<1>1. Dropped(long, short, n, h) /\ InOrder(long, f, m, b, last)
  BY DropIs
<1> HIDE DEF long, short, n
<1>2. /\ n \in Nat /\ DOMAIN short \subseteq Nat
      /\ \A i \in DOMAIN short : Beyond(n, i) \in DOMAIN long /\ long[Beyond(n, i)] = short[i]
  BY <1>1 DEF Dropped
<1>3. \A i, j \in DOMAIN short : i < j => Beyond(n, i) < Beyond(n, j)
  BY <1>2 DEF Beyond
<1>4. InOrder(short, f, m, b, last)
  BY <1>1, <1>2, <1>3 DEF InOrder
<1> QED BY <1>4 DEF short

LEMMA WholeDrop ==
  ASSUME NEW s \in Seq(Packet), NEW h \in Packet, NEW r \in Seq(Packet),
         NEW f, NEW m, NEW b, NEW last, Whole((s \o <<h>>) \o r, f, m, b, last), h.box # b
  PROVE  Whole(s \o r, f, m, b, last)
<1> HIDE DEF Packet
<1> DEFINE long == (s \o <<h>>) \o r
           short == s \o r
           n == Len(s)
<1>1. Dropped(long, short, n, h) /\ Whole(long, f, m, b, last)
  BY DropIs
<1> HIDE DEF long, short, n
<1>2. /\ long[n + 1] = h
      /\ \A i \in DOMAIN short : long[Beyond(n, i)] = short[i]
      /\ \A j \in DOMAIN long : j # n + 1 => \E i \in DOMAIN short : j = Beyond(n, i)
  BY <1>1 DEF Dropped
<1>3. ASSUME NEW k \in 1..last
      PROVE  \E i \in DOMAIN short : IsFrom(short[i], f, m, b) /\ short[i].n = k
  <2>1. PICK j \in DOMAIN long : IsFrom(long[j], f, m, b) /\ long[j].n = k
    BY <1>1 DEF Whole
  <2>2. j # n + 1
    BY <1>2, <2>1 DEF IsFrom
  <2>3. PICK i \in DOMAIN short : j = Beyond(n, i)
    BY <1>2, <2>2
  <2> QED BY <1>2, <2>1, <2>3
<1>4. Whole(short, f, m, b, last)
  BY <1>3 DEF Whole
<1> QED BY <1>4 DEF short

(* What is in a box, or was read from it, was sent to it.                   *)
LEMMA BoxedStep ==
  ASSUME KernelTypes, MailTypes, NEW m \in Machine, ThreadsInv(m), ReadInv(m), CardInv(m),
         OrderInv(m), Steps(m)
  PROVE  Boxed(m)'
<1>1. CASE UNCHANGED <<taken, boxes>>
  BY <1>1 DEF OrderInv, Boxed
<1>2. ASSUME NEW t \in Thread, Get(m, t), NEW b \in Box, boxes[m][b] # <<>>,
             taken' = [taken EXCEPT ![m][b] = Append(@, Head(boxes[m][b]))],
             boxes' = [boxes EXCEPT ![m][b] = Tail(@)],
             UNCHANGED <<holder, inbox, hold, wire, posted>>
      PROVE  Boxed(m)'
  <2> DEFINE a == taken[m][b]
             r == boxes[m][b]
  <2>1. /\ a \in Seq(Packet) /\ r \in Seq(Packet) /\ r # <<>>
    BY <1>2 DEF MailTypes
  <2>2. /\ \A c \in Box : c # b => taken'[m][c] = taken[m][c] /\ boxes'[m][c] = boxes[m][c]
        /\ taken'[m][b] = Append(a, Head(r)) /\ boxes'[m][b] = Tail(r)
    BY <1>2, GetMail
  <2>3. /\ \A i \in DOMAIN r : r[i].box = b
        /\ \A i \in DOMAIN a : a[i].box = b
    BY DEF OrderInv, Boxed
  <2> HIDE DEF a, r, Packet
  <2>4. \A i \in DOMAIN Tail(r) : i + 1 \in DOMAIN r /\ Tail(r)[i] = r[i + 1]
    BY <2>1
  <2>5. \A i \in DOMAIN Append(a, Head(r)) :
          \/ i \in DOMAIN a /\ Append(a, Head(r))[i] = a[i]
          \/ Append(a, Head(r))[i] = r[1] /\ 1 \in DOMAIN r
    BY <2>1
  <2>6. /\ \A i \in DOMAIN boxes'[m][b] : boxes'[m][b][i].box = b
        /\ \A i \in DOMAIN taken'[m][b] : taken'[m][b][i].box = b
    BY <2>2, <2>3, <2>4, <2>5 DEF a, r
  <2>7. \A c \in Box : c # b =>
          /\ \A i \in DOMAIN boxes'[m][c] : boxes'[m][c][i].box = c
          /\ \A i \in DOMAIN taken'[m][c] : taken'[m][c][i].box = c
    BY <2>2 DEF OrderInv, Boxed
  <2> QED BY <2>6, <2>7 DEF Boxed
<1>3. CASE PutMail(m)
  <2> DEFINE h == hold[m][1]
  <2>1. PICK k \in Box : k = h.box
    BY <1>3, PutIs, PacketIs
  <2>2. /\ h \in Packet /\ taken' = taken /\ boxes'[m][k] = Append(boxes[m][k], h)
        /\ \A b \in Box : b # k => boxes'[m][b] = boxes[m][b]
    BY <1>3, <2>1, PutIs
  <2> DEFINE r == boxes[m][k]
  <2>3. r \in Seq(Packet) /\ \A i \in DOMAIN r : r[i].box = k
    BY DEF MailTypes, OrderInv, Boxed
  <2> HIDE DEF h, r, Packet
  <2>4. \A i \in DOMAIN Append(r, h) :
          (i \in DOMAIN r /\ Append(r, h)[i] = r[i]) \/ Append(r, h)[i] = h
    BY <2>2, <2>3
  <2>5. \A i \in DOMAIN boxes'[m][k] : boxes'[m][k][i].box = k
    BY <2>1, <2>2, <2>3, <2>4 DEF r
  <2> QED BY <2>2, <2>5 DEF OrderInv, Boxed
<1>4. \/ UNCHANGED <<taken, boxes>> \/ PutMail(m)
      \/ \E t \in Thread : Get(m, t)
  BY MailStep
<1>5. ASSUME NEW t \in Thread, Get(m, t) PROVE Boxed(m)'
  <2>1. CASE UNCHANGED <<netVars, pc>>
    BY <1>1, <2>1 DEF netVars
  <2> QED BY <1>2, <1>5, <2>1, GetIs
<1> QED BY <1>1, <1>3, <1>4, <1>5

LEMMA OrderStep ==
  ASSUME KernelTypes, MailTypes, NEW m \in Machine, ThreadsInv(m), ReadInv(m), CardInv(m),
         \A x \in Machine : OrderInv(x), Steps(m)
  PROVE  \A x \in Machine : OrderInv(x)'
<1>1. setup' = setup /\ MailKept(m) /\ posted \in [Machine -> [Machine -> [Box -> Nat]]]
  BY ThreadsStep, MailStep DEF MailTypes
<1>2. \A x \in Machine : Boxed(x)'
  <2>1. Boxed(m)'
    BY BoxedStep
  <2>2. ASSUME NEW x \in Machine, x # m PROVE Boxed(x)'
    <3>1. boxes'[x] = boxes[x] /\ taken'[x] = taken[x]
      BY <1>1, <2>2 DEF MailKept
    <3> QED BY <3>1 DEF OrderInv, Boxed
  <2> QED BY <2>1, <2>2
<1>3. CASE WaysKept
  BY <1>1, <1>2, <1>3 DEF WaysKept, OrderInv, Routed
<1>4. CASE PutMail(m)
  <2> DEFINE h == hold[m][1]
  <2>1. /\ h \in Packet /\ posted' = posted
        /\ \A x \in Machine, b \in Box : x # m \/ b = h.box => Way(x, b)' = Way(x, b)
        /\ \A b \in Box : b # h.box =>
             \E s \in Seq(Packet) : \E r \in Seq(Packet) :
               Way(m, b) = (s \o <<h>>) \o r /\ Way(m, b)' = s \o r
    BY <1>4, PutIs
  <2> HIDE DEF h
  <2>2. ASSUME NEW x \in Machine, NEW b \in Box, Way(x, b)' = Way(x, b)
        PROVE  /\ \A i \in DOMAIN Way(x, b)' : Way(x, b)'[i].to = x /\ Way(x, b)'[i].from # x
               /\ \A f \in Machine :
                    /\ InOrder(Way(x, b)', f, x, b, posted'[f][x][b])
                    /\ setup.reliable => Whole(Way(x, b)', f, x, b, posted'[f][x][b])
    BY <2>1, <2>2 DEF OrderInv, Routed
  <2>3. ASSUME NEW b \in Box, b # h.box
        PROVE  /\ \A i \in DOMAIN Way(m, b)' : Way(m, b)'[i].to = m /\ Way(m, b)'[i].from # m
               /\ \A f \in Machine :
                    /\ InOrder(Way(m, b)', f, m, b, posted'[f][m][b])
                    /\ setup.reliable => Whole(Way(m, b)', f, m, b, posted'[f][m][b])
    <3>1. PICK s \in Seq(Packet) : \E r \in Seq(Packet) :
                 Way(m, b) = (s \o <<h>>) \o r /\ Way(m, b)' = s \o r
      BY <2>1, <2>3
    <3>2. PICK r \in Seq(Packet) : Way(m, b) = (s \o <<h>>) \o r /\ Way(m, b)' = s \o r
      BY <3>1
    <3>3. PICK way \in Seq(Packet) : way = Way(m, b)
      BY WayIs
    <3>4. \A i \in DOMAIN Way(m, b)' : Way(m, b)'[i].to = m /\ Way(m, b)'[i].from # m
      <4> DEFINE short == s \o r
      <4>1. Dropped(way, short, Len(s), h)
        BY <2>1, <3>2, <3>3, DropIs
      <4>2. \A i \in DOMAIN way : way[i].to = m /\ way[i].from # m
        BY <3>3 DEF OrderInv, Routed
      <4> HIDE DEF short
      <4>3. \A i \in DOMAIN short : short[i].to = m /\ short[i].from # m
        BY <4>1, <4>2 DEF Dropped
      <4> QED BY <3>2, <4>3 DEF short
    <3>5. ASSUME NEW f \in Machine
          PROVE  /\ InOrder(Way(m, b)', f, m, b, posted'[f][m][b])
                 /\ setup.reliable => Whole(Way(m, b)', f, m, b, posted'[f][m][b])
      <4>1. PICK last : last = posted[f][m][b]
        OBVIOUS
      <4>2. /\ InOrder((s \o <<h>>) \o r, f, m, b, last)
            /\ setup.reliable => Whole((s \o <<h>>) \o r, f, m, b, last)
        BY <3>2, <4>1 DEF OrderInv
      <4>3. /\ InOrder(s \o r, f, m, b, last)
            /\ setup.reliable => Whole(s \o r, f, m, b, last)
        BY <2>1, <2>3, <4>2, InOrderDrop, WholeDrop
      <4> QED BY <2>1, <3>2, <4>1, <4>3
    <3> QED BY <3>4, <3>5
  <2>4. \A x \in Machine, b \in Box :
          /\ \A i \in DOMAIN Way(x, b)' : Way(x, b)'[i].to = x /\ Way(x, b)'[i].from # x
          /\ \A f \in Machine :
               /\ InOrder(Way(x, b)', f, x, b, posted'[f][x][b])
               /\ setup.reliable => Whole(Way(x, b)', f, x, b, posted'[f][x][b])
    BY <2>1, <2>2, <2>3
  <2> QED BY <1>1, <1>2, <2>4 DEF OrderInv, Routed
<1>5. ASSUME NEW t \in Thread, Post(m, t), NEW to \in Machine \ {m}, NEW b \in Box,
             NEW p \in Packet, NEW put \in BOOLEAN, Posts(m, t, to, b, p, put)
      PROVE  \A x \in Machine : OrderInv(x)'
  <2>1. PICK last \in Nat : last = posted[m][to][b]
    BY <1>1
  <2>2. /\ p.from = m /\ p.to = to /\ p.box = b /\ p.n = last + 1
        /\ posted'[m][to][b] = last + 1
        /\ \A s, x \in Machine, c \in Box :
             <<s, x, c>> # <<m, to, b>> => posted'[s][x][c] = posted[s][x][c]
        /\ \A x \in Machine, c \in Box :
             Way(x, c)' = IF x = to /\ put THEN Append(Way(x, c), p) ELSE Way(x, c)
        /\ put \/ ~setup.reliable
    BY <1>5, <2>1 DEF Posts, PacketOf, Wired
  <2> HIDE DEF Packet
  <2>3. ASSUME NEW x \in Machine, NEW c \in Box
        PROVE  \A i \in DOMAIN Way(x, c)' : Way(x, c)'[i].to = x /\ Way(x, c)'[i].from # x
    <3>1. PICK w \in Seq(Packet) : w = Way(x, c)
      BY WayIs
    <3>2. \A i \in DOMAIN w : w[i].to = x /\ w[i].from # x
      BY <3>1 DEF OrderInv, Routed
    <3>3. \A i \in DOMAIN Append(w, p) :
            (i \in DOMAIN w /\ Append(w, p)[i] = w[i]) \/ Append(w, p)[i] = p
      OBVIOUS
    <3>4. x = to => \A i \in DOMAIN Append(w, p) : Append(w, p)[i].to = x /\ Append(w, p)[i].from # x
      BY <2>2, <3>2, <3>3
    <3> QED BY <2>2, <3>1, <3>2, <3>4
  <2>4. ASSUME NEW x \in Machine, NEW c \in Box, NEW f \in Machine
        PROVE  /\ InOrder(Way(x, c)', f, x, c, posted'[f][x][c])
               /\ setup.reliable => Whole(Way(x, c)', f, x, c, posted'[f][x][c])
    <3>1. PICK w \in Seq(Packet) : w = Way(x, c)
      BY WayIs
    <3>2. PICK old \in Nat : old = posted[f][x][c]
      BY <1>1
    <3>3. InOrder(w, f, x, c, old) /\ (setup.reliable => Whole(w, f, x, c, old))
      BY <3>1, <3>2 DEF OrderInv
    <3>4. CASE <<f, x, c>> = <<m, to, b>>
      <4>1. f = m /\ x = to /\ c = b /\ old = last
        BY <2>1, <3>2, <3>4
      <4>2. last + 1 \in Nat /\ last <= last + 1 /\ last < last + 1
        OBVIOUS
      <4>3. posted'[f][x][c] = last + 1 /\ IsFrom(p, f, x, c)
        BY <2>2, <4>1 DEF IsFrom
      <4>4. CASE put
        <5>1. Way(x, c)' = Append(w, p)
          BY <2>2, <3>1, <4>1, <4>4
        <5>2. InOrder(Append(w, p), f, x, c, last + 1)
          BY <2>2, <3>3, <4>1, <4>2, InOrderAppend
        <5>3. setup.reliable => Whole(Append(w, p), f, x, c, last + 1)
          BY <2>2, <3>3, <4>1, <4>2, <4>3, WholeAppend
        <5> QED BY <4>3, <5>1, <5>2, <5>3
      <4>5. CASE ~put
        <5>1. Way(x, c)' = w /\ ~setup.reliable
          BY <2>2, <3>1, <4>5
        <5>2. InOrder(w, f, x, c, last + 1)
          BY <3>3, <4>1, <4>2, InOrderMore
        <5> QED BY <4>3, <5>1, <5>2
      <4> QED BY <4>4, <4>5
    <3>5. CASE <<f, x, c>> # <<m, to, b>>
      <4>1. posted'[f][x][c] = old
        BY <2>2, <3>2, <3>5
      <4>2. CASE x = to /\ put
        <5>1. Way(x, c)' = Append(w, p) /\ ~IsFrom(p, f, x, c)
          BY <2>2, <3>1, <3>5, <4>2 DEF IsFrom
        <5>2. InOrder(Append(w, p), f, x, c, old)
          BY <3>3, <5>1, InOrderAppend
        <5>3. setup.reliable => Whole(Append(w, p), f, x, c, old)
          BY <3>3, WholeAppend
        <5> QED BY <4>1, <5>1, <5>2, <5>3
      <4>3. CASE ~(x = to /\ put)
        BY <2>2, <3>1, <3>3, <4>1, <4>3
      <4> QED BY <4>2, <4>3
    <3> QED BY <3>4, <3>5
  <2> QED BY <1>1, <1>2, <2>3, <2>4 DEF OrderInv, Routed
<1>6. ASSUME NEW t \in Thread, Post(m, t) PROVE \A x \in Machine : OrderInv(x)'
  BY <1>3, <1>5, <1>6, PostMail
<1> QED BY <1>3, <1>4, <1>6, MailStep

-----------------------------------------------------------------------------
(* No box gets more mail than was sent to it.                               *)

LEMMA MailsAre ==
  ASSUME NEW way \in Seq(Packet), NEW b
  PROVE  IsFiniteSet(Mails(way, b)) /\ Cardinality(Mails(way, b)) \in Nat
<1> HIDE DEF Packet
<1>1. IsFiniteSet(1..Len(way))
  BY FS_Interval
<1>2. Mails(way, b) \in SUBSET (1..Len(way))
  BY DEF Mails
<1>3. IsFiniteSet(Mails(way, b))
  BY <1>1, <1>2, FS_Subset
<1> QED BY <1>3, FS_CardinalityType

LEMMA MailsAppend ==
  ASSUME NEW way \in Seq(Packet), NEW p \in Packet, NEW b
  PROVE  Cardinality(Mails(Append(way, p), b)) <=
           IF p.box = b THEN Cardinality(Mails(way, b)) + 1 ELSE Cardinality(Mails(way, b))
<1> DEFINE M == Mails(way, b)
           N == Mails(Append(way, p), b)
           n == Len(way)
<1>1. /\ IsFiniteSet(M) /\ Cardinality(M) \in Nat
  BY MailsAre
<1>2. N \subseteq M \cup {n + 1} /\ (p.box # b => N \subseteq M)
  <2> HIDE DEF Packet, n
  <2>1. /\ n \in Nat /\ DOMAIN way = 1..n /\ DOMAIN Append(way, p) = 1..(n + 1)
        /\ Append(way, p)[n + 1] = p /\ \A i \in 1..n : Append(way, p)[i] = way[i]
    BY DEF n
  <2> QED BY <2>1 DEF Mails
<1> HIDE DEF M, N, n
<1>3. /\ IsFiniteSet(M \cup {n + 1})
      /\ Cardinality(M \cup {n + 1}) <= Cardinality(M) + 1
  <2>1. \A k : /\ IsFiniteSet(M \cup {k})
               /\ Cardinality(M \cup {k}) =
                    IF k \in M THEN Cardinality(M) ELSE Cardinality(M) + 1
    BY <1>1, FS_AddElement
  <2>2. \/ Cardinality(M \cup {n + 1}) = Cardinality(M)
        \/ Cardinality(M \cup {n + 1}) = Cardinality(M) + 1
    BY <2>1
  <2>3. Cardinality(M \cup {n + 1}) <= Cardinality(M) + 1
    <3> DEFINE old == Cardinality(M)
               new == Cardinality(M \cup {n + 1})
    <3>1. old \in Nat /\ (new = old \/ new = old + 1)
      BY <1>1, <2>2
    <3> HIDE DEF old, new
    <3>2. new <= old + 1
      BY <3>1
    <3> QED BY <3>2 DEF old, new
  <2> QED BY <2>1, <2>3
<1>4. Cardinality(N) <= Cardinality(M \cup {n + 1}) /\ IsFiniteSet(N)
  BY <1>2, <1>3, FS_Subset
<1>5. p.box # b => Cardinality(N) <= Cardinality(M)
  BY <1>1, <1>2, FS_Subset
<1>6. Cardinality(N) \in Nat /\ Cardinality(M \cup {n + 1}) \in Nat
  BY <1>3, <1>4, FS_CardinalityType
<1>7. Cardinality(N) <= Cardinality(M) + 1
  BY <1>1, <1>3, <1>4, <1>6
<1> QED BY <1>5, <1>7 DEF M, N

LEMMA MailsDrop ==
  ASSUME NEW s \in Seq(Packet), NEW h \in Packet, NEW r \in Seq(Packet), NEW b
  PROVE  Cardinality(Mails(s \o r, b)) <= Cardinality(Mails((s \o <<h>>) \o r, b))
<1> HIDE DEF Packet
<1> DEFINE long == (s \o <<h>>) \o r
           short == s \o r
           n == Len(s)
<1>1. Dropped(long, short, n, h)
  BY DropIs
<1> HIDE DEF long, short, n
<1> DEFINE M == Mails(long, b)
           N == Mails(short, b)
           f == [i \in N |-> Beyond(n, i)]
<1>2. IsFiniteSet(M)
  BY <1>1, MailsAre DEF Dropped
<1>3. \A i \in N : Beyond(n, i) \in M
  BY <1>1 DEF Dropped, Mails
<1>4. \A i, j \in N : Beyond(n, i) = Beyond(n, j) => i = j
  <2>1. n \in Nat /\ N \subseteq Nat
    BY <1>1 DEF Dropped, Mails
  <2> HIDE DEF N
  <2> QED BY <2>1 DEF Beyond
<1> HIDE DEF M, N
<1>5. f \in Injection(N, M)
  BY <1>3, <1>4 DEF Injection, IsInjective
<1> HIDE DEF f
<1>6. Cardinality(N) <= Cardinality(M)
  BY <1>2, <1>5, FS_Injection
<1> QED BY <1>6 DEF M, N, long, short

LEMMA AddressedIs ==
  ASSUME KernelTypes, NEW m \in Machine, NEW b \in Box
  PROVE  /\ IsFiniteSet(Addressed(setup, m, b)) /\ Cardinality(Addressed(setup, m, b)) \in Nat
         /\ IsFiniteSet(Sent(m, b)) /\ Cardinality(Sent(m, b)) \in Nat
         /\ Cardinality(Sent(m, b)) <= Cardinality(Addressed(setup, m, b))
<1>1. IsFiniteSet(Addressed(setup, m, b))
  BY ConversationAssumption DEF KernelTypes
<1>2. Sent(m, b) \in SUBSET Addressed(setup, m, b)
  BY DEF Sent
<1>3. IsFiniteSet(Sent(m, b)) /\ Cardinality(Sent(m, b)) <= Cardinality(Addressed(setup, m, b))
  BY <1>1, <1>2, FS_Subset
<1> QED BY <1>1, <1>3, FS_CardinalityType

(* A call that has sent stays so.                                           *)
SentStays ==
  \A s \in Machine, u \in User : \A i \in Nat : HasSent(s, u, i) => HasSent(s, u, i)'

LEMMA SentSame ==
  ASSUME pc' = pc
  PROVE  SentStays
BY DEF SentStays, HasSent

LEMMA SentGoes ==
  ASSUME KernelTypes, NEW m \in Machine, NEW t \in Thread, NEW w \in Place, Goes(m, t, w),
         t \in User => w \in {"wait", "release"} \/ pc[m][t].at \notin {"wait", "release"}
  PROVE  SentStays
<1>1. ASSUME NEW s \in Machine, NEW u \in User, NEW i \in Nat, HasSent(s, u, i)
      PROVE  HasSent(s, u, i)'
  <2>1. u \in Thread
    BY ThreadIs
  <2>2. CASE s = m /\ u = t
    <3>1. pc'[s][u].call = pc[s][u].call /\ pc'[s][u].at = w
      BY <2>2, GoesIs
    <3> QED BY <1>1, <2>2, <3>1 DEF HasSent
  <2>3. CASE ~(s = m /\ u = t)
    <3>1. pc'[s][u] = pc[s][u]
      BY <2>1, <2>3, GoesIs
    <3> QED BY <1>1, <3>1 DEF HasSent
  <2> QED BY <2>2, <2>3
<1> QED BY <1>1 DEF SentStays

LEMMA SentReturns ==
  ASSUME KernelTypes, NEW m \in Machine, NEW t \in Thread, Returns(m, t)
  PROVE  SentStays
<1>1. ASSUME NEW s \in Machine, NEW u \in User, NEW i \in Nat, HasSent(s, u, i)
      PROVE  HasSent(s, u, i)'
  <2>1. u \in Thread /\ u # "postal"
    BY ThreadIs
  <2>2. CASE s = m /\ u = t
    <3>1. pc'[s][u].call = pc[s][u].call + 1 /\ pc[s][u].call \in Nat
      BY <2>1, <2>2, ReturnsIs DEF KernelTypes
    <3> QED BY <1>1, <3>1 DEF HasSent
  <2>3. CASE ~(s = m /\ u = t)
    <3>1. pc'[s][u] = pc[s][u]
      BY <2>1, <2>3, ReturnsIs
    <3> QED BY <1>1, <3>1 DEF HasSent
  <2> QED BY <2>2, <2>3
<1> QED BY <1>1 DEF SentStays

LEMMA SentStep ==
  ASSUME KernelTypes, NEW m \in Machine, ThreadsInv(m), Steps(m)
  PROVE  SentStays
<1>1. ASSUME NEW t \in Thread, Foreign(m, t) PROVE SentStays
  <2>1. Runs(m, t) /\ ~Sends(m, t)
    BY <1>1, ForeignIs
  <2>2. pc[m][t].at \notin {"wait", "release"}
    <3>1. Made(m, t)
      BY <2>1, RunnerIs
    <3> QED BY <2>1, <3>1 DEF ThreadsInv, Positions, PlacesOf, Sends
  <2>3. \/ pc' = pc
        \/ Returns(m, t)
        \/ \E w \in Place : Goes(m, t, w)
    BY <1>1, ForeignIs
  <2> QED BY <2>2, <2>3, SentSame, SentReturns, SentGoes
<1>2. ASSUME NEW t \in Thread, Acquire(m, t) PROVE SentStays
  BY <1>2, SentSame, SentGoes DEF Acquire, Place
<1>3. ASSUME NEW t \in Thread, Post(m, t) PROVE SentStays
  <2>1. Goes(m, t, "wait") \/ pc' = pc
    BY <1>3, PostCalm
  <2> QED BY <2>1, SentSame, SentGoes DEF Place
<1>4. ASSUME NEW t \in Thread, AwaitSent(m, t) PROVE SentStays
  <2>1. Goes(m, t, "release") \/ pc' = pc
    BY <1>4 DEF AwaitSent, P
  <2> QED BY <2>1, SentSame, SentGoes DEF Place
<1>5. ASSUME NEW t \in Thread, Release(m, t) PROVE SentStays
  BY <1>5, SentReturns DEF Release
<1>6. CASE Fires(m) \/ Resumes(m) \/ Idle(m)
  <2>1. pc' = pc
    BY <1>6 DEF Fires, Resumes, Idle, thrVars
  <2> QED BY <2>1, SentSame
<1>7. "postal" \in Thread
  BY DEF Thread
<1> QED BY <1>1, <1>2, <1>3, <1>4, <1>5, <1>6, <1>7 DEF Steps, Foreign

LEMMA SentGrows ==
  ASSUME KernelTypes, setup' = setup, SentStays, NEW x \in Machine, NEW b \in Box
  PROVE  /\ IsFiniteSet(Sent(x, b)') /\ Cardinality(Sent(x, b)') \in Nat
         /\ Sent(x, b) \subseteq Sent(x, b)'
         /\ Cardinality(Sent(x, b)) <= Cardinality(Sent(x, b)')
<1>1. Addressed(setup, x, b)' = Addressed(setup, x, b)
  BY DEF Addressed, CallNumber
<1>2. IsFiniteSet(Addressed(setup, x, b))
  BY AddressedIs
<1>3. Sent(x, b)' \in SUBSET Addressed(setup, x, b)
  BY <1>1 DEF Sent
<1>4. \A a \in Addressed(setup, x, b) : a[1] \in Machine /\ a[2] \in User /\ a[3] \in Nat
  <2>1. ASSUME NEW a \in Addressed(setup, x, b)
        PROVE  a[1] \in Machine /\ a[2] \in User /\ a[3] \in DOMAIN setup.code[a[1]][a[2]]
    BY DEF Addressed
  <2>2. \A s \in Machine, u \in User : setup.code[s][u] \in Seq(Calls)
    BY ProgramAssumption DEF KernelTypes
  <2> HIDE DEF Calls
  <2>3. \A s \in Machine, u \in User : DOMAIN setup.code[s][u] \subseteq Nat
    BY <2>2
  <2> QED BY <2>1, <2>3
<1>5. Sent(x, b) \subseteq Sent(x, b)'
  <2>1. ASSUME NEW a \in Addressed(setup, x, b), HasSent(a[1], a[2], a[3])
        PROVE  HasSent(a[1], a[2], a[3])'
    BY <1>4, <2>1 DEF SentStays
  <2> QED BY <1>1, <2>1 DEF Sent
<1>6. IsFiniteSet(Sent(x, b)')
  BY <1>2, <1>3, FS_Subset
<1>7. Cardinality(Sent(x, b)) <= Cardinality(Sent(x, b)')
  BY <1>5, <1>6, FS_Subset
<1> QED BY <1>5, <1>6, <1>7, FS_CardinalityType

(* A thread about to send is at a call that may send, and has not yet.      *)
LEMMA SenderIs ==
  ASSUME KernelTypes, MailTypes, NEW m \in Machine, ThreadsInv(m), ReadInv(m), OrderInv(m),
         NEW t \in Thread, Post(m, t)
  PROVE  /\ t \in User /\ Target(m, t) \in Machine \ {m} /\ Call(m, t).box \in Box
         /\ <<m, t, pc[m][t].call>> \in Addressed(setup, Target(m, t), Call(m, t).box)
         /\ <<m, t, pc[m][t].call>> \notin Sent(Target(m, t), Call(m, t).box)
<1>1. Runs(m, t) /\ Sends(m, t) /\ pc[m][t].at = "put"
  BY DEF Post
<1>2. /\ t \in User /\ Made(m, t) /\ Call(m, t) \in Calls
      /\ Target(m, t) \in Machine /\ Target(m, t) # m
  BY <1>1, TargetIs
<1>3. PICK i : i = pc[m][t].call
  OBVIOUS
<1>4. /\ setup.code[m][t] \in Seq(Calls) /\ i \in DOMAIN setup.code[m][t]
      /\ Call(m, t) = setup.code[m][t][i]
  <2>1. Program(m, t) = setup.code[m][t] /\ Program(m, t) \in Seq(Calls) /\ i \in 1..Len(Program(m, t))
    BY <1>2, <1>3, CallIs
  <2> HIDE DEF Calls
  <2> QED BY <1>3, <2>1 DEF Call
<1>5. i \in CallNumber(setup) /\ i \in Nat
  <2>1. i \in Nat
    BY <1>3, <1>2, CallIs
  <2> QED BY <1>2, <1>4, <2>1 DEF CallNumber
<1>6. Call(m, t).box \in Box
  BY <1>2 DEF Calls
<1>7. \/ Call(m, t).op = "send" /\ Call(m, t).to = Target(m, t)
      \/ Call(m, t).op = "reply" /\ m # Target(m, t)
  BY <1>1, <1>2 DEF Sends, Target
<1>8. <<m, t, i>> \in Addressed(setup, Target(m, t), Call(m, t).box)
  BY <1>2, <1>4, <1>5, <1>7 DEF Addressed
<1>9. ~HasSent(m, t, i)
  BY <1>1, <1>3, <1>5 DEF HasSent
<1>10. <<m, t, i>> \notin Sent(Target(m, t), Call(m, t).box)
  BY <1>9 DEF Sent
<1> QED BY <1>2, <1>3, <1>6, <1>8, <1>10

LEMMA PostCounts ==
  ASSUME KernelTypes, MailTypes, NEW m \in Machine, ThreadsInv(m), ReadInv(m), OrderInv(m),
         NEW t \in Thread, Post(m, t), Goes(m, t, "wait"), setup' = setup, SentStays,
         NEW to \in Machine, to = Target(m, t), NEW b \in Box, b = Call(m, t).box
  PROVE  /\ Cardinality(Sent(to, b)) \in Nat /\ Cardinality(Sent(to, b)') \in Nat
         /\ Cardinality(Sent(to, b)) + 1 <= Cardinality(Sent(to, b)')
<1>0. PICK i : i = pc[m][t].call
  OBVIOUS
<1> DEFINE a == <<m, t, i>>
<1>1. /\ a \in Addressed(setup, to, b) /\ a \notin Sent(to, b)
  BY <1>0, SenderIs
<1>2. a \in Sent(to, b)'
  <2>1. Addressed(setup, to, b)' = Addressed(setup, to, b)
    BY DEF Addressed, CallNumber
  <2>2. pc'[m][t].call = pc[m][t].call /\ pc'[m][t].at = "wait"
    BY GoesIs DEF Place
  <2>3. HasSent(a[1], a[2], a[3])'
    BY <1>0, <2>2 DEF HasSent
  <2> QED BY <1>1, <2>1, <2>3 DEF Sent
<1> HIDE DEF a
<1>3. /\ IsFiniteSet(Sent(to, b)) /\ Cardinality(Sent(to, b)) \in Nat
  BY AddressedIs
<1>4. /\ IsFiniteSet(Sent(to, b)') /\ Cardinality(Sent(to, b)') \in Nat
      /\ Sent(to, b) \subseteq Sent(to, b)'
  BY SentGrows
<1>5. Cardinality(Sent(to, b) \cup {a}) = Cardinality(Sent(to, b)) + 1
  BY <1>1, <1>3, FS_AddElement
<1>6. Sent(to, b) \cup {a} \subseteq Sent(to, b)'
  BY <1>2, <1>4
<1>7. Cardinality(Sent(to, b) \cup {a}) <= Cardinality(Sent(to, b)')
  BY <1>4, <1>6, FS_Subset
<1> QED BY <1>3, <1>4, <1>5, <1>7

LEMMA CountStep ==
  ASSUME KernelTypes, MailTypes, NEW m \in Machine, ThreadsInv(m), ReadInv(m), CardInv(m),
         OrderInv(m), \A x \in Machine : CountInv(x), Steps(m)
  PROVE  \A x \in Machine : CountInv(x)'
<1>1. setup' = setup /\ SentStays
  BY ThreadsStep, SentStep
<1>2. ASSUME NEW x \in Machine, NEW b \in Box,
             Cardinality(Mails(Way(x, b)', b)) <= Cardinality(Mails(Way(x, b), b)),
             Cardinality(Mails(Way(x, b)', b)) \in Nat
      PROVE  Cardinality(Mails(Way(x, b)', b)) <= Cardinality(Sent(x, b)')
  <2>1. Cardinality(Mails(Way(x, b), b)) \in Nat
    BY MailsAre, WayIs
  <2>2. Cardinality(Mails(Way(x, b), b)) <= Cardinality(Sent(x, b))
    BY DEF CountInv
  <2>3. /\ Cardinality(Sent(x, b)) \in Nat /\ Cardinality(Sent(x, b)') \in Nat
        /\ Cardinality(Sent(x, b)) <= Cardinality(Sent(x, b)')
    BY <1>1, AddressedIs, SentGrows
  <2> QED BY <1>2, <2>1, <2>2, <2>3
<1>3. ASSUME NEW x \in Machine, NEW b \in Box, Way(x, b)' = Way(x, b)
      PROVE  Cardinality(Mails(Way(x, b)', b)) <= Cardinality(Sent(x, b)')
  <2>1. Cardinality(Mails(Way(x, b), b)) \in Nat
    BY MailsAre, WayIs
  <2> QED BY <1>2, <1>3, <2>1
<1>4. CASE WaysKept
  BY <1>3, <1>4 DEF WaysKept, CountInv
<1>5. CASE PutMail(m)
  <2> DEFINE h == hold[m][1]
  <2>1. /\ h \in Packet
        /\ \A x \in Machine, b \in Box : x # m \/ b = h.box => Way(x, b)' = Way(x, b)
        /\ \A b \in Box : b # h.box =>
             \E s \in Seq(Packet) : \E r \in Seq(Packet) :
               Way(m, b) = (s \o <<h>>) \o r /\ Way(m, b)' = s \o r
    BY <1>5, PutIs
  <2> HIDE DEF h
  <2>2. ASSUME NEW b \in Box, b # h.box
        PROVE  Cardinality(Mails(Way(m, b)', b)) <= Cardinality(Sent(m, b)')
    <3>1. PICK s \in Seq(Packet) : \E r \in Seq(Packet) :
                 Way(m, b) = (s \o <<h>>) \o r /\ Way(m, b)' = s \o r
      BY <2>1, <2>2
    <3>2. PICK r \in Seq(Packet) : Way(m, b) = (s \o <<h>>) \o r /\ Way(m, b)' = s \o r
      BY <3>1
    <3>3. /\ Cardinality(Mails(s \o r, b)) <= Cardinality(Mails((s \o <<h>>) \o r, b))
      BY <2>1, MailsDrop
    <3>4. s \o r \in Seq(Packet)
      BY <2>1, DropIs DEF Dropped
    <3>5. Cardinality(Mails(s \o r, b)) \in Nat
      BY <3>4, MailsAre
    <3> QED BY <1>2, <3>2, <3>3, <3>5
  <2>3. \A x \in Machine, b \in Box :
          Cardinality(Mails(Way(x, b)', b)) <= Cardinality(Sent(x, b)')
    BY <1>3, <2>1, <2>2
  <2> QED BY <2>3 DEF CountInv
<1>6. ASSUME NEW t \in Thread, Post(m, t), NEW to \in Machine \ {m}, NEW b \in Box,
             NEW p \in Packet, NEW put \in BOOLEAN, Posts(m, t, to, b, p, put)
      PROVE  \A x \in Machine : CountInv(x)'
  <2>1. /\ to = Target(m, t) /\ b = Call(m, t).box /\ p.box = b /\ Goes(m, t, "wait")
        /\ \A x \in Machine, c \in Box :
             Way(x, c)' = IF x = to /\ put THEN Append(Way(x, c), p) ELSE Way(x, c)
    BY <1>6 DEF Posts, PacketOf, Wired
  <2> HIDE DEF Packet
  <2>2. ASSUME NEW c \in Box, put
        PROVE  Cardinality(Mails(Way(to, c)', c)) <= Cardinality(Sent(to, c)')
    <3>1. PICK w \in Seq(Packet) : w = Way(to, c)
      BY WayIs
    <3>2. Way(to, c)' = Append(w, p)
      BY <2>1, <2>2, <3>1
    <3>3. Cardinality(Mails(w, c)) \in Nat /\ Cardinality(Mails(Append(w, p), c)) \in Nat
      <4>1. Append(w, p) \in Seq(Packet)
        OBVIOUS
      <4> QED BY <4>1, MailsAre
    <3>4. CASE c = b
      <4>1. Cardinality(Mails(Append(w, p), c)) <= Cardinality(Mails(w, c)) + 1
        BY <2>1, <3>4, MailsAppend
      <4>2. Cardinality(Mails(w, c)) <= Cardinality(Sent(to, c))
        BY <3>1 DEF CountInv
      <4>3. /\ Cardinality(Sent(to, b)) \in Nat /\ Cardinality(Sent(to, b)') \in Nat
            /\ Cardinality(Sent(to, b)) + 1 <= Cardinality(Sent(to, b)')
        BY <1>1, <1>6, <2>1, PostCounts
      <4> QED BY <3>2, <3>3, <3>4, <4>1, <4>2, <4>3
    <3>5. CASE c # b
      <4>1. Cardinality(Mails(Append(w, p), c)) <= Cardinality(Mails(w, c))
        BY <2>1, <3>5, MailsAppend
      <4> QED BY <1>2, <3>1, <3>2, <3>3, <4>1
    <3> QED BY <3>4, <3>5
  <2>3. \A x \in Machine, c \in Box :
          Cardinality(Mails(Way(x, c)', c)) <= Cardinality(Sent(x, c)')
    BY <1>3, <2>1, <2>2
  <2> QED BY <2>3 DEF CountInv
<1>7. ASSUME NEW t \in Thread, Post(m, t) PROVE \A x \in Machine : CountInv(x)'
  BY <1>4, <1>6, <1>7, PostMail
<1> QED BY <1>4, <1>5, <1>7, MailStep

-----------------------------------------------------------------------------
(* A machine halts when all mail that may be sent to it has been read.      *)

CalmOf(m) ==
  /\ PendingTyped(m) /\ CountKept(m, {})
  /\ ~None(pending[m], "recv") => ~None(pending'[m], "recv")

LEMMA CalmOfIs ==
  ASSUME NEW m \in Machine, NEW kinds, "recv" \in kinds, NEW events, Calm(m, kinds, events)
  PROVE  CalmOf(m)
BY DEF Calm, CalmOf, KindsKept, CountKept

LEMMA CalmStep ==
  ASSUME KernelTypes, NEW m \in Machine, Steps(m)
  PROVE  CalmOf(m)
<1>1. "recv" \in Kind /\ "recv" # "sent" /\ "recv" # "write" /\ "recv" # "read" /\ "recv" # "timer"
  BY DEF Kind
<1>2. ASSUME NEW t, Plain(m, t) PROVE CalmOf(m)
  BY <1>1, <1>2, PlainCalm, CalmOfIs
<1>3. ASSUME NEW t \in Thread, Post(m, t) PROVE CalmOf(m)
  <2>1. Calm(m, Kind \ {"sent"}, Event)
    BY <1>3, PostCalm
  <2> QED BY <1>1, <2>1, CalmOfIs
<1>4. ASSUME NEW t \in Thread, EchoChar(m, t) PROVE CalmOf(m)
  <2>1. Calm(m, Kind \ {"write"}, Event)
    BY <1>4, EchoCalm
  <2> QED BY <1>1, <2>1, CalmOfIs
<1>5. ASSUME NEW t \in Thread, NEW e \in Event, NEW w \in Place, P(m, t, e, w) PROVE CalmOf(m)
  <2>1. Calm(m, Kind, Event \ {e})
    BY <1>5, PIs
  <2> QED BY <1>1, <2>1, CalmOfIs
<1>6. ASSUME NEW t \in Thread, AwaitSent(m, t) \/ AwaitChar(m, t) \/ AwaitWrite(m, t)
      PROVE  CalmOf(m)
  BY <1>5, <1>6 DEF AwaitSent, AwaitChar, AwaitWrite, Event, Place
<1>7. ASSUME AwaitPacket(m) PROVE CalmOf(m)
  BY <1>5, <1>7 DEF AwaitPacket, Event, Place, Thread
<1>8. ASSUME Fires(m) PROVE CalmOf(m)
  <2>1. \/ Calm(m, Kind \ {"recv"}, Event \ {"messageAvailable"}) /\ ~None(pending'[m], "recv")
        \/ \E kind \in {"read", "timer", "sent", "write"} : \E events :
             Calm(m, Kind \ {kind}, events)
    BY <1>8, PollCalm
  <2>2. ASSUME Calm(m, Kind \ {"recv"}, Event \ {"messageAvailable"}), ~None(pending'[m], "recv")
        PROVE  CalmOf(m)
    BY <2>2 DEF Calm, CalmOf, CountKept
  <2>3. ASSUME NEW kind \in {"read", "timer", "sent", "write"}, NEW events,
               Calm(m, Kind \ {kind}, events)
        PROVE  CalmOf(m)
    BY <1>1, <2>3, CalmOfIs
  <2> QED BY <2>1, <2>2, <2>3
<1> QED BY <1>2, <1>3, <1>4, <1>6, <1>7, <1>8 DEF Steps, Plain

(* How a machine stops.                                                     *)
Stops(m, how) == life' = [life EXCEPT ![m] = how]

LEMMA LifeStep ==
  ASSUME KernelTypes, ConsoleTypes, NEW m \in Machine, ThreadsInv(m), EchoInv(m),
         KeysInv(m), Steps(m)
  PROVE  \/ life' = life
         \/ Stops(m, "halted") /\ \E t \in Thread : HaltCalled(m, t)
         \/ Stops(m, "halted") /\ (pending[m] = <<>> \/ OnlyTimer(pending[m]))
         \/ Stops(m, "aborted") /\ setup.file
         \/ Stops(m, "aborted") /\ \E t \in Thread : Post(m, t) /\ life[Target(m, t)] # "up"
<1>1. setup' = setup
  BY ThreadsStep
<1>2. ASSUME NEW t \in Thread, EchoChar(m, t) PROVE life' = life
  BY <1>2, EchoCharKeeps
<1>3. ASSUME NEW t \in Thread, Post(m, t)
      PROVE  life' = life \/ (Stops(m, "aborted") /\ life[Target(m, t)] # "up")
  BY <1>3, PostCalm DEF Stops
<1>4. ASSUME NEW t \in Thread, HaltCalled(m, t) PROVE Stops(m, "halted")
  BY <1>4 DEF HaltCalled, Cleanup, Stops
<1>5. ASSUME Idle(m)
      PROVE  \/ life' = life
             \/ Stops(m, "halted") /\ (pending[m] = <<>> \/ OnlyTimer(pending[m]))
  BY <1>5 DEF Idle, Cleanup, Stops
<1>6. ASSUME Fires(m)
      PROVE  life' = life \/ (Stops(m, "aborted") /\ setup.file)
  <2>1. \/ CheckCharAvail(m, Tail(pending[m]))
        \/ CheckPktAvail(m, Tail(pending[m])) \/ SendDone(m, Tail(pending[m]))
        \/ WriteDone(m, Tail(pending[m])) \/ TimerExpired(m, Tail(pending[m]))
    BY <1>6, FiresIs
  <2>2. ASSUME CheckCharAvail(m, Tail(pending[m]))
        PROVE  life' = life \/ (Stops(m, "aborted") /\ setup.file)
    BY <1>1, <2>2, CharComes DEF Stops
  <2> QED BY <2>1, <2>2 DEF CheckPktAvail, SendDone, WriteDone, TimerExpired
<1>7. ASSUME NEW t \in Thread,
             \/ Acquire(m, t) \/ AwaitSent(m, t) \/ Release(m, t) \/ Get(m, t)
             \/ AwaitChar(m, t) \/ AwaitWrite(m, t) \/ NextChar(m, t)
             \/ Computes(m, t) \/ Ends(m, t)
      PROVE  life' = life
  BY <1>7 DEF Acquire, AwaitSent, Release, Get, AwaitChar, AwaitWrite, NextChar, Computes, Ends
<1>8. ASSUME AwaitPacket(m) \/ TakePacket(m) \/ PutMail(m) \/ Resumes(m) PROVE life' = life
  BY <1>8 DEF AwaitPacket, TakePacket, PutMail, Resumes
<1> QED BY <1>2, <1>3, <1>4, <1>5, <1>6, <1>7, <1>8 DEF Steps

LEMMA LifeIs ==
  ASSUME KernelTypes, NEW m \in Machine,
         life' = life \/ Stops(m, "halted") \/ Stops(m, "aborted")
  PROVE  /\ life' \in [Machine -> {"up", "halted", "aborted"}]
         /\ \A x \in Machine : x # m => life'[x] = life[x]
         /\ Stops(m, "halted") => life'[m] = "halted"
         /\ Stops(m, "aborted") => life'[m] = "aborted"
BY DEF KernelTypes, Stops

(* What was read stays read.                                                *)
LEMMA TakenGrows ==
  ASSUME KernelTypes, MailTypes, NEW m \in Machine, ThreadsInv(m), ReadInv(m), CardInv(m),
         OrderInv(m), Steps(m)
  PROVE  \A x \in Machine, b \in Box : /\ Len(taken'[x][b]) \in Nat
                                       /\ Len(taken[x][b]) <= Len(taken'[x][b])
<1> HIDE DEF Packet
<1>1. \A x \in Machine, b \in Box : Len(taken[x][b]) \in Nat
  BY DEF MailTypes
<1>2. CASE taken' = taken
  BY <1>1, <1>2
<1>3. ASSUME NEW t \in Thread, Get(m, t)
      PROVE  \A x \in Machine, b \in Box : Len(taken[x][b]) <= Len(taken'[x][b])
  <2>1. CASE UNCHANGED <<netVars, pc>>
    BY <1>1, <2>1 DEF netVars
  <2>2. ASSUME NEW b \in Box, boxes[m][b] # <<>>,
               taken' = [taken EXCEPT ![m][b] = Append(@, Head(boxes[m][b]))],
               boxes' = [boxes EXCEPT ![m][b] = Tail(@)],
               UNCHANGED <<holder, inbox, hold, wire, posted>>
        PROVE  \A x \in Machine, c \in Box : Len(taken[x][c]) <= Len(taken'[x][c])
    <3>1. /\ MailKept(m) /\ Len(taken'[m][b]) = Len(taken[m][b]) + 1
          /\ \A c \in Box : c # b => taken'[m][c] = taken[m][c]
      BY <2>2, GetMail
    <3> QED BY <1>1, <3>1 DEF MailKept
  <2> QED BY <1>3, <2>1, <2>2, GetIs
<1>4. \A x \in Machine, b \in Box : Len(taken[x][b]) <= Len(taken'[x][b])
  BY <1>2, <1>3, <1>1, MailStep
<1>5. \A x \in Machine, b \in Box : Len(taken'[x][b]) \in Nat
  <2>1. taken' \in [Machine -> [Box -> Seq(Packet)]]
    BY MailStep DEF MailKept, MailTypes
  <2> QED BY <2>1
<1> QED BY <1>4, <1>5

LEMMA TakenAreMails ==
  ASSUME MailTypes, NEW m \in Machine, OrderInv(m), NEW b \in Box
  PROVE  Len(taken[m][b]) \in Nat /\ Len(taken[m][b]) <= Cardinality(Mails(Way(m, b), b))
<1> HIDE DEF Packet
<1>1. PICK n \in Nat : n = Len(taken[m][b])
  BY DEF MailTypes
<1>2. PICK w \in Seq(Packet) : w = Way(m, b)
  BY WayIs
<1>3. n <= Len(w) /\ \A i \in 1..n : w[i] = taken[m][b][i]
  BY <1>1, <1>2, WayIs
<1>4. \A i \in 1..n : taken[m][b][i].box = b
  <2>1. DOMAIN taken[m][b] = 1..n
    BY <1>1 DEF MailTypes
  <2> QED BY <2>1 DEF OrderInv, Boxed
<1>5. 1..n \subseteq Mails(w, b)
  BY <1>3, <1>4 DEF Mails
<1>6. IsFiniteSet(Mails(w, b)) /\ Cardinality(Mails(w, b)) \in Nat
  BY MailsAre
<1>7. Cardinality(1..n) = n
  BY FS_Interval
<1>8. n <= Cardinality(Mails(w, b))
  BY <1>5, <1>6, <1>7, FS_Subset
<1> QED BY <1>1, <1>2, <1>8

ReadAll(m) == \A b \in Box : Cardinality(Addressed(setup, m, b)) <= Len(taken[m][b])

LEMMA AddressedStays ==
  ASSUME setup' = setup
  PROVE  \A m, b : Addressed(setup, m, b)' = Addressed(setup, m, b)
BY DEF Addressed, CallNumber

LEMMA ReadAllStays ==
  ASSUME KernelTypes, MailTypes, setup' = setup, NEW m \in Machine, ReadAll(m),
         \A b \in Box : /\ Len(taken'[m][b]) \in Nat
                        /\ Len(taken[m][b]) <= Len(taken'[m][b])
  PROVE  ReadAll(m)'
<1>1. ASSUME NEW b \in Box
      PROVE  Cardinality(Addressed(setup, m, b)') <= Len(taken'[m][b])
  <2>1. Cardinality(Addressed(setup, m, b)) \in Nat
    BY AddressedIs
  <2>2. Len(taken[m][b]) \in Nat
    <3> HIDE DEF Packet
    <3> QED BY DEF MailTypes
  <2>3. Cardinality(Addressed(setup, m, b)) <= Len(taken[m][b])
    BY DEF ReadAll
  <2>4. Addressed(setup, m, b)' = Addressed(setup, m, b)
    BY AddressedStays
  <2> QED BY <2>1, <2>2, <2>3, <2>4
<1> QED BY <1>1 DEF ReadAll

LEMMA HaltReads ==
  ASSUME KernelTypes, MailTypes, NEW m \in Machine, ThreadsInv(m), ReadInv(m),
         NEW t \in Thread, HaltCalled(m, t)
  PROVE  ReadAll(m)
<1>1. Runs(m, t) /\ Call(m, t).op = "halt"
  BY DEF HaltCalled, At
<1>2. t \in User /\ Made(m, t)
  BY <1>1, CallerIs
<1>3. PICK h \in Nat : h = pc[m][t].call
  BY <1>2, CallIs
<1>4. /\ h \in DOMAIN setup.code[m][t] /\ setup.code[m][t][h].op = "halt"
      /\ Program(m, t) = setup.code[m][t]
  <2>1. /\ Program(m, t) = setup.code[m][t] /\ Program(m, t) \in Seq(Calls)
        /\ h \in 1..Len(Program(m, t))
    BY <1>2, <1>3, CallIs
  <2> HIDE DEF Calls
  <2> QED BY <1>1, <1>3, <2>1 DEF Call
<1>5. ASSUME NEW b \in Box PROVE Cardinality(Addressed(setup, m, b)) <= Len(taken[m][b])
  <2>1. Cardinality(Addressed(setup, m, b)) <= Cardinality(Reads(m, t, b))
    <3>1. Reads(m, t, b) = ReadsOf(setup.code[m][t], h - 1, b)
      BY <1>3, <1>4 DEF Reads
    <3> QED BY <1>2, <1>4, <3>1, ConversationAssumption DEF KernelTypes
  <2>2. Cardinality(Reads(m, t, b)) <= Len(taken[m][b])
    BY <1>2 DEF ReadInv
  <2>3. Cardinality(Addressed(setup, m, b)) \in Nat /\ Cardinality(Reads(m, t, b)) \in Nat
    BY <1>2, AddressedIs, ReadsFinite, ThreadIs
  <2>4. Len(taken[m][b]) \in Nat
    <3> HIDE DEF Packet
    <3> QED BY DEF MailTypes
  <2> QED BY <2>1, <2>2, <2>3, <2>4
<1> QED BY <1>5 DEF ReadAll

(* Without a card there is nobody to send to the machine.                   *)
LEMMA IdleReads ==
  ASSUME KernelTypes, MailTypes, NEW m \in Machine, EndInv(m),
         pending[m] = <<>> \/ OnlyTimer(pending[m])
  PROVE  ReadAll(m)
<1>1. None(pending[m], "recv")
  BY DEF None, OnlyTimer, KernelTypes
<1>2. "recv" \notin setup.devices[m]
  BY <1>1 DEF EndInv
<1>3. ASSUME NEW b \in Box PROVE Cardinality(Addressed(setup, m, b)) <= Len(taken[m][b])
  <2>1. Addressed(setup, m, b) = {}
    BY <1>2, ConversationAssumption DEF KernelTypes
  <2>2. Cardinality(Addressed(setup, m, b)) = 0
    BY <2>1, FS_EmptySet
  <2>3. Len(taken[m][b]) \in Nat
    <3> HIDE DEF Packet
    <3> QED BY DEF MailTypes
  <2> QED BY <2>2, <2>3
<1> QED BY <1>3 DEF ReadAll

(* Who still has to send finds the receiver up.                             *)
LEMMA ReceiverIsUp ==
  ASSUME KernelTypes, MailTypes, NEW m \in Machine, ThreadsInv(m), ReadInv(m),
         \A x \in Machine : OrderInv(x) /\ CountInv(x) /\ EndInv(x),
         NEW t \in Thread, Post(m, t)
  PROVE  setup.file \/ life[Target(m, t)] = "up"
<1>1. PICK to \in Machine : to = Target(m, t)
  BY SenderIs
<1>2. PICK b \in Box : b = Call(m, t).box
  BY SenderIs
<1>3. PICK a : a \in Addressed(setup, to, b) /\ a \notin Sent(to, b)
  BY <1>1, <1>2, SenderIs
<1>4. Cardinality(Sent(to, b)) < Cardinality(Addressed(setup, to, b))
  <2>1. /\ IsFiniteSet(Addressed(setup, to, b)) /\ Cardinality(Addressed(setup, to, b)) \in Nat
        /\ Cardinality(Sent(to, b)) \in Nat
        /\ Cardinality(Sent(to, b)) <= Cardinality(Addressed(setup, to, b))
    BY AddressedIs
  <2>2. Sent(to, b) \in SUBSET Addressed(setup, to, b)
    BY DEF Sent
  <2>3. Cardinality(Addressed(setup, to, b)) # Cardinality(Sent(to, b))
    BY <1>3, <2>1, <2>2, FS_Subset
  <2> QED BY <2>1, <2>3
<1>5. /\ Len(taken[to][b]) \in Nat
      /\ Len(taken[to][b]) <= Cardinality(Mails(Way(to, b), b))
  BY TakenAreMails
<1>6. Cardinality(Mails(Way(to, b), b)) <= Cardinality(Sent(to, b))
  BY DEF CountInv
<1>7. /\ Cardinality(Mails(Way(to, b), b)) \in Nat /\ Cardinality(Sent(to, b)) \in Nat
      /\ Cardinality(Addressed(setup, to, b)) \in Nat
  BY MailsAre, WayIs, AddressedIs
<1>8. ~(Cardinality(Addressed(setup, to, b)) <= Len(taken[to][b]))
  BY <1>4, <1>5, <1>6, <1>7
<1>9. life[to] # "halted"
  BY <1>8 DEF EndInv
<1>10. setup.file \/ life[to] # "aborted"
  BY DEF EndInv
<1>11. life[to] \in {"up", "halted", "aborted"}
  BY DEF KernelTypes
<1> QED BY <1>1, <1>9, <1>10, <1>11

LEMMA EndStep ==
  ASSUME KernelTypes, MailTypes, ConsoleTypes, NEW m \in Machine,
         ThreadsInv(m), ReadInv(m), CardInv(m), EchoInv(m), KeysInv(m),
         \A x \in Machine : OrderInv(x) /\ CountInv(x) /\ EndInv(x), Steps(m)
  PROVE  /\ life' \in [Machine -> {"up", "halted", "aborted"}]
         /\ \A x \in Machine : EndInv(x)'
<1>1. setup' = setup /\ CalmOf(m)
  BY ThreadsStep, CalmStep
<1>2. ASSUME NEW x \in Machine, "recv" \in setup.devices[x]
      PROVE  ~None(pending'[x], "recv")
  <2>1. ~None(pending[x], "recv")
    BY <1>2 DEF EndInv
  <2> QED BY <1>1, <2>1 DEF CalmOf, PendingTyped
<1>3. \A x \in Machine : ReadAll(x) => ReadAll(x)'
  BY <1>1, TakenGrows, ReadAllStays
<1>4. \/ life' = life
      \/ Stops(m, "halted") /\ ReadAll(m)
      \/ Stops(m, "aborted") /\ setup.file
  <2>1. ASSUME NEW t \in Thread, Post(m, t), life[Target(m, t)] # "up" PROVE setup.file
    BY <2>1, ReceiverIsUp
  <2>2. ASSUME NEW t \in Thread, HaltCalled(m, t) PROVE ReadAll(m)
    BY <2>2, HaltReads
  <2>3. ASSUME pending[m] = <<>> \/ OnlyTimer(pending[m]) PROVE ReadAll(m)
    BY <2>3, IdleReads
  <2> QED BY <2>1, <2>2, <2>3, LifeStep
<1>5. /\ life' \in [Machine -> {"up", "halted", "aborted"}]
      /\ \A x \in Machine : x # m => life'[x] = life[x]
      /\ Stops(m, "halted") => life'[m] = "halted"
      /\ Stops(m, "aborted") => life'[m] = "aborted"
  BY <1>4, LifeIs
<1>6. ASSUME NEW x \in Machine, life'[x] = "halted" PROVE ReadAll(x)'
  <2>1. ReadAll(x)
    BY <1>4, <1>5, <1>6 DEF EndInv, ReadAll
  <2> QED BY <1>3, <2>1
<1>7. ASSUME NEW x \in Machine PROVE setup.file \/ life'[x] # "aborted"
  BY <1>4, <1>5 DEF EndInv
<1>8. \A x \in Machine : EndInv(x)'
  BY <1>1, <1>2, <1>6, <1>7 DEF EndInv, ReadAll
<1> QED BY <1>5, <1>8

-----------------------------------------------------------------------------
(* The whole invariant.                                                     *)

(* A step of another machine leaves a machine alone, but for the datagrams  *)
(* in its socket.                                                           *)
Untouched(x) ==
  /\ ready'[x] = ready[x] /\ pc'[x] = pc[x] /\ sleeps'[x] = sleeps[x]
  /\ pending'[x] = pending[x] /\ count'[x] = count[x]
  /\ holder'[x] = holder[x] /\ inbox'[x] = inbox[x] /\ hold'[x] = hold[x]
  /\ taken'[x] = taken[x]
  /\ incoming'[x] = incoming[x] /\ putBusy'[x] = putBusy[x]
  /\ keys'[x] = keys[x] /\ shown'[x] = shown[x]

LocalInv(x) ==
  /\ ThreadsInv(x) /\ ReadInv(x) /\ CardInv(x) /\ SendInv(x) /\ EchoInv(x) /\ KeysInv(x)

LEMMA LocalStays ==
  ASSUME setup' = setup, NEW x \in Machine, Untouched(x), LocalInv(x)
  PROVE  LocalInv(x)'
<1>1. \A t : /\ Program(x, t)' = Program(x, t)
             /\ Made(x, t)' <=> Made(x, t)
  BY ProgramStays
<1>2. \A t : /\ pc'[x][t] = pc[x][t]
             /\ Call(x, t)' = Call(x, t)
             /\ Sends(x, t)' <=> Sends(x, t)
  BY CallStays DEF Untouched
<1>3. ThreadsInv(x)'
  <2>1. Queues(x)'
    BY <1>1 DEF LocalInv, ThreadsInv, Queues, Untouched, Awake
  <2>2. Positions(x)'
    BY <1>1, <1>2 DEF LocalInv, ThreadsInv, Positions, PlacesOf
  <2> QED BY <2>1, <2>2 DEF ThreadsInv
<1>4. ReadInv(x)'
  <2>1. \A t, b : Reads(x, t, b)' = Reads(x, t, b)
    BY <1>2, ReadsStay
  <2> QED BY <2>1 DEF LocalInv, ReadInv, Untouched
<1>5. CardInv(x)'
  BY DEF LocalInv, CardInv, Untouched
<1>6. SendInv(x)'
  <2>1. \A t : Sending(x, t)' <=> Sending(x, t)
    BY <1>1, <1>2 DEF Sending
  <2>2. /\ Awaited(x, "sent", "messageSent")' <=> Awaited(x, "sent", "messageSent")
        /\ Quiet(x, "sent", "messageSent")' <=> Quiet(x, "sent", "messageSent")
    BY DEF Awaited, Quiet, None, One, Untouched
  <2>3. (\E t \in holder[x] : pc[x][t].at = "wait")' <=> (\E t \in holder[x] : pc[x][t].at = "wait")
    BY DEF Untouched
  <2>4. /\ \A t \in Thread : t \in holder'[x] <=> Sending(x, t)'
        /\ \A t, u \in holder'[x] : t = u
    BY <2>1 DEF LocalInv, SendInv, Untouched
  <2> QED BY <2>2, <2>3, <2>4 DEF LocalInv, SendInv
<1>7. EchoInv(x)'
  <2>1. \A t : Echoes(x, t)' <=> Echoes(x, t)
    BY <1>1, <1>2 DEF Echoes
  <2>2. /\ Awaited(x, "write", "writeDone")' <=> Awaited(x, "write", "writeDone")
        /\ Quiet(x, "write", "writeDone")' <=> Quiet(x, "write", "writeDone")
    BY DEF Awaited, Quiet, None, One, Untouched
  <2>3. (\E t \in Thread : Echoes(x, t) /\ pc[x][t].at = "write")'
          <=> (\E t \in Thread : Echoes(x, t) /\ pc[x][t].at = "write")
    BY <1>2, <2>1
  <2>4. putBusy'[x] => ~None(pending'[x], "write")
    BY DEF LocalInv, EchoInv, Untouched
  <2> QED BY <2>2, <2>3, <2>4 DEF LocalInv, EchoInv
<1>8. KeysInv(x)'
  BY DEF LocalInv, KeysInv, Untouched
<1> QED BY <1>3, <1>4, <1>5, <1>6, <1>7, <1>8 DEF LocalInv

LEMMA InvIs ==
  PostInv <=> /\ KernelTypes /\ MailTypes /\ ConsoleTypes
              /\ \A x \in Machine : LocalInv(x) /\ OrderInv(x) /\ CountInv(x) /\ EndInv(x)
BY DEF PostInv, TypesInv, MachineInv, LocalInv

LEMMA PostStep == PostInv /\ Next => PostInv'
<1> SUFFICES ASSUME PostInv, NEW m \in Machine, Steps(m) PROVE PostInv'
  BY DEF Next
<1>1. /\ KernelTypes /\ MailTypes /\ ConsoleTypes
      /\ \A x \in Machine : LocalInv(x) /\ OrderInv(x) /\ CountInv(x) /\ EndInv(x)
  BY InvIs
<1>2. ThreadsInv(m) /\ ReadInv(m) /\ CardInv(m) /\ SendInv(m) /\ EchoInv(m) /\ KeysInv(m)
  BY <1>1 DEF LocalInv
<1>3. setup' = setup /\ QueuesKept(m) /\ PositionsKept(m)
  BY <1>1, <1>2, ThreadsStep
<1>4. MailKept(m)
  BY <1>1, <1>2, MailStep
<1>5. ConsoleKept(m) /\ KeysInv(m)'
  BY <1>1, <1>2, KeysStep
<1>6. CalmOf(m)
  BY <1>1, CalmStep
<1>7. /\ life' \in [Machine -> {"up", "halted", "aborted"}]
      /\ \A x \in Machine : EndInv(x)'
  BY <1>1, <1>2, EndStep
<1>8. KernelTypes' /\ MailTypes' /\ ConsoleTypes'
  BY <1>1, <1>3, <1>4, <1>5, <1>6, <1>7
     DEF KernelTypes, QueuesKept, PositionsKept, MailKept, ConsoleKept, CalmOf, PendingTyped,
         CountKept
<1>9. \A x \in Machine : OrderInv(x)' /\ CountInv(x)'
  BY <1>1, <1>2, OrderStep, CountStep
<1>10. LocalInv(m)'
  <2>1. ThreadsInv(m)'
    BY <1>3 DEF QueuesKept, PositionsKept, ThreadsInv
  <2>2. ReadInv(m)' /\ CardInv(m)' /\ SendInv(m)' /\ EchoInv(m)'
    BY <1>1, <1>2, ReadStep, CardStep, SendStep, EchoStep
  <2> QED BY <1>5, <2>1, <2>2 DEF LocalInv
<1>11. ASSUME NEW x \in Machine, x # m PROVE LocalInv(x)'
  <2>1. Untouched(x)
    BY <1>3, <1>4, <1>5, <1>6, <1>11
       DEF QueuesKept, PositionsKept, MailKept, ConsoleKept, CalmOf, PendingTyped, CountKept,
           Untouched
  <2> QED BY <1>1, <1>3, <2>1, LocalStays
<1>12. \A x \in Machine : LocalInv(x)'
  BY <1>10, <1>11
<1> QED BY <1>7, <1>8, <1>9, <1>12 DEF PostInv, TypesInv, MachineInv, LocalInv

LEMMA PostStutters == PostInv /\ UNCHANGED vars => PostInv'
<1> SUFFICES ASSUME PostInv, UNCHANGED vars PROVE PostInv'
  OBVIOUS
<1>1. /\ KernelTypes /\ MailTypes /\ ConsoleTypes
      /\ \A x \in Machine : LocalInv(x) /\ OrderInv(x) /\ CountInv(x) /\ EndInv(x)
  BY InvIs
<1>2. setup' = setup /\ pc' = pc /\ life' = life /\ pending' = pending /\ taken' = taken
      /\ posted' = posted
  BY DEF vars, netVars, thrVars
<1>3. KernelTypes' /\ MailTypes' /\ ConsoleTypes'
  BY <1>1 DEF KernelTypes, MailTypes, ConsoleTypes, vars, netVars, thrVars, conVars
<1>4. ASSUME NEW x \in Machine PROVE LocalInv(x)'
  BY <1>1, <1>2, LocalStays DEF Untouched, vars, netVars, thrVars, conVars
<1>5. \A x \in Machine, b \in Box : Way(x, b)' = Way(x, b)
  BY DEF Way, vars, netVars
<1>6. ASSUME NEW x \in Machine PROVE OrderInv(x)'
  <2>1. Routed(x)'
    BY <1>1, <1>5 DEF OrderInv, Routed
  <2>2. Boxed(x)'
    BY <1>1 DEF OrderInv, Boxed, vars, netVars
  <2>3. \A s \in Machine, b \in Box :
          /\ InOrder(Way(x, b)', s, x, b, posted'[s][x][b])
          /\ setup'.reliable => Whole(Way(x, b)', s, x, b, posted'[s][x][b])
    BY <1>1, <1>2, <1>5 DEF OrderInv
  <2> QED BY <2>1, <2>2, <2>3 DEF OrderInv
<1>7. ASSUME NEW x \in Machine PROVE CountInv(x)'
  <2>1. \A b \in Box : Sent(x, b)' = Sent(x, b)
    BY <1>2 DEF Sent, HasSent, Addressed, CallNumber
  <2> QED BY <1>1, <1>5, <2>1 DEF CountInv
<1>8. ASSUME NEW x \in Machine PROVE EndInv(x)'
  BY <1>1, <1>2, AddressedStays DEF EndInv
<1> QED BY <1>3, <1>4, <1>6, <1>7, <1>8 DEF PostInv, TypesInv, MachineInv, LocalInv

-----------------------------------------------------------------------------
(* A machine that starts.                                                   *)

Fresh(s) == s \in Seq(Interrupts) /\ None(s, "sent") /\ None(s, "write")

LEMMA FreshIs ==
  ASSUME NEW s, Fresh(s), NEW kind \in {"timer", "recv", "read"}, NEW d \in Int
  PROVE  /\ Fresh(Schedule(s, kind, d)) /\ ~None(Schedule(s, kind, d), kind)
         /\ kind = "read" /\ ~None(s, "recv") => ~None(Schedule(s, kind, d), "recv")
<1>1. s \in Seq(Interrupts) /\ kind \in Kind
  BY DEF Fresh, Kind
<1>2. /\ Schedule(s, kind, d) \in Seq(Interrupts) /\ ~None(Schedule(s, kind, d), kind)
      /\ \A other \in Kind \ {kind} : None(Schedule(s, kind, d), other) <=> None(s, other)
  BY <1>1, ScheduleIs
<1>3. "sent" \in Kind \ {kind} /\ "write" \in Kind \ {kind}
      /\ (kind = "read" => "recv" \in Kind \ {kind})
  BY DEF Kind
<1> QED BY <1>2, <1>3 DEF Fresh

LEMMA DevicesIs ==
  ASSUME NEW kinds, NEW random \in TimerDelay
  PROVE  /\ Fresh(Devices(kinds, random))
         /\ "recv" \in kinds => ~None(Devices(kinds, random), "recv")
<1>1. random \in Int /\ NetworkTime \in Int /\ ConsoleTime \in Int
  BY TimesAssumption
<1>2. Fresh(<<>>)
  BY DEF Fresh, None
<1> DEFINE timer == IF "timer" \in kinds THEN TimerStart(<<>>, random) ELSE <<>>
           card == IF "recv" \in kinds THEN NetworkPoll(timer) ELSE timer
<1>3. Fresh(timer)
  BY <1>1, <1>2, FreshIs DEF TimerStart
<1> HIDE DEF timer
<1>4. Fresh(card) /\ ("recv" \in kinds => ~None(card, "recv"))
  BY <1>1, <1>3, FreshIs DEF NetworkPoll
<1>5. Devices(kinds, random) = IF "read" \in kinds THEN ConsolePoll(card) ELSE card
  BY DEF Devices, timer
<1> HIDE DEF card
<1>6. /\ Fresh(ConsolePoll(card))
      /\ ~None(card, "recv") => ~None(ConsolePoll(card), "recv")
  BY <1>1, <1>4, FreshIs DEF ConsolePoll
<1> QED BY <1>4, <1>5, <1>6

LEMMA InitThreads ==
  ASSUME Init
  PROVE  /\ ready \in [Machine -> Seq(Thread)] /\ \A m \in Machine : ThreadsInv(m)
<1>1. ASSUME NEW m \in Machine
      PROVE  ready[m] \in Seq(Thread) /\ \A i \in DOMAIN ready[m] : Made(m, ready[m][i])
  <2>1. ready[m] = <<"main">>
                \o (IF "recv" \in setup.devices[m] THEN <<"postal">> ELSE <<>>)
                \o (IF setup.code[m]["aux"] # <<>> THEN <<"aux">> ELSE <<>>)
    BY DEF Init
  <2>2. Made(m, "main") /\ Made(m, "postal")
    BY ProgramAssumption, PostalIs DEF Init, Made, Program
  <2>3. setup.code[m]["aux"] # <<>> => Made(m, "aux")
    BY DEF Made, Program
  <2> DEFINE Ok(s) == s \in Seq(Thread) /\ \A i \in DOMAIN s : Made(m, s[i])
  <2>4. ASSUME NEW s, Ok(s), NEW t \in Thread, Made(m, t) PROVE Ok(s \o <<t>>)
    <3>1. s \o <<t>> = Append(s, t)
      BY <2>4
    <3>2. Ok(Append(s, t))
      BY <2>4
    <3> HIDE DEF Ok
    <3> QED BY <3>1, <3>2
  <2>5. ASSUME NEW s, Ok(s) PROVE Ok(s \o <<>>)
    <3>1. s \o <<>> = s
      BY <2>5
    <3> HIDE DEF Ok
    <3> QED BY <2>5, <3>1
  <2>6. Ok(<<"main">>)
    BY <2>2 DEF Thread
  <2>7. "postal" \in Thread /\ "aux" \in Thread
    BY DEF Thread
  <2> HIDE DEF Ok
  <2>8. Ok(<<"main">> \o (IF "recv" \in setup.devices[m] THEN <<"postal">> ELSE <<>>))
    BY <2>2, <2>4, <2>5, <2>6, <2>7
  <2>9. Ok(ready[m])
    BY <2>1, <2>3, <2>4, <2>5, <2>7, <2>8
  <2> QED BY <2>9 DEF Ok
<1>2. ASSUME NEW m \in Machine PROVE Queues(m)
  <2>1. \A t \in Thread : sleeps[m][t] = Awake
    BY DEF Init
  <2> QED BY <1>1, <2>1 DEF Queues
<1>3. ASSUME NEW m \in Machine PROVE Positions(m)
  <2>1. \A t \in Thread : pc[m][t] = [call |-> 1, at |-> "start"]
    BY DEF Init
  <2>2. \A t \in Thread : Made(m, t) => 1 \in DOMAIN Program(m, t)
    <3>1. 1 \in DOMAIN Program(m, "postal")
      BY PostalIs
    <3>2. ASSUME NEW t \in User, Made(m, t) PROVE 1 \in DOMAIN Program(m, t)
      <4>1. Program(m, t) \in Seq(Calls) /\ Program(m, t) # <<>>
        BY <3>2, ThreadIs, ProgramAssumption DEF Init, Program, Made
      <4> HIDE DEF Calls
      <4> QED BY <4>1
    <3> QED BY <3>1, <3>2, ThreadIs
  <2>3. \A op : "start" \in PlacesOf(op)
    BY DEF PlacesOf
  <2> QED BY <2>1, <2>2, <2>3 DEF Positions
<1>4. ready \in [Machine -> Seq(Thread)]
  BY <1>1 DEF Init
<1> QED BY <1>2, <1>3, <1>4 DEF ThreadsInv

LEMMA InitTypes ==
  ASSUME Init
  PROVE  KernelTypes /\ MailTypes /\ ConsoleTypes
<1>1. KernelTypes
  <2>1. \A random \in [Machine -> TimerDelay], m \in Machine :
          Devices(setup.devices[m], random[m]) \in Seq(Interrupts)
    BY DevicesIs DEF Fresh
  <2>2. pending \in [Machine -> Seq(Interrupts)]
    BY <2>1 DEF Init, TimeOfNextInterrupt
  <2>3. ready \in [Machine -> Seq(Thread)]
    BY InitThreads
  <2>4. pc \in [Machine -> [Thread -> [call : Nat \ {0}, at : Place]]]
    BY DEF Init, Place
  <2>5. sleeps \in [Machine -> [Thread -> Wish]]
    BY WishIs DEF Init
  <2>6. /\ count \in [Machine -> [Event -> Nat]]
        /\ life \in [Machine -> {"up", "halted", "aborted"}]
    BY DEF Init
  <2>7. setup \in Setups
    BY DEF Init
  <2> QED BY <2>2, <2>3, <2>4, <2>5, <2>6, <2>7 DEF KernelTypes
<1>2. MailTypes
  <2> HIDE DEF Packet
  <2>1. holder \in [Machine -> SUBSET Thread]
    BY DEF Init, PostOfficeInit
  <2>2. <<>> \in Seq(Packet)
    OBVIOUS
  <2>3. /\ inbox \in [Machine -> Seq(Packet)] /\ wire \in [Machine -> Seq(Packet)]
        /\ hold \in [Machine -> Seq(Packet)]
    BY <2>2 DEF Init, PostOfficeInit, NetworkInit, AssignNameToSocket
  <2>4. /\ boxes \in [Machine -> [Box -> Seq(Packet)]]
        /\ taken \in [Machine -> [Box -> Seq(Packet)]]
    BY <2>2 DEF Init, PostOfficeInit
  <2>5. posted \in [Machine -> [Machine -> [Box -> Nat]]]
    BY DEF Init, PostOfficeInit
  <2> QED BY <2>1, <2>3, <2>4, <2>5 DEF MailTypes
<1>3. ConsoleTypes
  BY ProgramAssumption DEF Init, ConsoleInit, ConsoleTypes
<1> QED BY <1>1, <1>2, <1>3

LEMMA PostBegins == Init => PostInv
<1> SUFFICES ASSUME Init PROVE PostInv
  OBVIOUS
<1>1. /\ KernelTypes /\ MailTypes /\ ConsoleTypes /\ \A m \in Machine : ThreadsInv(m)
  BY InitTypes, InitThreads
<1>2. ASSUME NEW m \in Machine
      PROVE  /\ Fresh(pending[m])
             /\ "recv" \in setup.devices[m] => ~None(pending[m], "recv")
  <2>1. PICK random \in [Machine -> TimerDelay] :
               pending = [x \in Machine |-> Devices(setup.devices[x], random[x])]
    BY DEF Init, TimeOfNextInterrupt
  <2>2. pending[m] = Devices(setup.devices[m], random[m]) /\ random[m] \in TimerDelay
    BY <2>1
  <2> QED BY <2>2, DevicesIs
<1>3. ASSUME NEW m \in Machine
      PROVE  /\ \A t \in Thread : pc[m][t].call = 1 /\ pc[m][t].at = "start"
             /\ \A e \in Event : count[m][e] = 0
             /\ life[m] = "up" /\ holder[m] = {}
             /\ inbox[m] = <<>> /\ hold[m] = <<>> /\ wire[m] = <<>>
             /\ \A b \in Box : boxes[m][b] = <<>> /\ taken[m][b] = <<>>
             /\ \A s \in Machine, b \in Box : posted[s][m][b] = 0
             /\ incoming[m] = <<>> /\ putBusy[m] = FALSE /\ keys[m] = setup.keys[m]
             /\ shown[m] = <<>>
  <2>1. \A t \in Thread : pc[m][t] = [call |-> 1, at |-> "start"]
    BY DEF Init
  <2>2. \A t \in Thread : pc[m][t].call = 1 /\ pc[m][t].at = "start"
    BY <2>1
  <2> QED BY <2>2 DEF Init, PostOfficeInit, NetworkInit, AssignNameToSocket, ConsoleInit
<1>4. ASSUME NEW m \in Machine PROVE LocalInv(m)
  <2>1. ReadInv(m)
    <3>1. ASSUME NEW t \in User, NEW b \in Box
          PROVE  Cardinality(Reads(m, t, b)) = 0 /\ Len(taken[m][b]) = 0
      <4>1. Reads(m, t, b) = {}
        <5>1. t \in Thread
          BY ThreadIs
        <5>2. pc[m][t].call - 1 = 0
          <6>1. pc[m][t].call = 1
            BY <1>3, <5>1, Zenon
          <6> QED BY <6>1
        <5>3. ReadsOf(Program(m, t), 0, b) = {}
          BY DEF ReadsOf
        <5> QED BY <5>2, <5>3 DEF Reads
      <4>2. Cardinality(Reads(m, t, b)) = 0
        BY <4>1, FS_EmptySet
      <4>3. taken[m][b] = <<>>
        BY <1>3
      <4> QED BY <4>2, <4>3
    <3> QED BY <3>1 DEF ReadInv
  <2>2. CardInv(m)
    <3>1. pc[m]["postal"].at = "start" /\ count[m]["messageAvailable"] = 0
      BY <1>3 DEF Thread, Event
    <3>2. inbox[m] = <<>> /\ hold[m] = <<>>
      BY <1>3
    <3> QED BY <3>1, <3>2 DEF CardInv
  <2>3. SendInv(m)
    BY <1>2, <1>3 DEF SendInv, Sending, Quiet, Fresh, Event
  <2>4. EchoInv(m)
    BY <1>2, <1>3 DEF EchoInv, Quiet, Fresh, Event
  <2>5. KeysInv(m)
    <3>1. PICK k \in Seq(Char) : k = setup.keys[m]
      BY ProgramAssumption DEF Init
    <3>2. <<>> \o <<>> \o k = k
      OBVIOUS
    <3> QED BY <1>3, <3>1, <3>2 DEF KeysInv
  <2> QED BY <1>1, <2>1, <2>2, <2>3, <2>4, <2>5 DEF LocalInv
<1>5. ASSUME NEW m \in Machine, NEW b \in Box PROVE Way(m, b) = <<>>
  <2>1. <<>> \o <<>> \o <<>> \o <<>> \o <<>> = <<>>
    OBVIOUS
  <2> QED BY <1>3, <2>1 DEF Way
<1>6. ASSUME NEW m \in Machine PROVE OrderInv(m)
  <2>1. Routed(m)
    BY <1>5 DEF Routed
  <2>2. Boxed(m)
    <3>1. \A b \in Box : boxes[m][b] = <<>> /\ taken[m][b] = <<>>
      BY <1>3
    <3> QED BY <3>1 DEF Boxed
  <2>3. ASSUME NEW s \in Machine, NEW b \in Box
        PROVE  /\ InOrder(<<>>, s, m, b, 0)
               /\ Whole(<<>>, s, m, b, 0)
    BY DEF InOrder, Whole
  <2>4. \A s \in Machine, b \in Box : posted[s][m][b] = 0
    BY <1>3
  <2> QED BY <1>5, <2>1, <2>2, <2>3, <2>4 DEF OrderInv
<1>7. ASSUME NEW m \in Machine PROVE CountInv(m)
  <2>1. ASSUME NEW b \in Box
        PROVE  Cardinality(Mails(Way(m, b), b)) <= Cardinality(Sent(m, b))
    <3>1. Mails(Way(m, b), b) = {}
      BY <1>5 DEF Mails
    <3>2. Cardinality(Mails(Way(m, b), b)) = 0
      BY <3>1, FS_EmptySet
    <3>3. Cardinality(Sent(m, b)) \in Nat
      BY <1>1, AddressedIs
    <3> QED BY <3>2, <3>3
  <2> QED BY <2>1 DEF CountInv
<1>8. ASSUME NEW m \in Machine PROVE EndInv(m)
  BY <1>2, <1>3 DEF EndInv
<1> QED BY <1>1, <1>4, <1>6, <1>7, <1>8, InvIs

-----------------------------------------------------------------------------
(* What follows from it.                                                    *)

LEMMA PostAlways == Spec => []PostInv
<1>1. PostInv /\ [Next]_vars => PostInv'
  BY PostStep, PostStutters
<1> QED BY PostBegins, <1>1, PTL DEF Spec

LEMMA AtMostOne ==
  ASSUME KernelTypes, MailTypes, NEW m \in Machine, SendInv(m)
  PROVE  Cardinality({i \in DOMAIN pending[m] : pending[m][i].kind = "sent"})
           + count[m]["messageSent"] <= 1
<1> DEFINE S == {i \in DOMAIN pending[m] : pending[m][i].kind = "sent"}
           n == count[m]["messageSent"]
<1>1. Awaited(m, "sent", "messageSent") \/ Quiet(m, "sent", "messageSent")
  BY DEF SendInv
<1>2. CASE None(pending[m], "sent") /\ n \in {0, 1}
  <2>1. S = {}
    BY <1>2 DEF None
  <2>2. Cardinality(S) = 0
    BY <2>1, FS_EmptySet
  <2> QED BY <1>2, <2>2
<1>3. CASE One(pending[m], "sent") /\ n = 0
  <2>1. PICK i : S = {i}
    BY <1>3 DEF One
  <2>2. Cardinality(S) = 1
    BY <2>1, FS_Singleton
  <2> QED BY <1>3, <2>2
<1> QED BY <1>1, <1>2, <1>3 DEF Awaited, Quiet

(* Mail reaches its box in the order it was sent, no packet twice, and on a *)
(* reliable network every one; the card of network.cc:69 holds a packet     *)
(* exactly as long as the postal worker is to fetch it, and one packet at   *)
(* most is on its way out of it (network.cc:107, post.cc:242).              *)
THEOREM MailAlways == Spec => []MailInOrder
<1>1. PostInv => MailInOrder
  <2> SUFFICES ASSUME PostInv, NEW m \in Machine
               PROVE  MailInOrder!(m)
    BY DEF MailInOrder
  <2>1. /\ KernelTypes /\ MailTypes /\ CardInv(m) /\ SendInv(m) /\ OrderInv(m)
    BY InvIs DEF LocalInv
  <2>2. ASSUME NEW s \in Machine, NEW b \in Box
        PROVE  /\ \A i \in From(s, m, b) :
                    Way(m, b)[i] \in Packet /\ Way(m, b)[i].n <= posted[s][m][b]
               /\ \A i, j \in From(s, m, b) : i < j => Way(m, b)[i].n < Way(m, b)[j].n
               /\ setup.reliable =>
                    \A n \in 1..posted[s][m][b] :
                      \E i \in From(s, m, b) : Way(m, b)[i].n = n
    <3>1. PICK way \in Seq(Packet) : way = Way(m, b)
      BY <2>1, WayIs
    <3>2. \A i : i \in From(s, m, b) <=> i \in DOMAIN way /\ IsFrom(way[i], s, m, b)
      BY <3>1 DEF From, IsFrom
    <3>3. /\ InOrder(way, s, m, b, posted[s][m][b])
          /\ setup.reliable => Whole(way, s, m, b, posted[s][m][b])
      BY <2>1, <3>1 DEF OrderInv
    <3>4. \A i \in DOMAIN way : way[i] \in Packet
      <4> HIDE DEF Packet
      <4> QED OBVIOUS
    <3>5. \A i \in From(s, m, b) : way[i] \in Packet /\ way[i].n <= posted[s][m][b]
      BY <3>2, <3>3, <3>4 DEF InOrder
    <3>6. \A i, j \in From(s, m, b) : i < j => way[i].n < way[j].n
      BY <3>2, <3>3 DEF InOrder
    <3>7. setup.reliable =>
            \A n \in 1..posted[s][m][b] : \E i \in From(s, m, b) : way[i].n = n
      BY <3>2, <3>3 DEF Whole
    <3> QED BY <3>1, <3>5, <3>6, <3>7
  <2>3. Len(inbox[m]) = count[m]["messageAvailable"]
                        + (IF pc[m]["postal"].at = "take" THEN 1 ELSE 0)
    BY <2>1 DEF CardInv
  <2>4. Cardinality({i \in DOMAIN pending[m] : pending[m][i].kind = "sent"})
          + count[m]["messageSent"] <= 1
    BY <2>1, AtMostOne
  <2> QED BY <2>2, <2>3, <2>4
<1> QED BY PostAlways, <1>1, PTL

(* What was typed is what the display shows, what the console holds and     *)
(* what the keyboard still has; and no ASSERT stops a machine: PutChar      *)
(* finds the display free (console.cc:147) and a sender a receiver that is  *)
(* up (sysdep.cc:350), since nobody halts with mail outstanding.            *)
THEOREM DevicesAlways == Spec => []DevicesServe
<1>1. PostInv => DevicesServe
  BY InvIs DEF LocalInv, KeysInv, EndInv, DevicesServe
<1> QED BY PostAlways, <1>1, PTL
=============================================================================
