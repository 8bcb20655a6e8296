--------------------------- MODULE MCNachosPost ---------------------------
(* Small setups of NachosPost: the test of the mail with a reliable and an  *)
(* unreliable network, two threads that send to one machine, the echo of a  *)
(* console from a terminal and from a file beside a machine with nothing    *)
(* but its timer.                                                           *)
EXTENDS NachosPost

CONSTANTS m1, m2

Nothing == [m \in Machine |-> <<>>]

(* Long enough without a yield for the card to be polled twice.              *)
Busy(m, n) == [i \in 1..n |-> Compute(m)] \o <<Finish(m)>>

Cards == [m \in Machine |-> {"recv"}]

MailSetup(isReliable) ==
  [code |-> [m \in Machine |->
               [main |-> MailTest(m, CHOOSE f \in Machine : f # m), aux |-> <<>>]],
   devices |-> Cards, reliable |-> isReliable, keys |-> Nothing, file |-> FALSE]

CrowdSetup ==
  [code |-> [m \in Machine |->
     IF m = m1 THEN [main |-> <<Send(m2, 0), Send(m2, 0), Finish(m1)>>,
                     aux  |-> <<Send(m2, 0), Send(m2, 1), Finish(m1)>>]
     ELSE [main |-> <<Receive(m2, 0), Receive(m2, 0), Receive(m2, 0),
                      Receive(m2, 1), Halt(m2)>>,
           aux  |-> Busy(m2, 7)]],
   devices |-> [m \in Machine |-> IF m = m1 THEN {"timer", "recv"} ELSE {"recv"}],
   reliable |-> TRUE, keys |-> Nothing, file |-> FALSE]

(* main.cc starts the echo, and halts the machine when it is over.          *)
ConsoleSetup(typed, isFile) ==
  [code |-> [m \in Machine |->
     IF m = m1 THEN [main |-> <<Echo(m1), Halt(m1)>>, aux |-> <<>>]
     ELSE [main |-> <<Finish(m2)>>, aux |-> <<Finish(m2)>>]],
   devices |-> [m \in Machine |-> IF m = m1 THEN {"timer", "read"} ELSE {"timer"}],
   reliable |-> TRUE,
   keys |-> [m \in Machine |-> IF m = m1 THEN typed ELSE <<>>], file |-> isFile]

MCSetups == {MailSetup(TRUE), MailSetup(FALSE), CrowdSetup,
             ConsoleSetup(<<"a", "b", "q", "c">>, FALSE),
             ConsoleSetup(<<"a", "q">>, TRUE)}

(* A delay shorter and one longer than that of the devices; the code draws  *)
(* from 1 .. 2 * TimerTicks.                                                *)
MCTimerDelay == {1, 4}

-----------------------------------------------------------------------------
(* The lists of NachOS against the sequences that stand for them.           *)

L == INSTANCE NachosList

Entry(n, key) == [item |-> n, key |-> key]

(* The n-th of a number of operations, on the list and on the sequence.     *)
OnList(l, n, o) ==
  CASE o = "append" -> L!Append_(l, n)
    [] o = "prepend" -> L!Prepend(l, n)
    [] o = "remove" -> L!Remove(l)
    [] o = "insert1" -> L!SortedInsert(l, n, 1)
    [] o = "insert2" -> L!SortedInsert(l, n, 2)

(* A key goes in front of the first larger one behind the first element.    *)
Inserted(s, e) ==
  LET larger == {i \in DOMAIN s : s[i].key > e.key}
      k == IF larger = {} THEN Len(s) ELSE Min(larger) - 1
  IN SubSeq(s, 1, k) \o <<e>> \o SubSeq(s, k + 1, Len(s))

OnSequence(s, n, o) ==
  CASE o = "append" -> Append(s, Entry(n, 0))
    [] o = "prepend" -> <<Entry(n, 0)>> \o s
    [] o = "remove" -> IF s = <<>> THEN s ELSE Tail(s)
    [] o = "insert1" -> Inserted(s, Entry(n, 1))
    [] o = "insert2" -> Inserted(s, Entry(n, 2))

Operation == {"append", "prepend", "remove", "insert1", "insert2"}

(* After any five operations the list holds what the sequence does, in this  *)
(* order, and no element that was not deleted is out of its reach; first    *)
(* and last are null together (threads/list.h).                             *)
ASSUME ListsAreSequences ==
  \A ops \in [1..5 -> Operation] :
    LET l == FoldLeftDomain(LAMBDA x, n : OnList(x, n, ops[n]), L!List, ops)
        s == FoldLeftDomain(LAMBDA x, n : OnSequence(x, n, ops[n]), <<>>, ops)
    IN /\ L!Apply(l) = s
       /\ Cardinality(DOMAIN l.heap) = Len(s)
       /\ (l.first = L!NULL) <=> (l.last = L!NULL)
       /\ s # <<>> => l.heap[l.last].next = L!NULL
       /\ L!Destroyed(l).first = L!NULL
       /\ DOMAIN L!Destroyed(l).heap = {}

(* The interrupts, as NachosPost inserts them, are such a list.             *)
ASSUME InterruptsAreAList ==
  \A due \in [1..4 -> 1..3] :
    L!Apply(FoldLeftDomain(LAMBDA x, n : L!SortedInsert(x, n, due[n]), L!List, due))
      = LET s == FoldLeftDomain(LAMBDA x, n : SortedInsert(x, [item |-> n, due |-> due[n]]),
                                <<>>, due)
        IN [i \in DOMAIN s |-> Entry(s[i].item, s[i].due)]
=============================================================================
