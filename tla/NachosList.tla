----------------------------- MODULE NachosList -----------------------------
(***************************************************************************)
(* The singly linked list of NachOS (threads/list.h), as the pointers that *)
(* it is made of: ready list, queues of semaphores, mail boxes and pending *)
(* interrupts are such lists, and the other modules take them as           *)
(* sequences.  Elements are numbered in the order they are allocated.      *)
(***************************************************************************)
EXTENDS Naturals, Sequences, FiniteSets, TLC

NULL == 0

ListElement(item, key) == [item |-> item, key |-> key, next |-> NULL]

\* "made" counts the elements, "heap" holds those that were not deleted.
List == [first |-> NULL, last |-> NULL, heap |-> <<>>, made |-> 0]

IsEmpty(l) == l.first = NULL

\* The list that holds another element, which is not linked yet.
New(l, item, key) ==
    [l EXCEPT !.made = @ + 1, !.heap = ((l.made + 1) :> ListElement(item, key)) @@ @]

\* The only element of the list.
Alone(l, e) == [l EXCEPT !.first = e, !.last = e]
InFront(l, e) == [l EXCEPT !.heap[e].next = l.first, !.first = e]
AtTheEnd(l, e) == [l EXCEPT !.heap[l.last].next = e, !.last = e]

Append_(list, item) ==
    LET l == New(list, item, 0) IN
    IF IsEmpty(l) THEN Alone(l, l.made) ELSE AtTheEnd(l, l.made)

Prepend(list, item) ==
    LET l == New(list, item, 0) IN
    IF IsEmpty(l) THEN Alone(l, l.made) ELSE InFront(l, l.made)

\* The element behind which a key belongs, looked for from the first one.
Predecessor(l, key) ==
    LET at[e \in DOMAIN l.heap] ==
          LET next == l.heap[e].next IN
          IF next = NULL \/ key < l.heap[next].key THEN e ELSE at[next]
    IN  at[l.first]

SortedInsert(list, item, key) ==
    LET l == New(list, item, key)
        e == l.made
    IN  IF IsEmpty(l) THEN Alone(l, e)
        ELSE IF key < l.heap[l.first].key THEN InFront(l, e)
        ELSE LET p == Predecessor(list, key) IN
             IF l.heap[p].next = NULL THEN AtTheEnd(l, e)
             ELSE [l EXCEPT !.heap[e].next = l.heap[p].next, !.heap[p].next = e]

\* The list without its first element, whose item and key are returned.
SortedRemove(l) ==
    IF IsEmpty(l) THEN [list |-> l, item |-> NULL, key |-> NULL]
    ELSE LET e == l.first
             rest == IF l.first = l.last THEN [l EXCEPT !.first = NULL, !.last = NULL]
                     ELSE [l EXCEPT !.first = l.heap[e].next]
         IN  [list |-> [rest EXCEPT !.heap = [x \in DOMAIN @ \ {e} |-> @[x]]],
              item |-> l.heap[e].item, key |-> l.heap[e].key]

Remove(l) == SortedRemove(l).list

\* ~List: elements are removed until there is none.
Destroyed(l) ==
    LET left[k \in 0..Cardinality(DOMAIN l.heap)] ==
          IF k = 0 THEN l ELSE Remove(left[k - 1])
    IN  left[Cardinality(DOMAIN l.heap)]

\* What Apply calls its function with, in this order.
Apply(l) ==
    LET from[e \in DOMAIN l.heap \cup {NULL}] ==
          IF e = NULL THEN <<>>
          ELSE <<[item |-> l.heap[e].item, key |-> l.heap[e].key]>> \o from[l.heap[e].next]
    IN  from[l.first]
=============================================================================
