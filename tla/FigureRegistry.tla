--------------------------- MODULE FigureRegistry ---------------------------
(***************************************************************************)
(* What the book-keeper promises of its registry, with no threads, no      *)
(* network and no mutex: a set of registered figure servers and, for some  *)
(* of them, a catalogue of figures.  A catalogue belongs to a registered   *)
(* server and both leave together.  BookKeeper implements this module.     *)
(***************************************************************************)
CONSTANTS
    Addr,    \* IP addresses
    Figure,  \* figure names
    Absent   \* "no entry" in serverObjects

VARIABLES
    registered,  \* the addresses of the registered figure servers
    catalogue    \* what each of them is known to hold, or Absent

rvars == <<registered, catalogue>>

RInit ==
    /\ registered = {}
    /\ catalogue = [a \in Addr |-> Absent]

\* A server announces itself; what it holds is not known yet, or is what was
\* known of it before.
Register(a) ==
    /\ registered' = registered \cup {a}
    /\ UNCHANGED catalogue

\* The catalogue of a registered server, and of no other, is replaced.
Refresh(a, figures) ==
    /\ a \in registered
    /\ catalogue' = [catalogue EXCEPT ![a] = figures]
    /\ UNCHANGED registered

\* A server leaves, with its catalogue.
Evict(a) ==
    /\ registered' = registered \ {a}
    /\ catalogue' = [catalogue EXCEPT ![a] = Absent]

\* The book-keeper starts over with an empty memory.
Forget ==
    /\ registered' = {}
    /\ catalogue' = [a \in Addr |-> Absent]

RNext ==
    \/ \E a \in Addr : Register(a) \/ Evict(a)
    \/ \E a \in Addr, figures \in SUBSET Figure : Refresh(a, figures)
    \/ Forget

RSpec == RInit /\ [][RNext]_rvars
=============================================================================
