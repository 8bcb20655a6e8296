---------------------------- MODULE FigureStore ----------------------------
(***************************************************************************)
(* What a figure server promises of its disk (FileSystem.h: a file is      *)
(* written, or writeFile fails): a set of whole figures that only grows,   *)
(* until the disk or its directory has run out of room.                    *)
(***************************************************************************)
EXTENDS Naturals

CONSTANTS
    Name,       \* figure names
    MaxPieces   \* the greatest number of blocks a figure may need

VARIABLES
    figures,    \* pairs of a name and the number of blocks it is whole with
    full        \* has the disk or its directory run out of room?

svars == <<figures, full>>

SInit == figures = {} /\ full = FALSE

\* A figure that was not there is there, all of it at once.
Write(n, p) ==
    /\ ~full
    /\ \A q \in 1..MaxPieces : <<n, q>> \notin figures
    /\ figures' = figures \cup {<<n, p>>}
    /\ UNCHANGED full

\* Out of room: nothing is promised any more.
RunOut ==
    /\ full' = TRUE
    /\ figures' \in SUBSET (Name \X (1..MaxPieces))

SNext ==
    \/ \E n \in Name, p \in 1..MaxPieces : Write(n, p)
    \/ RunOut

SSpec == SInit /\ [][SNext]_svars
=============================================================================
