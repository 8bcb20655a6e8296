-------------------------- MODULE NachosFilePromise --------------------------
(***************************************************************************)
(* What the NachOS file system promises (filesys.h, openfile.h): files of  *)
(* a fixed size that are created and removed as a whole, and written one   *)
(* at a time without any effect on the others.  A machine that stops in    *)
(* the middle of Create or Remove may lose the disk, which has then to be  *)
(* formatted; so may a thread that uses a file after it was removed.       *)
(***************************************************************************)
EXTENDS Naturals, Sequences

CONSTANTS Name, Value, MaxUnits

VARIABLES
    files,      \* the contents of the files, by name
    lost        \* the disk may be corrupt, or was never formatted

pvars == <<files, lost>>

NoFiles == <<>>

PInit == files = NoFiles /\ lost = TRUE

Others(n) == DOMAIN files \ {n}
\* Every file but n stays what it was.
KeepsOthers(n) == \A m \in Others(n) : m \in DOMAIN files' /\ files'[m] = files[m]

\* The contents of a new file are whatever its sectors hold.
PCreate(n) ==
    /\ ~lost /\ n \notin DOMAIN files
    /\ DOMAIN files' = DOMAIN files \cup {n}
    /\ \E k \in 0..MaxUnits : files'[n] \in [1..k -> Value]
    /\ KeepsOthers(n)
    /\ UNCHANGED lost

PRemove(n) ==
    /\ ~lost /\ n \in DOMAIN files
    /\ DOMAIN files' = Others(n)
    /\ KeepsOthers(n)
    /\ UNCHANGED lost

PWrite(n) ==
    /\ ~lost /\ n \in DOMAIN files
    /\ DOMAIN files' = DOMAIN files
    /\ files'[n] \in [1..Len(files[n]) -> Value]
    /\ KeepsOthers(n)
    /\ UNCHANGED lost

PLose == lost' = TRUE /\ files' = NoFiles

PFormat == lost' = FALSE /\ files' = NoFiles

PNext ==
    \/ \E n \in Name : PCreate(n) \/ PWrite(n) \/ PRemove(n)
    \/ PLose \/ PFormat

PSpec == PInit /\ [][PNext]_pvars
=============================================================================
