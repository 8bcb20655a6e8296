----------------------------- MODULE MCFigureFS -----------------------------
(***************************************************************************)
(* Instances of FigureFS: a small disk and a small directory.              *)
(***************************************************************************)
EXTENDS FigureFS, TLC

CONSTANTS n1, n2, n3

\* The figures differ by name only.
Symmetric == Permutations(Name)

\* Bound: what happens after the room has run out is not explored; no property
\* says anything of it.
Room == ~full
=============================================================================
