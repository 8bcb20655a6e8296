--------------------------- MODULE MCPieceServer ---------------------------
(* Two connections to a server of three figures, the last one of two        *)
(* blocks, that is started twice; one of them asks for anything, a name     *)
(* that was never written included, the other for the longest figure or the *)
(* list.                                                                    *)
EXTENDS PieceServer

CONSTANTS c1, c2

MCSize == [f \in {"Goku", "Foca", "GoyoCat"} |-> IF f = "GoyoCat" THEN 2 ELSE 1]
MCOrder == <<"Goku", "Foca", "GoyoCat">>
MCBefore == <<0, 1, 2, 4>>

MCAsks == [c \in Conn |->
  IF c = c1 THEN Request
  ELSE {[kind |-> "GET", name |-> "GoyoCat"], [kind |-> "OBJECTS", name |-> "none"]}]
=============================================================================
