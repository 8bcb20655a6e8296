-------------------------- MODULE MCFigureService --------------------------
(* Two browsers and two more book-keepers; a figure of two blocks and one  *)
(* whose first block holds the text "/END".  The two book-keepers by       *)
(* themselves meet a server with descriptors for one answer left.          *)
EXTENDS FigureService

CONSTANTS h1, h2, v1, v2

MCSize == [f \in Figure |-> IF f = "Goku" THEN 2 ELSE 1]
MCCasts == {{h1, h2}, {h2, v1}, {v1, v2}}
MCHeld == [cast \in MCCasts |-> IF cast \subseteq Visitor THEN 2 ELSE 0]
Request(kind, name) == [kind |-> kind, name |-> name]
MCPages == [h \in Browser |-> 
    IF h = h1 THEN {Request("get", "Foca"), Request("get", "Personal"), Request("objects", "none")}
    ELSE {Request("get", "Goku")}]
MCQuestions == [v \in Visitor |->
    {Request("none", "none"), Request("GET", "Foca")}]
=============================================================================
