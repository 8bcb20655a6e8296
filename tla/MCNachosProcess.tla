--------------------------- MODULE MCNachosProcess ---------------------------
(***************************************************************************)
(* Programs for NachosProcess: the calls of the test programs copy,        *)
(* pingPong, addrspacetest, socket and todos, and calls with handles that  *)
(* are not open.                                                           *)
(***************************************************************************)
EXTENDS NachosProcess, TLC

CONSTANTS t0, t1, t2

C(op, arg, size) == [op |-> op, arg |-> arg, size |-> size]
ForkOf(t) == {C("fork", t, 0)}
Write1 == {C("write", 1, 0)}
Do(op, arg) == {C(op, arg, 0)}

Programs_(p0, p1, p2) == (t0 :> p0) @@ (t1 :> p1) @@ (t2 :> p2)

\* Files and sockets that three threads share.
FileProgram == Programs_(
    <<ForkOf(t1), ForkOf(t2), Do("open", 0), {C("read", 3, 1), C("read", 4, 1)}>>,
    <<{C("open", 0, 0), C("socket", 0, 0)}, {C("close", 3, 0), C("connect", 3, 0)},
      {C("write", 3, 0)}>>,
    <<{C("open", 0, 0), C("write", 1, 0)}, {C("close", 3, 0), C("close", 4, 0)}>>)

\* Read of nothing, handles beyond the table, calls that do nothing.
OddProgram == Programs_(
    <<ForkOf(t1), {C("read", 3, 0), C("read", 9, 1), C("write", 9, 0), C("close", 9, 0),
      C("write", 3, 0), C("halt", 0, 0)}, Write1>>,
    <<ForkOf(t2), {C("yield", 0, 0), C("write", 1, 0)}>>,
    <<Write1, {C("exit", 0, 0), C("write", 1, 0)}>>)

\* Semaphores: created, waited for, signalled and destroyed.
SemaphoreProgram == Programs_(
    <<{C("semcreate", 0, 0), C("semcreate", 0, 1)}, ForkOf(t1), ForkOf(t2),
      {C("semdestroy", 0, 0), C("semsignal", 0, 0)}, Do("semcreate", 0)>>,
    <<Do("semwait", 0), {C("semsignal", 0, 0), C("semwait", 1, 0)}>>,
    <<Do("semwait", 0), {C("semsignal", 0, 0), C("semcreate", 0, 0)}>>)

MCPrograms == {FileProgram, OddProgram, SemaphoreProgram}
=============================================================================
