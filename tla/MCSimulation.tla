---------------------------- MODULE MCSimulation ----------------------------
(***************************************************************************)
(* Instances of Simulation: a buffer of a few cells, messages shorter and  *)
(* longer than it, and the disk that the server's constructor leaves.      *)
(***************************************************************************)
EXTENDS Simulation

Disk == INSTANCE SimulationDisk

CONSTANTS f1, f2, f3, f4

\* The figures the server writes, one short and one of several blocks.
MCSources == [f \in {f1, f2} |-> IF f = f1 THEN <<1>> ELSE <<1, 2, 3>>]
MCDisk == Disk!ColabProtocolHandler(Disk!NoDisk, <<f1, f2>>, MCSources)
MCOnDisk == {f \in Figure : Disk!existASCII(MCDisk, f)}

\* Whatever the order and the sizes, each figure is read back as it was written,
\* shown as it is read, and a server that starts again changes nothing.
Orders == {<<f1, f2, f3>>, <<f3, f1, f2>>, <<f2, f3, f1>>}
Sources == [{f1, f2, f3} -> {<<1>>, <<1, 2>>, <<1, 2, 3, 4>>}]
ASSUME ReadBack ==
    \A order \in Orders, sources \in Sources :
        LET disk == Disk!ColabProtocolHandler(Disk!NoDisk, order, sources)
        IN /\ Disk!ColabProtocolHandler(disk, order, sources) = disk
           /\ \A f \in {f1, f2, f3} : /\ Disk!getCase(disk, f) = sources[f]
                                      /\ Disk!showContent(disk, f) = sources[f]
ASSUME DiskOfTheRun == \A f \in MCOnDisk : Disk!getCase(MCDisk, f) = MCSources[f]

\* f1 is short, f2 does not fit the buffer, nor does a request that is not
\* understood; f3 is listed and missing, f4 is unknown.
MCLength(m) ==
    CASE m = Drawing(f1) -> 3
      [] m = HttpFigure(Drawing(f1)) -> 6
      [] m = Drawing(f2) -> 9
      [] m = HttpFigure(Drawing(f2)) -> 12
      [] m = Other -> 7
      [] m \in {HttpBadRequest, HttpErrorCode, HttpErrorFromServer} -> 2
      [] m = Listing(Listed) -> 5
      [] m = Names -> 4
      [] OTHER -> 1
=============================================================================
