---------------------------- MODULE MCNachosFiles ----------------------------
(***************************************************************************)
(* Programs for NachosFiles: one thread creates, fills and removes files,  *)
(* the other writes into parts of one that it has open, or that was        *)
(* removed meanwhile; the commands of main.cc one after the other; and the *)
(* timing of the disk under it.                                            *)
(***************************************************************************)
EXTENDS NachosFileTest

CONSTANTS maker, user, a, b

Create(n, size) == O("create", n, size, 0, 0, 0)
Do(kind, n) == O(kind, n, 0, 0, 0, 0)
Write_(size, v) == O("write", NoName, size, v, 0, 0)

MCScripts ==
    { (maker :> <<Create(a, 3), Create(b, 2) \cup Create(b, 7), Do("remove", b),
                  Create(b, 3) \cup Do("remove", a)>>)
        @@ (user :> <<>>),
      (maker :> <<Create(a, 3), Create(b, 2), Do("open", b), Write_(2, 2), Do("close", b),
                  Do("remove", b) \cup Create(b, 1), Create(b, 4)>>)
        @@ (user :> <<Do("open", a), O("seek", a, 1, 0, 0, 0) \cup O("read", a, 3, 0, 0, 0),
                      Write_(1, 1) \cup Write_(2, 1)>>),
      (maker :> <<Create(a, 3), Do("remove", a), Create(b, 0), Create(a, 1)>>)
        @@ (user :> <<Do("open", a), Write_(1, 1)>>),
      (maker :> <<Create(b, 0), Create(a, 0), Do("remove", b), Do("remove", a), Create(b, 2),
                  Do("open", b), Write_(2, 1)>>)
        @@ (user :> <<Do("open", a)>>),
      (maker :> Copy(a, 3, 1) \o PrintFile(a) \o PerformanceTest(b, 3, 2)) @@ (user :> <<>>),
      (maker :> Copy(b, 4, 2) \o PerformanceTest(b, 4, 2) \o PrintFile(b)) @@ (user :> <<>>),
      (maker :> Copy(b, 4, 1) \o PerformanceTest(b, 4, 2) \o Copy(a, 8, 1)) @@ (user :> <<>>) }

-----------------------------------------------------------------------------
\* A disk of two tracks, on which a sector takes longer to turn by than a seek.
D == INSTANCE NachosDisk WITH SectorsPerTrack <- 3, SeekTime <- 3, RotationTime <- 4

DiskSectors == 0..5
Track(s) == s \div 3

\* The sector of the track that turns by from time t on, t a multiple of 4.
UnderHead(t) == (t \div 4) % 3

\* The disk after requests for some sectors, each made so long after the one before.
AfterRequests(r) ==
    FoldLeft(LAMBDA x, q : [disk |-> D!UpdateLast(x.disk, x.now + q.wait, q.sector),
                            now |-> x.now + q.wait
                              + D!ComputeLatency(x.disk, x.now + q.wait, q.sector, q.writing)],
             [disk |-> D!NewDisk, now |-> 0], r)

\* A request that is not served from the buffer ends when its sector has turned by, in
\* less than a seek and a turn.  The buffer is only used for a sector that has turned
\* by since the head came to the track, and never makes a request slower.  No request
\* takes no time: Interrupt::Schedule asserts it (machine/disk.cc).
ASSUME LatencyIsMechanical ==
    \A first, second \in [sector : DiskSectors, wait : {0, 1, 6}, writing : BOOLEAN],
       s \in DiskSectors, wait \in {0, 2, 7, 15} :
        LET x == AfterRequests(<<first, second>>)
            now == x.now + wait
            n == D!Latency(x.disk, now, s)
            seek == IF Track(s) # Track(x.disk.lastSector) THEN 3 ELSE 0
        IN  /\ (now + n) % 4 = 0 /\ UnderHead(now + n - 4) = s % 3
            /\ n >= seek + 4 /\ n <= seek + 3 + 12
            /\ D!ComputeLatency(x.disk, now, s, TRUE) = n
            /\ D!ComputeLatency(x.disk, now, s, FALSE) \in {4, n}
            /\ D!Buffered(x.disk, now, s) =>
                  /\ Track(s) = Track(x.disk.lastSector)
                  /\ \E t \in (x.disk.bufferInit)..(now + 3) :
                        t % 4 = 0 /\ t + 4 <= now + 3 /\ UnderHead(t) = s % 3
=============================================================================
