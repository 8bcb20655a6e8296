------------------------------ MODULE NachosDisk ------------------------------
(***************************************************************************)
(* The timing of the simulated disk (machine/disk.cc): how long a request  *)
(* takes from where the head is, and the buffer of the current track.      *)
(* "disk" holds the sector of the last request and the time from which the *)
(* buffer has the track; "now" is stats->totalTicks.                       *)
(***************************************************************************)
EXTENDS Integers

CONSTANTS   \* all at least 1
    SectorsPerTrack, SeekTime, RotationTime

NewDisk == [lastSector |-> 0, bufferInit |-> 0]

Distance(a, b) == IF a < b THEN b - a ELSE a - b

\* The way to the track, and from there to where a sector begins.
TimeToSeek(disk, now, newSector) ==
    LET seek == Distance(newSector \div SectorsPerTrack, disk.lastSector \div SectorsPerTrack)
                  * SeekTime
        over == (now + seek) % RotationTime
    IN  [seek |-> seek, rotation |-> IF over > 0 THEN RotationTime - over ELSE 0]

ModuloDiff(to, from) ==
    (((to % SectorsPerTrack) - (from % SectorsPerTrack)) + SectorsPerTrack) % SectorsPerTrack

\* The sector has been under the head since the buffer was begun.
Buffered(disk, now, newSector) ==
    LET way == TimeToSeek(disk, now, newSector)
        timeAfter == now + way.seek + way.rotation
    IN  /\ way.seek = 0
        /\ (timeAfter - disk.bufferInit) \div RotationTime
             > ModuloDiff(newSector, disk.bufferInit \div RotationTime)

\* The way, the rotation up to the sector and the sector itself.
Latency(disk, now, newSector) ==
    LET way == TimeToSeek(disk, now, newSector)
        timeAfter == now + way.seek + way.rotation
    IN  way.seek + way.rotation
          + ModuloDiff(newSector, timeAfter \div RotationTime) * RotationTime
          + RotationTime

ComputeLatency(disk, now, newSector, writing) ==
    IF ~writing /\ Buffered(disk, now, newSector) THEN RotationTime
    ELSE Latency(disk, now, newSector)

UpdateLast(disk, now, newSector) ==
    LET way == TimeToSeek(disk, now, newSector)
    IN  [lastSector |-> newSector,
         bufferInit |-> IF way.seek # 0 THEN now + way.seek + way.rotation
                        ELSE disk.bufferInit]
=============================================================================
