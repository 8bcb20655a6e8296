----------------------------- MODULE NachosFiles -----------------------------
(***************************************************************************)
(* The NachOS file system (filesys.cc, directory.cc, filehdr.cc,           *)
(* openfile.cc) on its disk: a map of the sectors in use, a directory that *)
(* takes two sectors, a header and data sectors for each file.             *)
(*                                                                         *)
(* A thread runs a program, a list of operations.  An operation fetches    *)
(* sectors into memory, decides, and stores sectors; every sector that is  *)
(* fetched or stored is a step (SynchDisk lets one request at a time       *)
(* through), other threads may step in between, and the machine may stop   *)
(* there.  The parts of a sector that matter are its units.                *)
(***************************************************************************)
EXTENDS Naturals, SequencesExt

CONSTANTS
    Caller,         \* the threads that use the file system
    Name, NoName,   \* file names; what the memory of an unused entry holds
    Value,          \* of a unit
    NumSectors,
    SectorSize,     \* units of a sector
    NumDirEntries,
    InFirst,        \* the entries that are in the first directory sector altogether
    NumDirect,      \* the sectors a header has room for
    MaxCrashes,     \* bound: how often the machine stops
    Scripts         \* functions from threads to lists of sets of operations

Sector == 0..(NumSectors - 1)
FreeMapSector == 0
DirectorySector == 1
MapSector == 2
DirSectors == <<3, 4>>
System == {FreeMapSector, DirectorySector, MapSector} \cup ToSet(DirSectors)
Entry == 1..NumDirEntries
MaxUnits == NumDirect * SectorSize

DirectoryEntry == [inUse : BOOLEAN, sector : Sector, name : Name \cup {NoName}]
FileHeader ==
    [numBytes : 0..MaxUnits, dataSectors : UNION {[1..n -> Sector] : n \in 0..NumDirect}]
NoHeader == [numBytes |-> 0, dataSectors |-> <<>>]
NoEntry == [inUse |-> FALSE, sector |-> 0, name |-> NoName]

Operations == {"create", "remove", "open", "read", "write", "seek", "close"}
\* "size": of a new file, to transfer or to seek; "value": what is written, or what a
\* read expects unless it is 0.  The caller leaves out "skip" of the operations that
\* follow when this one fails, or transfers less than "least".
NoOperation ==
    [op |-> "none", name |-> NoName, size |-> 0, value |-> 0, least |-> 0, skip |-> 0]

\* A header has room for the two sectors of the directory.
ASSUME FilesAssumption ==
    /\ NumSectors \in Nat /\ NumSectors > 5 /\ SectorSize \in Nat \ {0}
    /\ NumDirect \in Nat /\ NumDirect > 1 /\ MaxCrashes \in Nat
    /\ NumDirEntries \in Nat \ {0} /\ InFirst \in 0..NumDirEntries
    /\ NoName \notin Name /\ 0 \in Value

\* "Files cannot be bigger than about 3KB in size" (filesys.cc): what a header has room
\* for, which Allocate does not check.
FileOperation ==
    {o \in [op : Operations, name : Name \cup {NoName}, size : Nat, value : Value,
            least : Nat, skip : Nat] :
        /\ o.op \in {"create", "remove", "open"} => o.name \in Name
        /\ o.op = "create" => o.size <= MaxUnits}
ChangesFiles(program) ==
    \E i \in DOMAIN program : \E o \in program[i] : o.op \in {"create", "remove"}

\* "This implementation assumes there is no concurrent access to the file system"
\* (filesys.cc): main runs the commands one after the other.  Here only one thread
\* creates and removes files; the others may use them at the same time.
ASSUME ScriptsAssumption ==
    /\ Scripts \subseteq [Caller -> Seq(SUBSET FileOperation)]
    /\ \A p \in Scripts : \A t, u \in Caller :
          ChangesFiles(p[t]) /\ ChangesFiles(p[u]) => t = u

VARIABLES
    freeMap, directory, header, data,   \* the disk
    overwritten,    \* the sectors in which data was stored after any header
    script, op,     \* what remains of the programs; the operation a thread is in
    phase,          \* what it decides when nothing is pending
    pending,        \* the sectors it has still to fetch or store before
    dirBuf, mapBuf, hdrBuf, buf,        \* what it fetched
    file,           \* the header and position of the file it has open
    running,        \* NachOS is up
    lost,           \* the disk is corrupt, or not formatted: no thread goes on
    crashes

disk == <<freeMap, directory, header, data, overwritten>>
buffers == <<dirBuf, mapBuf, hdrBuf, buf>>
control == <<op, phase, pending>>
machine == <<running, lost, crashes>>
filesVars == <<disk, script, control, buffers, file, machine>>

NoFile == [open |-> FALSE, name |-> NoName, hdr |-> NoHeader, seek |-> 0]

Empty == [e \in Entry |-> NoEntry]
Units == 1..SectorSize
Zeros == [u \in Units |-> 0]

FilesInit ==
    /\ freeMap = {} /\ directory = Empty
    /\ header = [s \in Sector |-> NoHeader] /\ data = [s \in Sector |-> Zeros]
    /\ overwritten = {}
    /\ script \in Scripts
    /\ op = [t \in Caller |-> NoOperation]
    /\ phase = [t \in Caller |-> "idle"]
    /\ pending = [t \in Caller |-> <<>>]
    /\ dirBuf = [t \in Caller |-> Empty] /\ mapBuf = [t \in Caller |-> {}]
    /\ hdrBuf = [t \in Caller |-> NoHeader] /\ buf = [t \in Caller |-> <<>>]
    /\ file = [t \in Caller |-> NoFile]
    /\ running = FALSE /\ lost = TRUE /\ crashes = 0

-----------------------------------------------------------------------------
(* Directory, header, map                                                  *)

\* DirectoryEntry has its name last: of the entry on the border of the two sectors,
\* the name is in the second.  The directory "to" with one sector taken from "from".
Copied(from, to, k) ==
    [e \in Entry |->
       LET front == IF (e <= InFirst + 1) = (k = 1) THEN from[e] ELSE to[e]
           back == IF (e <= InFirst) = (k = 1) THEN from[e] ELSE to[e]
       IN  [inUse |-> front.inUse, sector |-> front.sector, name |-> back.name]]

FindIndex(dir, n) == {e \in Entry : dir[e].inUse /\ dir[e].name = n}
SetMin(S) == CHOOSE x \in S : \A y \in S : x <= y
DirFind(dir, n) == dir[SetMin(FindIndex(dir, n))].sector

Unused(dir) == {e \in Entry : ~dir[e].inUse}
\* Mutant: the first entry, used or not.
Add_First(dir, n, s) == [dir EXCEPT ![1] = [inUse |-> TRUE, sector |-> s, name |-> n]]
Add(dir, n, s) ==
    [dir EXCEPT ![SetMin(Unused(dir))] = [inUse |-> TRUE, sector |-> s, name |-> n]]
DirRemove(dir, n) == [dir EXCEPT ![SetMin(FindIndex(dir, n))].inUse = FALSE]

divRoundUp(n, s) == (n \div s) + (IF n % s > 0 THEN 1 ELSE 0)
\* The sectors that n calls of Find take: the i-th has i - 1 free ones before it.
FreeBefore(map, s) == {x \in Sector \ map : x < s}
FindSectors(map, n) ==
    [i \in 1..n |-> CHOOSE s \in Sector \ map : Cardinality(FreeBefore(map, s)) = i - 1]
\* BitMap
Mark(map, S) == map \cup S
Clear(map, S) == map \ S

SectorsOf(hdr) == ToSet(hdr.dataSectors)

\* The header that Allocate makes of the map, if it has room for it.
HasRoom(map, size) == Cardinality(Sector \ map) >= divRoundUp(size, SectorSize)
Allocate(map, size) ==
    [numBytes |-> size, dataSectors |-> FindSectors(map, divRoundUp(size, SectorSize))]

\* Mutant: the header sector stays marked.
Deallocate_Data(map, hdr, s) == Clear(map, SectorsOf(hdr))
\* Remove clears the data sectors and the header sector.
Deallocate(map, hdr, s) == Clear(Clear(map, SectorsOf(hdr)), {s})

-----------------------------------------------------------------------------
(* Sectors on their way                                                    *)

Fetch_(what, at) == [io |-> "fetch", what |-> what, at |-> at]
Store_(what, at, d) == [io |-> "store", what |-> what, at |-> at, data |-> d]
FetchDirectory == <<Fetch_("directory", 1), Fetch_("directory", 2)>>
StoreDirectory(dir) == <<Store_("directory", 1, dir), Store_("directory", 2, dir)>>

\* What threads do with a corrupt disk is not followed.
Up == running /\ ~lost
Ready(t) == Up /\ pending[t] # <<>>
IO(t) == Head(pending[t])

MapFetchFrom(t) == mapBuf' = [mapBuf EXCEPT ![t] = freeMap]
MapWriteBack(map) == freeMap' = map

\* A sector comes into the memory of the thread.  The header of a file that was removed
\* since the thread looked for it may be data by now.
Fetch(t) ==
    /\ Ready(t) /\ IO(t).io = "fetch"
    /\ pending' = [pending EXCEPT ![t] = Tail(@)]
    /\ CASE IO(t).what = "directory" ->
              /\ dirBuf' = [dirBuf EXCEPT ![t] = Copied(directory, @, IO(t).at)]
              /\ UNCHANGED <<mapBuf, hdrBuf, buf>>
         [] IO(t).what = "map" -> MapFetchFrom(t) /\ UNCHANGED <<dirBuf, hdrBuf, buf>>
         [] IO(t).what = "header" ->
              /\ hdrBuf' = [hdrBuf EXCEPT ![t] = header[IO(t).at]]
              /\ UNCHANGED <<dirBuf, mapBuf, buf>>
         [] OTHER ->
              /\ buf' = [buf EXCEPT ![t] = Append(@, data[IO(t).at])]
              /\ UNCHANGED <<dirBuf, mapBuf, hdrBuf>>
    /\ lost' = (IO(t).what = "header" /\ IO(t).at \in overwritten)
    /\ UNCHANGED <<disk, script, op, phase, file, running, crashes>>

\* The directory that an operation which is about to store a new one started from.
StoresDirectory(t) ==
    \E i \in DOMAIN pending[t] :
        pending[t][i].io = "store" /\ pending[t][i].what = "directory"
Shown ==
    IF \E t \in Caller : StoresDirectory(t)
    THEN dirBuf[CHOOSE t \in Caller : StoresDirectory(t)] ELSE directory

InUse(dir) == {e \in Entry : dir[e].inUse}

\* The sectors with a header in them that a directory names: the one of the disk, the one
\* that is shown, and one to be stored that has its header on the disk already.
DirectoriesOf(t) ==
    {pending[t][i].data : i \in
        {j \in DOMAIN pending[t] : /\ IO(t).what # "header" /\ pending[t][j].io = "store"
                                  /\ pending[t][j].what = "directory"}}
HeaderSectors ==
    LET dirs == {directory, Shown} \cup UNION {DirectoriesOf(t) : t \in Caller}
    IN  UNION {{dir[e].sector : e \in InUse(dir)} : dir \in dirs}

\* Data in the place of a header: Remove frees the sectors of a file that is open, and a
\* write to it goes where the header of a file made since may be.
Spoils(s) == s \in System \cup HeaderSectors

Store(t) ==
    /\ Ready(t) /\ IO(t).io = "store"
    /\ pending' = [pending EXCEPT ![t] = Tail(@)]
    /\ CASE IO(t).what = "directory" ->
              /\ directory' = Copied(IO(t).data, directory, IO(t).at)
              /\ UNCHANGED <<freeMap, header, data>>
         [] IO(t).what = "map" ->
              MapWriteBack(IO(t).data) /\ UNCHANGED <<directory, header, data>>
         [] IO(t).what = "header" ->
              /\ header' = [header EXCEPT ![IO(t).at] = IO(t).data]
              /\ UNCHANGED <<freeMap, directory, data>>
         [] OTHER ->
              /\ data' = [data EXCEPT ![IO(t).at] = IO(t).data]
              /\ UNCHANGED <<freeMap, directory, header>>
    /\ overwritten' = CASE IO(t).what = "header" -> overwritten \ {IO(t).at}
                        [] IO(t).what = "data" -> overwritten \cup {IO(t).at}
                        [] OTHER -> overwritten
    /\ lost' = (IO(t).what = "data" /\ Spoils(IO(t).at))
    /\ UNCHANGED <<script, op, phase, buffers, file, running, crashes>>

-----------------------------------------------------------------------------
(* Operations                                                              *)

\* The thread begins o, the next of its program.
Begins(t, o) ==
    /\ Up /\ phase[t] = "idle" /\ pending[t] = <<>>
    /\ script[t] # <<>> /\ o \in Head(script[t])
    /\ script' = [script EXCEPT ![t] = Tail(@)]
    /\ op' = [op EXCEPT ![t] = o]

\* The thread is in an operation, has all it fetched, and goes on.
In(t, o, where) ==
    Up /\ phase[t] = where /\ pending[t] = <<>> /\ op[t].op \in o
Then(t, where, io) ==
    /\ phase' = [phase EXCEPT ![t] = where]
    /\ pending' = [pending EXCEPT ![t] = io]

\* What the caller does when the operation failed.
GivesUp(t) == script' = [script EXCEPT ![t] = SubSeq(@, op[t].skip + 1, Len(@))]

\* Create, Remove and Open look into the directory first.
Look(t) ==
    \E o \in IF script[t] = <<>> THEN {} ELSE Head(script[t]) :
        /\ Begins(t, o) /\ o.op \in {"create", "remove", "open"}
        /\ Then(t, "look", FetchDirectory)
        /\ UNCHANGED <<disk, buffers, file, machine>>

NotFound(t) ==
    /\ \/ In(t, {"remove", "open"}, "look") /\ FindIndex(dirBuf[t], op[t].name) = {}
       \/ In(t, {"create"}, "look") /\ FindIndex(dirBuf[t], op[t].name) # {}
    /\ Then(t, "idle", <<>>)
    /\ file' = [file EXCEPT ![t] = IF op[t].op = "open" THEN NoFile ELSE @]
    /\ GivesUp(t)
    /\ UNCHANGED <<disk, op, buffers, machine>>

Found(t) ==
    /\ \/ /\ In(t, {"create"}, "look") /\ FindIndex(dirBuf[t], op[t].name) = {}
          /\ Then(t, "allocate", <<Fetch_("map", 0)>>)
       \/ /\ In(t, {"open"}, "look") /\ FindIndex(dirBuf[t], op[t].name) # {}
          /\ Then(t, "header", <<Fetch_("header", DirFind(dirBuf[t], op[t].name))>>)
       \/ /\ In(t, {"remove"}, "look") /\ FindIndex(dirBuf[t], op[t].name) # {}
          /\ Then(t, "free", <<Fetch_("header", DirFind(dirBuf[t], op[t].name)),
                               Fetch_("map", 0)>>)
    /\ UNCHANGED <<disk, script, op, buffers, file, machine>>

\* Create: header, directory and map are stored in this order.
\* Mutant: what Allocate took is not put on the map.
Allocate_Unmarked(t) ==
    /\ In(t, {"create"}, "allocate")
    /\ Sector \ mapBuf[t] # {} /\ Unused(dirBuf[t]) # {}
    /\ LET s == FindSectors(mapBuf[t], 1)[1]
           map == Mark(mapBuf[t], {s})
           hdr == Allocate(map, op[t].size)
       IN  /\ HasRoom(map, op[t].size)
           /\ Then(t, "ends", <<Store_("header", s, hdr)>>
                 \o StoreDirectory(Add(dirBuf[t], op[t].name, s))
                 \o <<Store_("map", 0, map)>>)
    /\ UNCHANGED <<disk, script, op, buffers, file, machine>>
CreateStores(t) ==
    /\ In(t, {"create"}, "allocate")
    /\ Sector \ mapBuf[t] # {} /\ Unused(dirBuf[t]) # {}
    /\ LET s == FindSectors(mapBuf[t], 1)[1]
           map == Mark(mapBuf[t], {s})
           hdr == Allocate(map, op[t].size)
       IN  /\ HasRoom(map, op[t].size)
           /\ Then(t, "ends", <<Store_("header", s, hdr)>>
                 \o StoreDirectory(Add(dirBuf[t], op[t].name, s))
                 \o <<Store_("map", 0, Mark(map, SectorsOf(hdr)))>>)
    /\ UNCHANGED <<disk, script, op, buffers, file, machine>>

\* No sector for the header, no entry, or no room for the data: nothing was stored.
CreateFails(t) ==
    /\ In(t, {"create"}, "allocate")
    /\ \/ Sector \subseteq mapBuf[t] \/ Unused(dirBuf[t]) = {}
       \/ ~HasRoom(Mark(mapBuf[t], {FindSectors(mapBuf[t], 1)[1]}), op[t].size)
    /\ Then(t, "idle", <<>>)
    /\ GivesUp(t)
    /\ UNCHANGED <<disk, op, buffers, file, machine>>

\* Remove: map before directory.  Deallocate asserts that the sectors are marked.
Removes(t) ==
    /\ In(t, {"remove"}, "free")
    /\ LET s == DirFind(dirBuf[t], op[t].name)
       IN  IF SectorsOf(hdrBuf[t]) \subseteq mapBuf[t]
           THEN Then(t, "ends", <<Store_("map", 0, Deallocate(mapBuf[t], hdrBuf[t], s))>>
                       \o StoreDirectory(DirRemove(dirBuf[t], op[t].name)))
           ELSE Then(t, "aborted", <<>>)
    /\ UNCHANGED <<disk, script, op, buffers, file, machine>>

Opens(t) ==
    /\ In(t, {"open"}, "header")
    /\ file' = [file EXCEPT ![t] =
          [open |-> TRUE, name |-> op[t].name, hdr |-> hdrBuf[t], seek |-> 0]]
    /\ Then(t, "idle", <<>>)
    /\ UNCHANGED <<disk, script, op, buffers, machine>>

\* What Read and Write transfer at the position of the file, and the sectors of the
\* file that it touches, the first being 1.
Amount(t, n) ==
    LET f == file[t]
    IN  IF ~f.open \/ f.seek >= f.hdr.numBytes THEN 0
        ELSE IF f.seek + n > f.hdr.numBytes THEN f.hdr.numBytes - f.seek ELSE n
FirstSector(t) == 1 + file[t].seek \div SectorSize
LastSector(t, n) == 1 + (file[t].seek + n - 1) \div SectorSize
FetchData(t, i) == Fetch_("data", file[t].hdr.dataSectors[i])

ReadAt(t) ==
    \E o \in IF script[t] = <<>> THEN {} ELSE Head(script[t]) :
        /\ Begins(t, o) /\ o.op = "read" /\ Amount(t, o.size) > 0
        /\ Then(t, "ends",
              [k \in 1..(LastSector(t, Amount(t, o.size)) - FirstSector(t) + 1) |->
                  FetchData(t, FirstSector(t) + k - 1)])
        /\ buf' = [buf EXCEPT ![t] = <<>>]
        /\ UNCHANGED <<disk, dirBuf, mapBuf, hdrBuf, file, machine>>

\* WriteAt fetches the first and the last sector when it writes a part of them.
Aligned(n) == n % SectorSize = 0
WriteAt(t) ==
    \E o \in IF script[t] = <<>> THEN {} ELSE Head(script[t]) :
        LET n == Amount(t, o.size)
            first == FirstSector(t)
            last == LastSector(t, n)
            firstAligned == Aligned(file[t].seek)
            lastAligned == Aligned(file[t].seek + n)
        IN  /\ Begins(t, o) /\ o.op = "write" /\ n > 0
            /\ Then(t, "merge",
                  (IF firstAligned THEN <<>> ELSE <<FetchData(t, first)>>)
                  \o (IF ~lastAligned /\ (first # last \/ firstAligned)
                      THEN <<FetchData(t, last)>> ELSE <<>>))
            /\ buf' = [buf EXCEPT ![t] = <<>>]
            /\ UNCHANGED <<disk, dirBuf, mapBuf, hdrBuf, file, machine>>

\* Sector i with the new units between the old ones.  Behind the end of the file the
\* buffer is not initialized.
Position(i, u) == (i - 1) * SectorSize + u - 1
OldUnits(t, i) ==
    IF buf[t] = <<>> THEN Zeros
    ELSE IF i = FirstSector(t) THEN Head(buf[t]) ELSE Last(buf[t])
Merged(t, i, junk) ==
    [u \in Units |->
        IF Position(i, u) \in file[t].seek..(file[t].seek + Amount(t, op[t].size) - 1)
        THEN op[t].value
        ELSE IF Position(i, u) < file[t].hdr.numBytes THEN OldUnits(t, i)[u] ELSE junk]
StoreData(t, i, junk) == Store_("data", file[t].hdr.dataSectors[i], Merged(t, i, junk))
WriteMerges(t) ==
    /\ In(t, {"write"}, "merge")
    /\ \E junk \in {0, op[t].value} :
          Then(t, "ends",
             [k \in 1..(LastSector(t, Amount(t, op[t].size)) - FirstSector(t) + 1) |->
                 StoreData(t, FirstSector(t) + k - 1, junk)])
    /\ UNCHANGED <<disk, script, op, buffers, file, machine>>

\* Nothing to transfer, or no file.
Nothing(t) ==
    \E o \in IF script[t] = <<>> THEN {} ELSE Head(script[t]) :
        /\ Up /\ phase[t] = "idle" /\ pending[t] = <<>>
        /\ o.op \in {"read", "write"} /\ Amount(t, o.size) = 0
        /\ script' = [script EXCEPT ![t] =
              SubSeq(@, 2 + (IF o.least > 0 THEN o.skip ELSE 0), Len(@))]
        /\ op' = [op EXCEPT ![t] = o]
        /\ UNCHANGED <<disk, phase, pending, buffers, file, machine>>

Seek(t) ==
    \E o \in IF script[t] = <<>> THEN {} ELSE Head(script[t]) :
        /\ Begins(t, o) /\ o.op = "seek"
        /\ file' = [file EXCEPT ![t].seek = IF file[t].open THEN o.size ELSE @]
        /\ UNCHANGED <<disk, phase, pending, buffers, machine>>

Closes(t) ==
    \E o \in IF script[t] = <<>> THEN {} ELSE Head(script[t]) :
        /\ Begins(t, o) /\ o.op = "close"
        /\ file' = [file EXCEPT ![t] = NoFile]
        /\ UNCHANGED <<disk, phase, pending, buffers, machine>>

\* What a read brought, from the position of the file on.
Brought(t) ==
    LET n == Amount(t, op[t].size)
        from == file[t].seek % SectorSize
    IN  [k \in 1..n |->
           buf[t][1 + (from + k - 1) \div SectorSize][1 + ((from + k - 1) % SectorSize)]]
Disappoints(t) ==
    \/ op[t].op \in {"read", "write"} /\ Amount(t, op[t].size) < op[t].least
    \/ op[t].op = "read" /\ op[t].value # 0 /\ Range(Brought(t)) # {op[t].value}

\* The last sector is through; Read and Write move the position.
Ends(t) ==
    /\ In(t, Operations, "ends")
    /\ IF Disappoints(t) THEN GivesUp(t) ELSE UNCHANGED script
    /\ Then(t, "idle", <<>>)
    /\ file' = [file EXCEPT ![t].seek =
          IF op[t].op \in {"read", "write"} THEN @ + Amount(t, op[t].size) ELSE @]
    /\ UNCHANGED <<disk, op, buffers, machine>>

-----------------------------------------------------------------------------
(* Start and stop                                                          *)

FileSectors(dir, e) == {dir[e].sector} \cup SectorsOf(header[dir[e].sector])
Apart(dir) ==
    /\ \A e \in InUse(dir) : FileSectors(dir, e) \cap System = {}
    /\ \A e, f \in InUse(dir) : e # f =>
          /\ dir[e].name # dir[f].name
          /\ FileSectors(dir, e) \cap FileSectors(dir, f) = {}
Marked(dir) == System \cup UNION {FileSectors(dir, e) : e \in InUse(dir)}
Sound == Apart(directory) /\ Marked(directory) \subseteq freeMap

\* NachOS stops: memory is gone, the operation that was under way as well.
Crash ==
    /\ running /\ crashes < MaxCrashes
    /\ crashes' = crashes + 1
    /\ running' = FALSE
    /\ lost' = (lost \/ ~Sound)
    /\ phase' = [t \in Caller |-> "idle"]
    /\ pending' = [t \in Caller |-> <<>>]
    /\ file' = [t \in Caller |-> NoFile]
    /\ UNCHANGED <<disk, script, op, buffers>>

\* A disk that is not lost is opened as it is.
Boot ==
    /\ ~running /\ ~lost
    /\ running' = TRUE
    /\ UNCHANGED <<disk, script, control, buffers, file, lost, crashes>>

\* Formatting, before any thread runs; it starts over when the machine stops in it.
\* The names of the unused entries are what memory held.
Format ==
    /\ ~running
    /\ running' = TRUE /\ lost' = FALSE
    /\ freeMap' = System
    /\ \E n \in Name \cup {NoName} :
          directory' = [e \in Entry |-> [NoEntry EXCEPT !.name = n]]
    /\ header' = [header EXCEPT
          ![FreeMapSector] = [numBytes |-> SectorSize, dataSectors |-> <<MapSector>>],
          ![DirectorySector] = [numBytes |-> 2 * SectorSize, dataSectors |-> DirSectors]]
    /\ UNCHANGED <<data, overwritten, script, control, buffers, file, crashes>>

-----------------------------------------------------------------------------
Step(t) ==
    \/ Fetch(t) \/ Store(t)
    \/ Look(t) \/ NotFound(t) \/ Found(t) \/ CreateStores(t) \/ CreateFails(t)
    \/ Removes(t) \/ Opens(t)
    \/ ReadAt(t) \/ WriteAt(t) \/ WriteMerges(t) \/ Nothing(t) \/ Seek(t) \/ Closes(t) \/ Ends(t)

FilesNext == (\E t \in Caller : Step(t)) \/ Crash \/ Boot \/ Format
FilesSpec == FilesInit /\ [][FilesNext]_filesVars

-----------------------------------------------------------------------------
(* Properties                                                              *)

\* The sectors of directory and headers hold them.  No two files share a sector, and
\* none has one of the system; a sector that is marked belongs to a file that the
\* directory names, even where an operation or the machine stopped halfway (the order
\* of the stores in Create and Remove).
FilesApart ==
    ~lost => /\ directory \in [Entry -> DirectoryEntry] /\ header \in [Sector -> FileHeader]
             /\ Apart(Shown)
             /\ freeMap \subseteq Marked(Shown) \cup Marked(directory)

\* What the disk promises, sector by sector: files come and go as a whole, and a
\* write changes one file, and none in its size (NachosFilePromise).
UnitsOf(hdr) == [p \in 1..hdr.numBytes |->
    data[hdr.dataSectors[1 + (p - 1) \div SectorSize]][1 + ((p - 1) % SectorSize)]]
FileOf(dir, n) == header[DirFind(dir, n)]
ShownFiles ==
    IF lost THEN <<>>
    ELSE [n \in {Shown[e].name : e \in InUse(Shown)} |-> UnitsOf(FileOf(Shown, n))]

Promise == INSTANCE NachosFilePromise WITH files <- ShownFiles
RefinesPromise == Promise!PSpec
=============================================================================
