------------------------------ MODULE FigureFS ------------------------------
(***************************************************************************)
(* The file system of a figure server (FileSystem.c, Structures.c), on one *)
(* file of the host, disk.dat: a directory of 15 entries and a counter of  *)
(* the blocks never used in block 0, then blocks of 255 bytes of data and  *)
(* one byte that names the next block of the figure.                       *)
(*                                                                         *)
(* A step is what reaches the disk at once: stdio keeps a block in memory  *)
(* until the next seek, so a block and its next byte are written together, *)
(* after the next block was claimed.  The process may end between steps.   *)
(*                                                                         *)
(* The numbers are those of the code for Slots = 15 and LastBlock = 254:   *)
(* End is then 255, which serves as the end of a chain, as the value of    *)
(* the counter when no block is left, and as COUNTBLOCKS.                  *)
(***************************************************************************)
EXTENDS Naturals, FiniteSets

CONSTANTS
    Name,           \* figure names
    NoName,         \* an entry without a name
    MaxPieces,      \* bound: the blocks a figure needs
    Slots,          \* the number of directory entries
    LastBlock,      \* the last block the counter gives out
    Letters,        \* first letters of names, as bytes
    MaxCrashes      \* bound: how often the process ends within a write

Block == 1..LastBlock
End == LastBlock + 1
EXIT_FAILURE == 1

ASSUME SizeAssumption ==
    /\ MaxPieces \in Nat /\ MaxCrashes \in Nat
    /\ Slots \in Nat \ {0} /\ LastBlock \in Nat \ {0}
    /\ Letters \subseteq 1..End
    /\ NoName \notin Name

VARIABLES
    mounted,    \* does disk.dat exist?
    dir,        \* the entries: a name and its first block, 0 if free
    counter,    \* the counter of never-used blocks (byte 255 of block 0)
    disk,       \* the blocks: a piece of a figure and the next block
    size,       \* the blocks that disk.dat is long enough to hold
    writer,     \* the writeFile in progress
    crashes,    \* how often the process ended within a write
    full,       \* history: the directory or the counter ran out
    stored      \* history: pairs of a name and the length of its source for
                \* which writeFile returned EXIT_SUCCESS

volume == <<dir, counter, disk, size>>
vars == <<mounted, volume, writer, crashes, full, stored>>

\* The data of a block: the piece k of the figure n, nothing yet, or a piece
\* with a directory entry written over it.
Piece(n, k) == <<"piece", n, k>>
Blank == <<"blank">>
Junk == <<"junk">>

Idle == [pc |-> "idle", name |-> NoName, pieces |-> 0, slot |-> 0,
         block |-> 1, next |-> 1, piece |-> 0]

IsFirst(x, S) == x \in S /\ \A y \in S : x <= y

-----------------------------------------------------------------------------
(* mountSystem: the directory is written if there is no disk yet.          *)

mountSystem ==
    /\ ~mounted
    /\ mounted' = TRUE
    /\ counter' = 1
    /\ UNCHANGED <<dir, disk, size, writer, crashes, full, stored>>

\* Mutant: only the first entry is compared.
existFile_First(n) == dir[0].name = n

\* existFile: the scan compares the entries in turn, but an index of 255, after
\* the last entry, counts as the end of the directory.
existFile(n) == \E j \in 0..(Slots - 2) : dir[j].name = n

\* Mutant: the blocks that end a chain count as free.
Free_Ended == {b \in 1..size : disk[b].next \in {0, End}}

\* checkBlockAvaible takes the first block in the file whose next byte is 0; the
\* scan ends with the file.
Free == {b \in 1..size : disk[b].next = 0}

OutOfBlocks == Free = {} /\ counter = End

\* Mutant: the counter is not written back.
checkBlockAvaible_Unsaved(b) ==
    \/ /\ Free # {}
       /\ IsFirst(b, Free)
       /\ disk' = [disk EXCEPT ![b].next = End]
       /\ UNCHANGED counter
    \/ /\ Free = {} /\ counter # End
       /\ b = counter
       /\ UNCHANGED <<disk, counter>>

\* Else it takes the counter; when that has run out it returns EXIT_FAILURE,
\* which its callers take for the block 1.
checkBlockAvaible(b) ==
    \/ /\ Free # {}
       /\ IsFirst(b, Free)
       /\ disk' = [disk EXCEPT ![b].next = End]
       /\ UNCHANGED counter
    \/ /\ Free = {} /\ counter # End
       /\ b = counter
       /\ counter' = counter + 1
       /\ UNCHANGED disk
    \/ /\ OutOfBlocks
       /\ b = EXIT_FAILURE
       /\ UNCHANGED <<disk, counter>>

-----------------------------------------------------------------------------
(* writeFile.  The source has `p` pieces of 255 bytes, the last of them    *)
(* short; none if it cannot be opened.                                     *)

FreeSlots == {j \in 0..(Slots - 1) : dir[j].first = 0}

\* The loop of allocateInDirectory runs one entry too far: with no free entry it
\* stops after the place of a further one, in the counter and the block 1.
IsEntryFor(j) == IF FreeSlots = {} THEN j = Slots ELSE IsFirst(j, FreeSlots)

NewEntry(n, p, j, b) ==
    [pc |-> "entry", name |-> n, pieces |-> p, slot |-> j, block |-> b, next |-> b,
     piece |-> 0]

\* Mutant: the block is claimed before the name is looked up.
allocateInDirectory_ClaimFirst(n, p) ==
    /\ mounted /\ writer.pc = "idle"
    /\ \E j \in 0..Slots, b \in Block :
         /\ IsEntryFor(j)
         /\ checkBlockAvaible(b)
         /\ writer' = IF existFile(n) THEN writer ELSE NewEntry(n, p, j, b)
         /\ full' = (full \/ OutOfBlocks \/ j >= Slots - 1)
    /\ UNCHANGED <<mounted, dir, size, crashes, stored>>

\* writeFile: the name is new.  allocateInDirectory: an entry is looked for and
\* the first block is claimed.
allocateInDirectory(n, p) ==
    /\ mounted /\ writer.pc = "idle"
    /\ ~existFile(n)
    /\ \E j \in 0..Slots, b \in Block :
         /\ IsEntryFor(j)
         /\ checkBlockAvaible(b)
         /\ writer' = NewEntry(n, p, j, b)
         /\ full' = (full \/ OutOfBlocks \/ j >= Slots - 1)
    /\ UNCHANGED <<mounted, dir, size, crashes, stored>>

\* allocateInDirectory: the number of the first block, the last byte of the entry.
writeFirstBlock ==
    /\ writer.pc = "entry"
    /\ IF writer.slot < Slots
       THEN dir' = [dir EXCEPT ![writer.slot].first = writer.block] /\ UNCHANGED disk
       ELSE disk' = [disk EXCEPT ![1].data = Junk] /\ UNCHANGED dir
    /\ writer' = [writer EXCEPT !.pc = "name"]
    /\ UNCHANGED <<mounted, counter, size, crashes, full, stored>>

\* allocateInDirectory: the seek back has flushed that byte, the name is written
\* when the file is closed.  A source that cannot be opened ends the write here.
writeName ==
    /\ writer.pc = "name"
    /\ IF writer.slot < Slots
       THEN dir' = [dir EXCEPT ![writer.slot].name = writer.name] /\ UNCHANGED <<counter, disk>>
       ELSE /\ counter' \in Letters
            /\ disk' = [disk EXCEPT ![1].data = Junk]
            /\ UNCHANGED dir
    /\ writer' = IF writer.pieces = 0 THEN Idle ELSE [writer EXCEPT !.pc = "content"]
    /\ UNCHANGED <<mounted, size, crashes, full, stored>>

\* allocateContent: the piece is not the last, so another block is claimed.
claimNextBlock ==
    /\ writer.pc = "content"
    /\ writer.piece + 1 < writer.pieces
    /\ \E b \in Block :
         checkBlockAvaible(b) /\ writer' = [writer EXCEPT !.pc = "flush", !.next = b]
    /\ full' = (full \/ OutOfBlocks)
    /\ UNCHANGED <<mounted, dir, size, crashes, stored>>

Larger(m, n) == IF m > n THEN m ELSE n

\* fwrite of the data and of the next byte, as they reach the disk.
WriteBlock(next) ==
    /\ disk' = [disk EXCEPT ![writer.block] =
                  [data |-> Piece(writer.name, writer.piece), next |-> next]]
    /\ size' = Larger(size, writer.block)

\* allocateContent: the seek to the next block flushes this one.  The loop gives up
\* after COUNTBLOCKS blocks.
flushBlock ==
    /\ writer.pc = "flush"
    /\ WriteBlock(writer.next)
    /\ writer' = IF writer.piece + 1 = End
                 THEN Idle
                 ELSE [writer EXCEPT !.pc = "content", !.block = writer.next,
                                     !.piece = writer.piece + 1]
    /\ UNCHANGED <<mounted, dir, counter, crashes, full, stored>>

\* allocateContent: the last piece; EXIT_SUCCESS.
writeLastBlock ==
    /\ writer.pc = "content"
    /\ writer.piece + 1 = writer.pieces
    /\ WriteBlock(End)
    /\ writer' = Idle
    /\ stored' = stored \cup {<<writer.name, writer.pieces>>}
    /\ UNCHANGED <<mounted, dir, counter, crashes, full>>

\* The process ends within a write; what has reached the disk stays.
Crash ==
    /\ writer.pc # "idle"
    /\ crashes < MaxCrashes
    /\ crashes' = crashes + 1
    /\ writer' = Idle
    /\ UNCHANGED <<mounted, volume, full, stored>>

-----------------------------------------------------------------------------
Init ==
    /\ mounted = FALSE
    /\ dir = [j \in 0..(Slots - 1) |-> [name |-> NoName, first |-> 0]]
    /\ counter = 0
    /\ disk = [b \in Block |-> [data |-> Blank, next |-> 0]]
    /\ size = 0
    /\ writer = Idle
    /\ crashes = 0
    /\ full = FALSE
    /\ stored = {}

Next ==
    \/ mountSystem
    \/ \E n \in Name, p \in 0..MaxPieces : allocateInDirectory(n, p)
    \/ writeFirstBlock \/ writeName
    \/ claimNextBlock \/ flushBlock \/ writeLastBlock
    \/ Crash

Spec == Init /\ [][Next]_vars

-----------------------------------------------------------------------------
(* Reading: what existASCII and extractBlock make of the disk.             *)

\* The blocks of a figure in order: extractBlock follows the next bytes from the
\* first block to the end of the chain.
IsChain(chain, first, p) ==
    /\ chain[0] = first
    /\ \A k \in 0..(p - 1) :
         disk[chain[k]].next = IF k = p - 1 THEN End ELSE chain[k + 1]

\* The entry j and the chain are those of the figure: its p pieces, in order.
WholeAt(n, p, j, chain) ==
    /\ dir[j].name = n
    /\ IsChain(chain, dir[j].first, p)
    /\ \A k \in 0..(p - 1) : disk[chain[k]].data = Piece(n, k)

\* The figure is found and read whole, and no more than it.
Whole(n, p) ==
    \E j \in 0..(Slots - 2) : \E chain \in [0..(p - 1) -> 1..size] : WholeAt(n, p, j, chain)

\* A set of blocks that the chains of the entries do not leave.
Closed(S) ==
    /\ \A j \in 0..(Slots - 1) : dir[j].first \in Block => dir[j].first \in S
    /\ \A c \in S : disk[c].next \in Block => disk[c].next \in S

\* The blocks that the chains of the entries visit.
Visited == {b \in Block : \A S \in SUBSET Block : Closed(S) => b \in S}

-----------------------------------------------------------------------------
(* Properties                                                              *)

Number == 0..End

Data == {Blank, Junk} \cup {Piece(n, k) : n \in Name, k \in 0..MaxPieces}

Writer == [pc : {"idle", "entry", "name", "content", "flush"},
           name : Name \cup {NoName}, pieces : 0..MaxPieces, slot : 0..Slots,
           block : Block, next : Block, piece : 0..MaxPieces]

\* The counter is ahead of the file, so what it gives out was never written.
CounterAhead == ~full => IF mounted THEN size < counter ELSE size = 0

\* Every variable has its type, the writer does not run past the source, and the
\* counter is ahead of the file until the room runs out.
TypeOK ==
    /\ mounted \in BOOLEAN /\ full \in BOOLEAN
    /\ dir \in [0..(Slots - 1) -> [name : Name \cup {NoName}, first : Number]]
    /\ counter \in Number
    /\ disk \in [Block -> [data : Data, next : Number]]
    /\ size \in 0..LastBlock
    /\ writer \in Writer
    /\ writer.pc # "idle" => mounted /\ writer.name \in Name
    /\ writer.pc \in {"entry", "name"} => writer.piece = 0
    /\ writer.pc = "content" => writer.piece < writer.pieces
    /\ writer.pc = "flush" => writer.piece + 1 < writer.pieces
    /\ crashes \in 0..MaxCrashes
    /\ stored \subseteq Name \X (1..MaxPieces)
    /\ CounterAhead

\* FileSystem.h: writeFile returns EXIT_SUCCESS if the file is written.  So a figure
\* it returned EXIT_SUCCESS for is found and read whole, from then on.
WrittenFiguresStay == \A np \in stored : Whole(np[1], np[2])

\* That is so as long as neither the directory nor the disk has run out of room,
\* whatever else is written, whenever the process ends and is started again.
WrittenFiguresStayWithRoom == ~full => WrittenFiguresStay

\* The steps of writeFile and the crashes between them look like figures that appear
\* whole and never change, until the room runs out.
Store == INSTANCE FigureStore WITH
    figures <- {np \in Name \X (1..MaxPieces) : Whole(np[1], np[2])}

RefinesStore == Store!SSpec

\* A block in use that no entry leads to is never given out again.  Only a crash
\* can lose one, and one crash loses one at most.
Lost == {b \in 1..size : disk[b].next # 0} \ Visited

CrashLosesOneBlock ==
    writer.pc = "idle" /\ ~full => Cardinality(Lost) <= crashes

-----------------------------------------------------------------------------
(* The inductive invariant behind WrittenFiguresStayWithRoom.              *)

\* The blocks claimed by the writer and not written yet.
Pending ==
    (IF writer.pc = "idle" THEN {} ELSE {writer.block})
        \cup (IF writer.pc = "flush" THEN {writer.next} ELSE {})

\* Nobody else can be given such a block: it is marked, or past the end of the file
\* and behind the counter.
PendingClaimed ==
    /\ \A b \in Pending : b < counter /\ (disk[b].next # 0 \/ b > size)
    /\ writer.pc = "flush" =>
         /\ writer.next # writer.block
         /\ disk[writer.next].next # 0 \/ writer.next > writer.block

\* The entry of the writer is below the last one, and in use only by the writer.
EntryTaken ==
    /\ writer.pc # "idle" => writer.slot < Slots - 1
    /\ writer.pc = "entry" => dir[writer.slot].first = 0
    /\ writer.pc = "name" => dir[writer.slot].first = writer.block

\* The pieces written so far form a chain that leads to the block to be written.
WrittenSoFar(chain) ==
    /\ chain[0] = dir[writer.slot].first
    /\ chain[writer.piece] = writer.block
    /\ \A k \in 0..(writer.piece - 1) :
         /\ chain[k] <= size /\ chain[k] \notin Pending
         /\ disk[chain[k]] = [data |-> Piece(writer.name, k), next |-> chain[k + 1]]

InProgress ==
    writer.pc \in {"content", "flush"} =>
        /\ dir[writer.slot].name = writer.name
        /\ \E chain \in [0..writer.piece -> Block] : WrittenSoFar(chain)

\* A whole figure that does not use the blocks of the writer.
Apart(n, p) ==
    \E j \in 0..(Slots - 2) : \E chain \in [0..(p - 1) -> 1..size] :
        /\ WholeAt(n, p, j, chain)
        /\ \A k \in 0..(p - 1) : chain[k] \notin Pending

StoredApart == \A np \in stored : Apart(np[1], np[2])

VolumeInv == ~full => PendingClaimed /\ EntryTaken /\ InProgress /\ StoredApart

-----------------------------------------------------------------------------
(* What RefinesStore needs besides: nothing is whole that was not stored.  *)

\* A block that is free, or claimed and not written yet, holds no piece; the others
\* lie within the file.
UnwrittenBlank ==
    /\ \A b \in Block : IF disk[b].next = 0 THEN disk[b].data = Blank ELSE b <= size
    /\ \A b \in Pending : disk[b].data = Blank

\* A free entry has no name, nor has one whose name is still to be written.
FreeUnnamed ==
    /\ \A j \in 0..(Slots - 1) : dir[j].first = 0 => dir[j].name = NoName
    /\ writer.pc = "name" => dir[writer.slot].name = NoName

\* No figure with the name of the writer is stored.
NameNew ==
    writer.pc # "idle" => \A q \in 1..MaxPieces : <<writer.name, q>> \notin stored

OnlyStored == \A n \in Name, p \in 1..MaxPieces : Whole(n, p) => <<n, p>> \in stored

FiguresInv == ~full => UnwrittenBlank /\ FreeUnnamed /\ NameNew /\ OnlyStored

-----------------------------------------------------------------------------
(* The inductive invariant behind CrashLosesOneBlock.                      *)

\* The block that a write has claimed and no entry leads to yet.
InFlight ==
    (IF writer.pc = "entry" THEN {writer.block} ELSE {})
        \cup (IF writer.pc = "flush" THEN {writer.next} ELSE {})

LinkedInv == ~full =>
    /\ writer.pc \in {"name", "content", "flush"} => writer.block \in Visited
    /\ \A b \in Pending : disk[b].next \in {0, End}
    /\ Cardinality(Lost \ InFlight) <= crashes
=============================================================================
