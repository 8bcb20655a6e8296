--------------------------- MODULE FigureFSProofs ---------------------------
(***************************************************************************)
(* Theorems about FigureFS, for every size of the directory and the disk,  *)
(* every set of names and any number of crashes.                           *)
(***************************************************************************)
EXTENDS FigureFS, FiniteSetTheorems, TLAPS

USE DEF Block, End, Number, EXIT_FAILURE

-----------------------------------------------------------------------------
(* Claiming a block                                                        *)

\* A block is in use if its next byte says so, or if the counter has given it out
\* and nobody wrote it yet.
InUse(b) == b < counter /\ (disk[b].next # 0 \/ b > size)

\* A claim changes no block in use, gives out none of them, and puts the one it
\* gives out in use.
LEMMA Claim ==
  ASSUME TypeOK, mounted, ~full, ~OutOfBlocks, NEW b \in Block, checkBlockAvaible(b),
         size' = size
  PROVE  /\ counter' \in Number /\ counter <= counter' /\ size < counter'
         /\ disk' \in [Block -> [data : Data, next : Number]]
         /\ InUse(b)'
         /\ \A c \in Block : InUse(c) => c # b /\ disk'[c] = disk[c] /\ InUse(c)'
         /\ \A c \in Block : InUse(c) => disk'[b].next # 0 \/ b > c
  <1> USE SizeAssumption DEF InUse
  <1>1. /\ counter \in Number /\ size \in 0..LastBlock /\ size < counter
        /\ disk \in [Block -> [data : Data, next : Number]]
    BY DEF TypeOK, CounterAhead
  <1>2. CASE /\ IsFirst(b, Free)
             /\ disk' = [disk EXCEPT ![b].next = End]
             /\ UNCHANGED counter
    <2>1. disk[b].next = 0 /\ b <= size /\ b \in Nat
      BY <1>1, <1>2 DEF IsFirst, Free
    <2>2. disk' \in [Block -> [data : Data, next : Number]] /\ disk'[b].next = End
      <3> DEFINE marked == [disk[b] EXCEPT !.next = End]
      <3>1. disk[b] \in [data : Data, next : Number] /\ End \in Number
        BY <1>1
      <3>2. marked \in [data : Data, next : Number] /\ marked.next = End
        BY <3>1
      <3>3. disk' = [disk EXCEPT ![b] = marked]
        BY <1>2
      <3> HIDE DEF marked
      <3>4. QED BY <1>1, <3>2, <3>3
    <2>3. \A c \in Block : c # b => disk'[c] = disk[c]
      BY <1>1, <1>2
    <2>4. InUse(b)'
      BY <1>1, <1>2, <2>1, <2>2
    <2>5. \A c \in Block : InUse(c) => c # b /\ disk'[c] = disk[c] /\ InUse(c)'
      BY <1>1, <1>2, <2>1, <2>3
    <2>6. disk'[b].next # 0
      BY <2>2
    <2>7. QED BY <1>1, <1>2, <2>2, <2>4, <2>5, <2>6
  <1>3. CASE /\ counter # End
             /\ b = counter
             /\ counter' = counter + 1
             /\ UNCHANGED disk
    BY <1>1, <1>3
  <1>4. QED BY <1>2, <1>3 DEF checkBlockAvaible, OutOfBlocks

-----------------------------------------------------------------------------
(* Type correctness                                                        *)

DiskType == [Block -> [data : Data, next : Number]]

LEMMA MarkTyped ==
  ASSUME disk \in DiskType, NEW b \in Block, NEW next \in Number,
         disk' = [disk EXCEPT ![b].next = next]
  PROVE  disk' \in DiskType
  <1> DEFINE marked == [disk[b] EXCEPT !.next = next]
  <1>1. marked \in [data : Data, next : Number]
    <2>1. disk[b] \in [data : Data, next : Number]
      BY DEF DiskType
    <2>2. QED BY <2>1
  <1>2. disk' = [disk EXCEPT ![b] = marked]
    OBVIOUS
  <1> HIDE DEF marked
  <1>3. QED BY <1>1, <1>2 DEF DiskType

\* A directory entry beyond the last one is written over the data of block 1.
LEMMA JunkTyped ==
  ASSUME disk \in DiskType, disk' = [disk EXCEPT ![1].data = Junk]
  PROVE  disk' \in DiskType
  <1> DEFINE marked == [disk[1] EXCEPT !.data = Junk]
  <1>1. 1 \in Block
    BY SizeAssumption
  <1>2. marked \in [data : Data, next : Number]
    <2>1. disk[1] \in [data : Data, next : Number]
      BY <1>1 DEF DiskType
    <2>2. QED BY <2>1 DEF Data
  <1>3. disk' = [disk EXCEPT ![1] = marked]
    OBVIOUS
  <1> HIDE DEF marked
  <1>4. QED BY <1>1, <1>2, <1>3 DEF DiskType

LEMMA ClaimTyped ==
  ASSUME TypeOK, NEW b \in Block, checkBlockAvaible(b)
  PROVE  counter' \in Number /\ disk' \in DiskType
  <1>1. counter \in Number /\ disk \in DiskType
    BY DEF TypeOK, DiskType
  <1>2. CASE disk' = [disk EXCEPT ![b].next = End] /\ UNCHANGED counter
    <2>1. End \in Number
      BY SizeAssumption
    <2> HIDE DEF End, Number
    <2>2. QED BY <1>1, <1>2, <2>1, MarkTyped
  <1>3. CASE counter # End /\ counter' = counter + 1 /\ UNCHANGED disk
    BY <1>1, <1>3, SizeAssumption
  <1>4. CASE UNCHANGED <<disk, counter>>
    BY <1>1, <1>4
  <1>5. QED BY <1>2, <1>3, <1>4 DEF checkBlockAvaible

LEMMA WriteTyped ==
  ASSUME TypeOK, writer.pc # "idle", NEW next \in Number, WriteBlock(next)
  PROVE  /\ disk' \in DiskType /\ size' \in 0..LastBlock
         /\ size' = IF size > writer.block THEN size ELSE writer.block
  <1>1. /\ disk \in DiskType /\ size \in 0..LastBlock /\ writer.block \in Block
        /\ writer.name \in Name /\ writer.piece \in 0..MaxPieces
    BY DEF TypeOK, DiskType, Writer
  <1>2. Piece(writer.name, writer.piece) \in Data
    BY <1>1 DEF Data
  <1>3. disk' \in DiskType
    BY <1>1, <1>2 DEF WriteBlock, DiskType
  <1>4. size' = IF size > writer.block THEN size ELSE writer.block
    BY DEF WriteBlock, Larger
  <1>5. QED BY <1>1, <1>3, <1>4

LEMMA IdleTyped == Idle \in Writer /\ Idle.pc = "idle"
  BY SizeAssumption DEF Idle, Writer

LEMMA TypeStep ==
  TypeOK /\ VolumeInv /\ [Next]_vars => TypeOK'
  <1> SUFFICES ASSUME TypeOK, VolumeInv, [Next]_vars PROVE TypeOK'
    OBVIOUS
  <1>1. /\ disk \in DiskType /\ counter \in Number /\ size \in 0..LastBlock
        /\ writer \in Writer /\ mounted \in BOOLEAN /\ full \in BOOLEAN
    BY DEF TypeOK, DiskType
  <1>2. CASE UNCHANGED vars
    BY <1>2 DEF vars, volume, TypeOK, CounterAhead
  <1>3. CASE mountSystem
    BY <1>3, IdleTyped, SizeAssumption DEF mountSystem, TypeOK, CounterAhead
  <1>4. ASSUME NEW n \in Name, NEW p \in 0..MaxPieces, allocateInDirectory(n, p)
        PROVE  TypeOK'
    <2>1. PICK j \in 0..Slots, b \in Block :
            /\ checkBlockAvaible(b)
            /\ writer' = NewEntry(n, p, j, b)
            /\ full' = (full \/ OutOfBlocks \/ j >= Slots - 1)
      BY <1>4 DEF allocateInDirectory
    <2>2. writer' \in Writer /\ writer'.pc = "entry" /\ writer'.name = n /\ writer'.piece = 0
      BY <2>1, SizeAssumption DEF NewEntry, Writer
    <2>3. counter' \in Number /\ disk' \in DiskType
      BY <2>1, ClaimTyped
    <2>4. full' \in BOOLEAN
      BY <2>1
    <2>5. CounterAhead'
      <3>1. CASE full'
        BY <3>1 DEF CounterAhead
      <3>2. CASE ~full'
        <4>1. ~full /\ ~OutOfBlocks /\ mounted /\ mounted' /\ size' = size
          BY <1>4, <2>1, <3>2 DEF allocateInDirectory
        <4>2. size < counter'
          BY <2>1, <4>1, Claim
        <4>3. QED BY <4>1, <4>2 DEF CounterAhead
      <3>3. QED BY <3>1, <3>2
    <2>6. QED
      BY <1>4, <2>2, <2>3, <2>4, <2>5 DEF allocateInDirectory, TypeOK, DiskType
  <1>5. CASE writeFirstBlock
    <2>1. writer' \in Writer /\ writer'.pc = "name" /\ writer'.name = writer.name
          /\ writer'.piece = writer.piece
      BY <1>1, <1>5 DEF writeFirstBlock, Writer
    <2>2. disk' \in DiskType
      BY <1>1, <1>5, JunkTyped DEF writeFirstBlock
    <2>3. dir' \in [0..(Slots - 1) -> [name : Name \cup {NoName}, first : Number]]
      <3> DEFINE entry == [dir[writer.slot] EXCEPT !.first = writer.block]
      <3>1. CASE writer.slot < Slots
        <4>1. writer.slot \in 0..(Slots - 1) /\ writer.block \in Number
          BY <1>1, <3>1, SizeAssumption DEF Writer
        <4>2. entry \in [name : Name \cup {NoName}, first : Number]
          <5>1. dir[writer.slot] \in [name : Name \cup {NoName}, first : Number]
            BY <4>1 DEF TypeOK
          <5>2. QED BY <4>1, <5>1
        <4>3. dir' = [dir EXCEPT ![writer.slot] = entry]
          BY <1>5, <3>1 DEF writeFirstBlock
        <4> HIDE DEF entry
        <4>4. QED BY <4>1, <4>2, <4>3 DEF TypeOK
      <3>2. CASE ~(writer.slot < Slots)
        BY <1>5, <3>2 DEF writeFirstBlock, TypeOK
      <3>3. QED BY <3>1, <3>2
    <2>4. QED
      BY <1>5, <2>1, <2>2, <2>3 DEF writeFirstBlock, TypeOK, CounterAhead, DiskType
  <1>6. CASE writeName
    <2>1. writer' \in Writer
      BY <1>1, <1>6, IdleTyped DEF writeName, Writer
    <2>2. writer'.pc = "idle" \/ /\ writer'.pc = "content" /\ writer'.name = writer.name
                                 /\ writer'.piece < writer'.pieces
      <3>1. CASE writer.pieces = 0
        BY <1>6, <3>1, IdleTyped DEF writeName
      <3>2. CASE writer.pieces # 0
        <4>1. writer' = [writer EXCEPT !.pc = "content"] /\ writer.piece = 0
          BY <1>6, <3>2 DEF writeName, TypeOK
        <4>2. writer.pieces \in Nat
          BY <1>1, SizeAssumption DEF Writer
        <4>3. QED BY <1>1, <3>2, <4>1, <4>2 DEF Writer
      <3>3. QED BY <3>1, <3>2
    <2>3. disk' \in DiskType
      BY <1>1, <1>6, JunkTyped DEF writeName
    <2>4. counter' \in Number /\ (~full => counter' = counter)
      <3>1. ~full => writer.slot < Slots
        BY <1>1, <1>6, SizeAssumption DEF writeName, VolumeInv, EntryTaken, Writer
      <3>2. QED BY <1>1, <1>6, <3>1, SizeAssumption DEF writeName
    <2>5. dir' \in [0..(Slots - 1) -> [name : Name \cup {NoName}, first : Number]]
      <3> DEFINE entry == [dir[writer.slot] EXCEPT !.name = writer.name]
      <3>1. CASE writer.slot < Slots
        <4>1. writer.slot \in 0..(Slots - 1) /\ writer.name \in Name \cup {NoName}
          BY <1>1, <3>1, SizeAssumption DEF Writer
        <4>2. entry \in [name : Name \cup {NoName}, first : Number]
          <5>1. dir[writer.slot] \in [name : Name \cup {NoName}, first : Number]
            BY <4>1 DEF TypeOK
          <5>2. QED BY <4>1, <5>1
        <4>3. dir' = [dir EXCEPT ![writer.slot] = entry]
          BY <1>6, <3>1 DEF writeName
        <4> HIDE DEF entry
        <4>4. QED BY <4>1, <4>2, <4>3 DEF TypeOK
      <3>2. CASE ~(writer.slot < Slots)
        BY <1>6, <3>2 DEF writeName, TypeOK
      <3>3. QED BY <3>1, <3>2
    <2>6. QED
      BY <1>6, <2>1, <2>2, <2>3, <2>4, <2>5 DEF writeName, TypeOK, CounterAhead, DiskType
  <1>7. CASE claimNextBlock
    <2>1. PICK b \in Block :
            checkBlockAvaible(b) /\ writer' = [writer EXCEPT !.pc = "flush", !.next = b]
      BY <1>7 DEF claimNextBlock
    <2>2. /\ writer' \in Writer /\ writer'.pc = "flush" /\ writer'.name = writer.name
          /\ writer'.piece = writer.piece /\ writer'.pieces = writer.pieces
      BY <1>1, <2>1 DEF Writer
    <2>3. counter' \in Number /\ disk' \in DiskType
      BY <2>1, ClaimTyped
    <2>4. CounterAhead'
      <3>1. CASE ~full'
        <4>1. ~full /\ ~OutOfBlocks /\ mounted /\ mounted' /\ size' = size
          BY <1>7, <3>1 DEF claimNextBlock, TypeOK
        <4>2. size < counter'
          BY <2>1, <4>1, Claim
        <4>3. QED BY <4>1, <4>2 DEF CounterAhead
      <3>2. QED BY <3>1 DEF CounterAhead
    <2>5. QED
      BY <1>7, <2>2, <2>3, <2>4 DEF claimNextBlock, TypeOK, DiskType
  <1>8. CASE flushBlock
    <2>1. writer.block < counter \/ full
      BY <1>8 DEF flushBlock, VolumeInv, PendingClaimed, Pending
    <2>2. /\ disk' \in DiskType /\ size' \in 0..LastBlock
          /\ size' = IF size > writer.block THEN size ELSE writer.block
      <3>1. writer.next \in Number /\ writer.pc # "idle" /\ WriteBlock(writer.next)
        BY <1>1, <1>8, SizeAssumption DEF flushBlock, Writer
      <3>2. QED BY <3>1, WriteTyped
    <2>3. writer' \in Writer /\ (writer'.pc = "idle" \/
            /\ writer'.pc = "content" /\ writer'.name = writer.name
            /\ writer'.piece < writer'.pieces)
      <3>1. CASE writer' = Idle
        BY <3>1, IdleTyped
      <3>2. CASE writer' = [writer EXCEPT !.pc = "content", !.block = writer.next,
                                          !.piece = writer.piece + 1]
        <4>1. writer.piece + 1 < writer.pieces
          BY <1>8 DEF flushBlock, TypeOK
        <4>2. writer.piece + 1 \in 0..MaxPieces
          BY <1>1, <4>1, SizeAssumption DEF Writer
        <4>3. QED BY <1>1, <3>2, <4>1, <4>2 DEF Writer
      <3>3. QED BY <1>8, <3>1, <3>2 DEF flushBlock
    <2>4. CounterAhead'
      BY <1>1, <1>8, <2>1, <2>2 DEF flushBlock, CounterAhead, TypeOK, Writer
    <2>5. QED
      BY <1>8, <2>2, <2>3, <2>4 DEF flushBlock, TypeOK, DiskType
  <1>9. CASE writeLastBlock
    <2>1. writer.block < counter \/ full
      BY <1>9 DEF writeLastBlock, VolumeInv, PendingClaimed, Pending
    <2>2. /\ disk' \in DiskType /\ size' \in 0..LastBlock
          /\ size' = IF size > writer.block THEN size ELSE writer.block
      <3>1. End \in Number
        BY SizeAssumption
      <3>2. QED BY <1>9, <3>1, WriteTyped DEF writeLastBlock
    <2>3. stored' \subseteq Name \X (1..MaxPieces)
      <3>1. writer.name \in Name /\ writer.pieces \in 1..MaxPieces
        BY <1>1, <1>9, SizeAssumption DEF writeLastBlock, TypeOK, Writer
      <3>2. QED BY <1>9, <3>1 DEF writeLastBlock, TypeOK
    <2>4. CounterAhead'
      BY <1>1, <1>9, <2>1, <2>2 DEF writeLastBlock, CounterAhead, TypeOK, Writer
    <2>5. QED
      BY <1>9, <2>2, <2>3, <2>4, IdleTyped DEF writeLastBlock, TypeOK, DiskType
  <1>10. CASE Crash
    BY <1>10, IdleTyped, SizeAssumption DEF Crash, volume, TypeOK, CounterAhead
  <1>11. QED
    BY <1>2, <1>3, <1>4, <1>5, <1>6, <1>7, <1>8, <1>9, <1>10 DEF Next

-----------------------------------------------------------------------------
(* Written figures stay                                                    *)

\* The block of a whole figure is in use.
LEMMA ChainInUse ==
  ASSUME TypeOK, mounted, ~full, NEW p \in 1..MaxPieces, NEW n, NEW j \in 0..(Slots - 2),
         NEW chain \in [0..(p - 1) -> 1..size], WholeAt(n, p, j, chain),
         NEW k \in 0..(p - 1)
  PROVE  chain[k] \in Block /\ disk[chain[k]].next # 0 /\ InUse(chain[k])
  <1> USE SizeAssumption
  <1>1. /\ size \in 0..LastBlock /\ counter \in Number /\ size < counter
        /\ p \in Nat
    BY DEF TypeOK, CounterAhead
  <1>2. chain[k] \in 1..size
    OBVIOUS
  <1>3. disk[chain[k]].next = IF k = p - 1 THEN End ELSE chain[k + 1]
    BY DEF WholeAt, IsChain
  <1>4. k # p - 1 => chain[k + 1] \in 1..size
    BY <1>1
  <1>5. disk[chain[k]].next # 0
    BY <1>1, <1>3, <1>4
  <1>6. QED BY <1>1, <1>2, <1>5 DEF InUse

\* A figure apart from the writer stays so in a step that leaves its entry and the
\* blocks in use alone, those of the writer excepted.
LEMMA ApartStays ==
  ASSUME TypeOK, mounted, ~full, NEW n, NEW p \in 1..MaxPieces, Apart(n, p),
         size' \in Nat, size <= size',
         \A j \in 0..(Slots - 2) : dir'[j] = dir[j] \/ dir[j].first \in {0} \cup Pending,
         \A c \in Block : InUse(c) /\ c \notin Pending
                            => disk'[c] = disk[c] /\ c \notin Pending'
  PROVE  Apart(n, p)'
  <1> USE SizeAssumption
  <1>1. PICK j \in 0..(Slots - 2), chain \in [0..(p - 1) -> 1..size] :
          /\ WholeAt(n, p, j, chain)
          /\ \A k \in 0..(p - 1) : chain[k] \notin Pending
    BY DEF Apart
  <1>2. \A k \in 0..(p - 1) : chain[k] \in Block /\ InUse(chain[k])
    BY <1>1, ChainInUse
  <1>3. \A k \in 0..(p - 1) : disk'[chain[k]] = disk[chain[k]] /\ chain[k] \notin Pending'
    BY <1>1, <1>2
  <1>4. dir'[j] = dir[j]
    <2>1. 0 \in 0..(p - 1) /\ chain[0] = dir[j].first
      BY <1>1 DEF WholeAt, IsChain
    <2>2. chain[0] \in Block /\ chain[0] \notin Pending
      BY <1>1, <1>2, <2>1
    <2>3. QED BY <2>1, <2>2
  <1>5. chain \in [0..(p - 1) -> 1..size']
    <2>1. size \in Nat
      BY DEF TypeOK
    <2>2. 1..size \subseteq 1..size'
      BY <2>1
    <2>3. QED BY <2>2
  <1>6. WholeAt(n, p, j, chain)'
    BY <1>1, <1>3, <1>4 DEF WholeAt, IsChain
  <1>7. QED BY <1>3, <1>5, <1>6 DEF Apart

LEMMA FullStays == full /\ [Next]_vars => full'
  BY DEF Next, vars, volume, mountSystem, allocateInDirectory, writeFirstBlock,
         writeName, claimNextBlock, flushBlock, writeLastBlock, Crash

LEMMA VolumeStep ==
  TypeOK /\ VolumeInv /\ [Next]_vars => VolumeInv'
  <1> USE SizeAssumption
  <1> SUFFICES ASSUME TypeOK, VolumeInv, [Next]_vars, ~full, ~full' PROVE VolumeInv'
    BY FullStays DEF VolumeInv
  <1>1. /\ disk \in DiskType /\ counter \in Number /\ size \in 0..LastBlock
        /\ dir \in [0..(Slots - 1) -> [name : Name \cup {NoName}, first : Number]]
        /\ writer \in Writer /\ (writer.pc # "idle" => mounted)
    BY DEF TypeOK, DiskType
  <1>2. PendingClaimed /\ EntryTaken /\ InProgress /\ StoredApart
    BY DEF VolumeInv
  <1>3. \A np \in stored : np[2] \in 1..MaxPieces /\ Apart(np[1], np[2])
    BY <1>2 DEF StoredApart, TypeOK
  <1>4. ASSUME UNCHANGED <<dir, disk, size, stored>>, Pending' \subseteq Pending
        PROVE  StoredApart'
    <2>1. ASSUME NEW np \in stored PROVE Apart(np[1], np[2])'
      <3>1. PICK j \in 0..(Slots - 2), chain \in [0..(np[2] - 1) -> 1..size] :
              /\ WholeAt(np[1], np[2], j, chain)
              /\ \A k \in 0..(np[2] - 1) : chain[k] \notin Pending
        BY <1>3 DEF Apart
      <3>2. WholeAt(np[1], np[2], j, chain)'
        BY <1>4, <3>1 DEF WholeAt, IsChain
      <3>3. \A k \in 0..(np[2] - 1) : chain[k] \notin Pending'
        BY <1>4, <3>1
      <3>4. QED BY <1>4, <3>2, <3>3 DEF Apart
    <2>2. QED BY <1>4, <2>1 DEF StoredApart
  <1>5. CASE UNCHANGED vars
    <2>1. UNCHANGED <<dir, counter, disk, size, writer, stored>>
      BY <1>5 DEF vars, volume
    <2>2. Pending' = Pending
      BY <2>1 DEF Pending
    <2>3. PendingClaimed' /\ EntryTaken' /\ InProgress'
      BY <1>2, <2>1, <2>2 DEF PendingClaimed, EntryTaken, InProgress, WrittenSoFar
    <2>4. QED BY <1>4, <2>1, <2>2, <2>3 DEF VolumeInv
  <1>6. CASE mountSystem
    <2>1. writer.pc = "idle" /\ UNCHANGED <<dir, disk, size, writer, stored>>
      BY <1>1, <1>6 DEF mountSystem
    <2>2. Pending' = {}
      BY <2>1 DEF Pending
    <2>3. PendingClaimed' /\ EntryTaken' /\ InProgress'
      BY <2>1, <2>2 DEF PendingClaimed, EntryTaken, InProgress
    <2>4. QED BY <1>4, <2>1, <2>2, <2>3 DEF VolumeInv
  <1>7. CASE Crash
    <2>1. UNCHANGED <<dir, disk, size, stored>> /\ writer' = Idle /\ writer'.pc = "idle"
      BY <1>7, IdleTyped DEF Crash, volume
    <2>2. Pending' = {}
      BY <2>1 DEF Pending
    <2>3. PendingClaimed' /\ EntryTaken' /\ InProgress'
      BY <2>1, <2>2 DEF PendingClaimed, EntryTaken, InProgress
    <2>4. QED BY <1>4, <2>1, <2>2, <2>3 DEF VolumeInv
  <1>8. ASSUME NEW n \in Name, NEW p \in 0..MaxPieces, allocateInDirectory(n, p)
        PROVE  VolumeInv'
    <2>1. PICK j \in 0..Slots, b \in Block :
            /\ IsEntryFor(j) /\ checkBlockAvaible(b)
            /\ writer' = NewEntry(n, p, j, b)
            /\ full' = (full \/ OutOfBlocks \/ j >= Slots - 1)
      BY <1>8 DEF allocateInDirectory
    <2>2. /\ mounted /\ writer.pc = "idle" /\ ~OutOfBlocks /\ j < Slots - 1
          /\ UNCHANGED <<dir, size, stored>>
      <3>1. ~OutOfBlocks /\ ~(j >= Slots - 1)
        BY <2>1
      <3>2. j < Slots - 1
        BY <3>1
      <3>3. QED BY <1>8, <3>1, <3>2 DEF allocateInDirectory
    <2>3. writer'.pc = "entry" /\ writer'.slot = j /\ writer'.block = b
      BY <2>1 DEF NewEntry
    <2>4. Pending = {} /\ Pending' = {b}
      BY <2>2, <2>3 DEF Pending
    <2>5. /\ InUse(b)'
          /\ \A c \in Block : InUse(c) => c # b /\ disk'[c] = disk[c]
      BY <2>1, <2>2, Claim
    <2>6. PendingClaimed'
      BY <2>3, <2>4, <2>5 DEF PendingClaimed, InUse
    <2>7. EntryTaken'
      <3>1. dir[j].first = 0
        BY <2>1, <2>2 DEF IsEntryFor, IsFirst, FreeSlots
      <3>2. QED BY <2>2, <2>3, <3>1 DEF EntryTaken
    <2>8. InProgress'
      BY <2>3 DEF InProgress
    <2>9. StoredApart'
      <3>1. size' \in Nat /\ size <= size'
        BY <1>1, <2>2
      <3>2. \A c \in Block : InUse(c) /\ c \notin Pending
                              => disk'[c] = disk[c] /\ c \notin Pending'
        BY <2>4, <2>5
      <3>3. ASSUME NEW np \in stored PROVE Apart(np[1], np[2])'
        BY <1>3, <2>2, <3>1, <3>2, ApartStays
      <3>4. QED BY <2>2, <3>3 DEF StoredApart
    <2>10. QED BY <2>6, <2>7, <2>8, <2>9 DEF VolumeInv
  <1>9. CASE writeFirstBlock
    <2>1. /\ writer.pc = "entry" /\ writer.slot \in 0..(Slots - 2) /\ mounted
          /\ dir[writer.slot].first = 0
      BY <1>1, <1>2, <1>9 DEF writeFirstBlock, EntryTaken, Writer
    <2>2. /\ dir' = [dir EXCEPT ![writer.slot].first = writer.block]
          /\ UNCHANGED <<disk, counter, size, stored>>
      BY <1>9, <2>1 DEF writeFirstBlock
    <2>3. /\ writer'.pc = "name" /\ writer'.slot = writer.slot
          /\ writer'.block = writer.block
      BY <1>1, <1>9 DEF writeFirstBlock, Writer
    <2>4. Pending' = Pending
      BY <2>1, <2>3 DEF Pending
    <2>5. PendingClaimed' /\ InProgress'
      BY <1>2, <2>2, <2>3, <2>4 DEF PendingClaimed, InProgress
    <2>6. EntryTaken'
      BY <1>1, <2>1, <2>2, <2>3 DEF EntryTaken
    <2>7. \A j \in 0..(Slots - 2) : dir'[j] = dir[j] \/ dir[j].first \in {0} \cup Pending
      BY <1>1, <2>1, <2>2
    <2>8. StoredApart'
      <3>1. ASSUME NEW np \in stored PROVE Apart(np[1], np[2])'
        BY <1>1, <1>3, <2>1, <2>2, <2>4, <2>7, ApartStays
      <3>2. QED BY <2>2, <3>1 DEF StoredApart
    <2>9. QED BY <2>5, <2>6, <2>8 DEF VolumeInv
  <1>10. CASE writeName
    <2>1. /\ writer.pc = "name" /\ writer.slot \in 0..(Slots - 2) /\ mounted
          /\ dir[writer.slot].first = writer.block /\ writer.piece = 0
      BY <1>1, <1>2, <1>10 DEF writeName, EntryTaken, Writer, TypeOK
    <2>2. /\ dir' = [dir EXCEPT ![writer.slot].name = writer.name]
          /\ UNCHANGED <<disk, counter, size, stored>>
      BY <1>10, <2>1 DEF writeName
    <2>3. writer'.pc = "idle" \/ /\ writer'.pc = "content" /\ writer'.slot = writer.slot
                                 /\ writer'.block = writer.block
                                 /\ writer'.name = writer.name /\ writer'.piece = 0
      BY <1>1, <1>10, <2>1, IdleTyped DEF writeName, Writer
    <2>4. Pending' \subseteq Pending
      BY <2>1, <2>3 DEF Pending
    <2>5. PendingClaimed' /\ EntryTaken'
      BY <1>2, <2>1, <2>2, <2>3, <2>4 DEF PendingClaimed, EntryTaken
    <2>6. InProgress'
      <3>1. CASE writer'.pc = "content"
        <4>1. dir'[writer.slot].name = writer.name /\ dir'[writer.slot].first = writer.block
          BY <1>1, <2>1, <2>2
        <4>2. PICK chain : chain = [k \in 0..0 |-> writer.block]
          OBVIOUS
        <4>3. chain \in [0..0 -> Block] /\ chain[0] = writer.block
          BY <1>1, <4>2 DEF Writer
        <4>4. WrittenSoFar(chain)'
          BY <2>3, <3>1, <4>1, <4>3 DEF WrittenSoFar
        <4>5. QED BY <2>3, <3>1, <4>1, <4>3, <4>4 DEF InProgress
      <3>2. QED BY <2>3, <3>1 DEF InProgress
    <2>7. \A j \in 0..(Slots - 2) : dir'[j] = dir[j] \/ dir[j].first \in {0} \cup Pending
      BY <1>1, <2>1, <2>2 DEF Pending
    <2>8. StoredApart'
      <3>1. size' \in Nat /\ size <= size'
        BY <1>1, <2>2
      <3>2. \A c \in Block : c \notin Pending => disk'[c] = disk[c] /\ c \notin Pending'
        BY <2>2, <2>4
      <3>3. ASSUME NEW np \in stored PROVE Apart(np[1], np[2])'
        BY <1>3, <2>1, <2>7, <3>1, <3>2, ApartStays
      <3>4. QED BY <2>2, <3>3 DEF StoredApart
    <2>9. QED BY <2>5, <2>6, <2>8 DEF VolumeInv
  <1>11. CASE claimNextBlock
    <2>1. PICK b \in Block :
            checkBlockAvaible(b) /\ writer' = [writer EXCEPT !.pc = "flush", !.next = b]
      BY <1>11 DEF claimNextBlock
    <2>2. /\ writer.pc = "content" /\ mounted /\ ~OutOfBlocks
          /\ UNCHANGED <<dir, size, stored>>
      BY <1>1, <1>11 DEF claimNextBlock
    <2>3. /\ writer'.pc = "flush" /\ writer'.next = b /\ writer'.block = writer.block
          /\ writer'.slot = writer.slot /\ writer'.name = writer.name
          /\ writer'.piece = writer.piece
      BY <1>1, <2>1 DEF Writer
    <2>4. Pending = {writer.block} /\ Pending' = {writer.block, b}
      BY <2>2, <2>3 DEF Pending
    <2>5. /\ InUse(b)'
          /\ \A c \in Block : InUse(c) => c # b /\ disk'[c] = disk[c] /\ InUse(c)'
          /\ \A c \in Block : InUse(c) => disk'[b].next # 0 \/ b > c
      BY <2>1, <2>2, Claim
    <2>6. writer.block \in Block /\ InUse(writer.block)
      BY <1>1, <1>2, <2>4 DEF PendingClaimed, InUse, Writer
    <2>7. PendingClaimed'
      BY <2>3, <2>4, <2>5, <2>6 DEF PendingClaimed, InUse
    <2>8. EntryTaken'
      BY <1>2, <2>2, <2>3 DEF EntryTaken
    <2>9. InProgress'
      <3>1. PICK chain \in [0..writer.piece -> Block] : WrittenSoFar(chain)
        BY <1>2, <2>2 DEF InProgress
      <3>2. \A k \in 0..(writer.piece - 1) : chain[k] \in Block /\ InUse(chain[k])
        <4>1. TAKE k \in 0..(writer.piece - 1)
        <4>2. k \in 0..writer.piece /\ k + 1 \in 0..writer.piece
          BY <1>1 DEF Writer
        <4>3. chain[k] \in Block /\ chain[k + 1] \in Block /\ chain[k] <= size
          BY <3>1, <4>2 DEF WrittenSoFar
        <4>4. disk[chain[k]] = [data |-> Piece(writer.name, k), next |-> chain[k + 1]]
          BY <3>1 DEF WrittenSoFar
        <4>5. size < counter
          BY <2>2 DEF TypeOK, CounterAhead
        <4>6. QED BY <1>1, <4>3, <4>4, <4>5 DEF InUse
      <3>3. WrittenSoFar(chain)'
        BY <2>2, <2>3, <2>4, <2>5, <3>1, <3>2 DEF WrittenSoFar
      <3>4. QED BY <1>2, <2>2, <2>3, <3>1, <3>3 DEF InProgress
    <2>10. StoredApart'
      <3>1. size' \in Nat /\ size <= size'
        BY <1>1, <2>2
      <3>2. \A c \in Block : InUse(c) /\ c \notin Pending
                              => disk'[c] = disk[c] /\ c \notin Pending'
        BY <2>4, <2>5
      <3>3. ASSUME NEW np \in stored PROVE Apart(np[1], np[2])'
        BY <1>3, <2>2, <3>1, <3>2, ApartStays
      <3>4. QED BY <2>2, <3>3 DEF StoredApart
    <2>11. QED BY <2>7, <2>8, <2>9, <2>10 DEF VolumeInv
  <1>12. CASE flushBlock
    <2>1. /\ writer.pc = "flush" /\ mounted /\ WriteBlock(writer.next)
          /\ UNCHANGED <<dir, counter, stored>>
      BY <1>1, <1>12 DEF flushBlock
    <2>2. /\ size' = IF size > writer.block THEN size ELSE writer.block
          /\ size' \in Nat /\ size <= size' /\ writer.block <= size'
          /\ writer.block \in Block /\ writer.next \in Block
      <3>1. writer.block \in Block /\ writer.next \in Block
        BY <1>1 DEF Writer
      <3>2. QED BY <1>1, <2>1, <3>1 DEF WriteBlock, Larger
    <2>3. /\ disk'[writer.block] = [data |-> Piece(writer.name, writer.piece),
                                    next |-> writer.next]
          /\ \A c \in Block : c # writer.block => disk'[c] = disk[c]
      BY <1>1, <2>1, <2>2 DEF WriteBlock, DiskType
    <2>4. writer'.pc = "idle" \/
            /\ writer'.pc = "content" /\ writer'.block = writer.next
            /\ writer'.slot = writer.slot /\ writer'.name = writer.name
            /\ writer'.piece = writer.piece + 1
      BY <1>1, <1>12, IdleTyped DEF flushBlock, Writer
    <2>5. /\ Pending = {writer.block, writer.next} /\ writer.next # writer.block
          /\ Pending' \subseteq {writer.next}
      BY <1>2, <2>1, <2>4 DEF Pending, PendingClaimed
    <2>6. PendingClaimed'
      <3>1. writer.next < counter /\ (disk'[writer.next].next # 0 \/ writer.next > size')
        BY <1>1, <1>2, <2>1, <2>2, <2>3, <2>5 DEF PendingClaimed
      <3>2. QED BY <2>1, <2>4, <2>5, <3>1 DEF PendingClaimed
    <2>7. EntryTaken'
      BY <1>2, <2>1, <2>4 DEF EntryTaken
    <2>8. InProgress'
      <3>1. PICK g \in [0..writer.piece -> Block] : WrittenSoFar(g)
        BY <1>2, <2>1 DEF InProgress
      <3>2. CASE writer'.pc = "content"
        <4>0. PICK chain : chain = [i \in 0..(writer.piece + 1) |->
                                      IF i <= writer.piece THEN g[i] ELSE writer.next]
          OBVIOUS
        <4>1. writer.piece \in Nat /\ writer'.piece = writer.piece + 1
          BY <1>1, <2>4, <3>2 DEF Writer
        <4>2. chain \in [0..(writer.piece + 1) -> Block]
          BY <2>2, <4>0, <4>1
        <4>3. /\ \A k \in 0..writer.piece : chain[k] = g[k]
              /\ chain[writer.piece + 1] = writer.next
          BY <4>0, <4>1
        <4>4. \A k \in 0..(writer.piece - 1) :
                 /\ chain[k] = g[k] /\ chain[k + 1] = g[k + 1] /\ g[k] \in Block
                 /\ g[k] <= size' /\ g[k] \notin Pending'
                 /\ disk'[g[k]] = [data |-> Piece(writer.name, k), next |-> g[k + 1]]
          <5>1. TAKE k \in 0..(writer.piece - 1)
          <5>2. k \in 0..writer.piece /\ k + 1 \in 0..writer.piece
            BY <4>1
          <5>3. g[k] \in Block /\ g[k] <= size /\ g[k] \notin Pending
                /\ disk[g[k]] = [data |-> Piece(writer.name, k), next |-> g[k + 1]]
            BY <3>1, <5>2 DEF WrittenSoFar
          <5>4. QED BY <1>1, <2>2, <2>3, <2>5, <4>3, <5>2, <5>3
        <4>5. /\ chain[writer.piece] = writer.block
              /\ chain[writer.piece + 1] = writer.next
              /\ chain[0] = dir[writer.slot].first
          BY <3>1, <4>1, <4>3 DEF WrittenSoFar
        <4>6. WrittenSoFar(chain)'
          <5>1. \A k \in 0..(writer'.piece - 1) : k = writer.piece \/ k \in 0..(writer.piece - 1)
            BY <4>1
          <5>2. QED
            BY <2>1, <2>2, <2>3, <2>4, <2>5, <3>2, <4>1, <4>4, <4>5, <5>1 DEF WrittenSoFar
        <4>7. dir'[writer'.slot].name = writer'.name
          BY <1>2, <2>1, <2>4, <3>2 DEF InProgress
        <4>8. QED BY <4>1, <4>2, <4>6, <4>7 DEF InProgress
      <3>3. QED BY <2>4, <3>2 DEF InProgress
    <2>9. StoredApart'
      <3>1. ASSUME NEW np \in stored PROVE Apart(np[1], np[2])'
        BY <1>1, <1>3, <2>1, <2>2, <2>3, <2>5, ApartStays
      <3>2. QED BY <2>1, <3>1 DEF StoredApart
    <2>10. QED BY <2>6, <2>7, <2>8, <2>9 DEF VolumeInv
  <1>13. CASE writeLastBlock
    <2>1. /\ writer.pc = "content" /\ mounted /\ WriteBlock(End)
          /\ writer.piece + 1 = writer.pieces /\ writer' = Idle /\ writer'.pc = "idle"
          /\ stored' = stored \cup {<<writer.name, writer.pieces>>}
          /\ UNCHANGED <<dir, counter>>
      BY <1>1, <1>13, IdleTyped DEF writeLastBlock
    <2>2. /\ size' \in Nat /\ size <= size' /\ writer.block <= size'
          /\ writer.block \in Block
      <3>1. writer.block \in Block
        BY <1>1 DEF Writer
      <3>2. QED BY <1>1, <2>1, <3>1 DEF WriteBlock, Larger
    <2>3. /\ disk'[writer.block] = [data |-> Piece(writer.name, writer.piece), next |-> End]
          /\ \A c \in Block : c # writer.block => disk'[c] = disk[c]
      BY <1>1, <2>1, <2>2 DEF WriteBlock, DiskType
    <2>4. Pending = {writer.block} /\ Pending' = {}
      BY <2>1 DEF Pending
    <2>5. PendingClaimed' /\ EntryTaken' /\ InProgress'
      BY <2>1, <2>4 DEF PendingClaimed, EntryTaken, InProgress
    <2>6. PICK n, p, j : n = writer.name /\ p = writer.pieces /\ j = writer.slot
      OBVIOUS
    <2>7. Apart(n, p)'
      <3>1. PICK g \in [0..writer.piece -> Block] : WrittenSoFar(g)
        BY <1>2, <2>1 DEF InProgress
      <3>2. writer.piece \in Nat /\ p \in Nat /\ writer.piece = p - 1
        BY <1>1, <2>1, <2>6 DEF Writer
      <3>3. j \in 0..(Slots - 2)
        BY <1>1, <1>2, <2>1, <2>6 DEF Writer, EntryTaken
      <3>4. dir[j].name = n
        BY <1>2, <2>1, <2>6 DEF InProgress
      <3>5. /\ g[0] = dir[j].first /\ g[p - 1] = writer.block
            /\ \A k \in 0..(p - 2) :
                 /\ g[k] <= size /\ g[k] # writer.block
                 /\ disk[g[k]] = [data |-> Piece(n, k), next |-> g[k + 1]]
        <4>1. writer.piece - 1 = p - 2
          BY <3>2
        <4>2. QED BY <2>4, <2>6, <3>1, <3>2, <4>1 DEF WrittenSoFar
      <3>6. \A k \in 0..(p - 1) : k = p - 1 \/ k \in 0..(p - 2)
        BY <3>2
      <3>7. \A k \in 0..(p - 1) : g[k] \in Block
        BY <3>1, <3>2
      <3>8. \A k \in 0..(p - 1) :
              /\ g[k] \in 1..size'
              /\ disk'[g[k]].data = Piece(n, k)
              /\ disk'[g[k]].next = IF k = p - 1 THEN End ELSE g[k + 1]
        <4>1. TAKE k \in 0..(p - 1)
        <4>2. CASE k = p - 1
          BY <2>2, <2>3, <2>6, <3>2, <3>5, <4>2
        <4>3. CASE k \in 0..(p - 2)
          <5>1. disk'[g[k]] = [data |-> Piece(n, k), next |-> g[k + 1]] /\ k # p - 1
            BY <2>3, <3>2, <3>5, <3>7, <4>3
          <5>2. g[k] \in 1..size'
            <6>1. g[k] \in Block /\ g[k] <= size
              BY <3>5, <3>7, <4>3
            <6>2. QED BY <1>1, <2>2, <6>1
          <5>3. QED BY <5>1, <5>2
        <4>4. QED BY <3>6, <4>2, <4>3
      <3>9. g \in [0..(p - 1) -> 1..size']
        BY <3>1, <3>2, <3>8
      <3>10. WholeAt(n, p, j, g)'
        BY <2>1, <3>4, <3>5, <3>8 DEF WholeAt, IsChain
      <3>11. QED BY <2>4, <3>3, <3>9, <3>10 DEF Apart
    <2>8. \A np \in stored : Apart(np[1], np[2])'
      BY <1>1, <1>3, <2>1, <2>2, <2>3, <2>4, ApartStays
    <2>9. StoredApart'
      BY <2>1, <2>6, <2>7, <2>8 DEF StoredApart
    <2>10. QED BY <2>5, <2>9 DEF VolumeInv
  <1>14. QED
    BY <1>5, <1>6, <1>7, <1>8, <1>9, <1>10, <1>11, <1>12, <1>13 DEF Next

-----------------------------------------------------------------------------
(* Theorems                                                                *)

LEMMA StartTyped == Init => TypeOK /\ VolumeInv
  <1> USE SizeAssumption
  <1> SUFFICES ASSUME Init PROVE TypeOK /\ VolumeInv
    OBVIOUS
  <1>1. writer \in Writer /\ writer.pc = "idle"
    BY IdleTyped DEF Init
  <1>2. disk \in DiskType
    BY DEF Init, DiskType, Data
  <1>3. dir \in [0..(Slots - 1) -> [name : Name \cup {NoName}, first : Number]]
    BY DEF Init
  <1>4. /\ mounted = FALSE /\ full = FALSE /\ counter = 0 /\ size = 0 /\ crashes = 0
        /\ stored = {}
    BY DEF Init
  <1>5. TypeOK
    <2>1. counter \in Number /\ size \in 0..LastBlock /\ crashes \in 0..MaxCrashes
      BY <1>4
    <2>2. CounterAhead
      BY <1>4 DEF CounterAhead
    <2>3. stored \subseteq Name \X (1..MaxPieces)
      BY <1>4
    <2>4. mounted \in BOOLEAN /\ full \in BOOLEAN
      BY <1>4
    <2>5. QED BY <1>1, <1>2, <1>3, <2>1, <2>2, <2>3, <2>4 DEF TypeOK, DiskType
  <1>6. Pending = {}
    BY <1>1 DEF Pending
  <1>7. VolumeInv
    BY <1>1, <1>4, <1>6 DEF VolumeInv, PendingClaimed, EntryTaken, InProgress, StoredApart
  <1>8. QED BY <1>5, <1>7

\* The disk keeps its format, the writer never runs past the source, and the counter
\* of checkBlockAvaible stays ahead of what disk.dat holds, so that the two ways of
\* finding a block never give out the same one.
THEOREM VolumeTyped == Spec => [](TypeOK /\ VolumeInv)
  <1>1. Init => TypeOK /\ VolumeInv
    BY StartTyped
  <1>2. TypeOK /\ VolumeInv /\ [Next]_vars => (TypeOK /\ VolumeInv)'
    BY TypeStep, VolumeStep
  <1>3. QED BY <1>1, <1>2, PTL DEF Spec

\* The type invariant alone, as the runs check it.
THEOREM DiskTypeCorrect == Spec => []TypeOK
  BY VolumeTyped, PTL

\* A figure for which writeFile returned EXIT_SUCCESS is found by existFile and read
\* whole by extractBlock ever after, whatever is written and however often the
\* process ends, as long as the directory and the disk have room.
THEOREM FiguresStay == Spec => []WrittenFiguresStayWithRoom
  <1>1. TypeOK /\ VolumeInv => WrittenFiguresStayWithRoom
    BY DEF VolumeInv, StoredApart, Apart, WrittenFiguresStayWithRoom, WrittenFiguresStay, Whole
  <1>2. QED BY <1>1, VolumeTyped, PTL

-----------------------------------------------------------------------------
(* The figures of the disk implement FigureStore                           *)

\* What a block holds tells whose piece it is.
LEMMA PieceDiffers ==
  ASSUME NEW n, NEW k, NEW m, NEW i
  PROVE  Piece(n, k) # Blank /\ (Piece(n, k) = Piece(m, i) => n = m /\ k = i)
  BY DEF Piece, Blank

\* A figure that is whole after a step was so before, if the entries and the blocks
\* that the step changes cannot be its own.
LEMMA WholeBefore ==
  ASSUME TypeOK, FiguresInv, ~full, NEW n \in Name, NEW p \in 1..MaxPieces, Whole(n, p)',
         size' \in 0..LastBlock,
         \A j \in 0..(Slots - 2) : \/ dir'[j] = dir[j]
                                   \/ dir'[j].name # n
                                   \/ disk'[dir'[j].first].data = Blank,
         \A c \in Block : \/ disk'[c] = disk[c]
                          \/ disk'[c].data = Blank
                          \/ /\ disk'[c].next \in Block
                             /\ disk'[disk'[c].next].data = Blank
                          \/ /\ disk'[c].next = End
                             /\ disk'[c].data # Piece(n, p - 1)
  PROVE  Whole(n, p)
  <1> USE SizeAssumption
  <1>1. PICK j \in 0..(Slots - 2), chain \in [0..(p - 1) -> 1..size'] : WholeAt(n, p, j, chain)'
    BY DEF Whole
  <1>2. p \in Nat /\ size \in 0..LastBlock
    BY DEF TypeOK
  <1>3. /\ dir'[j].name = n /\ chain[0] = dir'[j].first
        /\ \A k \in 0..(p - 1) :
             /\ chain[k] \in Block
             /\ disk'[chain[k]].data = Piece(n, k)
             /\ disk'[chain[k]].next = IF k = p - 1 THEN End ELSE chain[k + 1]
    BY <1>1, <1>2 DEF WholeAt, IsChain
  <1>4. \A k \in 0..(p - 1) : disk'[chain[k]].data # Blank
    BY <1>3, PieceDiffers
  <1>5. ASSUME NEW k \in 0..(p - 1) PROVE disk'[chain[k]] = disk[chain[k]]
    <2>1. chain[k] \in Block /\ disk'[chain[k]].data # Blank
      BY <1>3, <1>4
    <2>2. CASE disk'[chain[k]].next \in Block /\ disk'[disk'[chain[k]].next].data = Blank
      <3>1. End \notin Block
        OBVIOUS
      <3>2. k # p - 1 /\ disk'[chain[k]].next = chain[k + 1]
        BY <1>3, <2>2, <3>1
      <3>3. k + 1 \in 0..(p - 1)
        BY <1>2, <3>2
      <3>4. QED BY <1>4, <2>2, <3>2, <3>3
    <2>3. CASE disk'[chain[k]].next = End /\ disk'[chain[k]].data # Piece(n, p - 1)
      <3>1. k # p - 1 /\ disk'[chain[k]].data = Piece(n, k)
        BY <1>3, <2>3
      <3>2. k + 1 \in 0..(p - 1) /\ disk'[chain[k]].next = chain[k + 1]
        BY <1>2, <1>3, <3>1
      <3>3. chain[k + 1] \in Block
        BY <1>3, <3>2
      <3>4. QED BY <2>3, <3>2, <3>3
    <2>4. QED BY <2>1, <2>2, <2>3
  <1>6. ASSUME NEW k \in 0..(p - 1) PROVE chain[k] \in 1..size
    <2>1. chain[k] \in Block /\ disk[chain[k]].data # Blank
      BY <1>3, <1>4, <1>5
    <2>2. chain[k] <= size
      BY <2>1 DEF FiguresInv, UnwrittenBlank
    <2>3. QED BY <1>2, <2>1, <2>2
  <1>7. dir'[j] = dir[j]
    <2>1. 0 \in 0..(p - 1)
      BY <1>2
    <2>2. QED BY <1>3, <1>4, <2>1
  <1>8. chain \in [0..(p - 1) -> 1..size]
    BY <1>6
  <1>9. WholeAt(n, p, j, chain)
    BY <1>3, <1>5, <1>7 DEF WholeAt, IsChain
  <1>10. QED BY <1>8, <1>9 DEF Whole

\* A claim gives out a block that holds no piece and marks none past the file.
LEMMA ClaimBlank ==
  ASSUME TypeOK, FiguresInv, mounted, ~full, ~OutOfBlocks, NEW b \in Block,
         checkBlockAvaible(b), UNCHANGED size
  PROVE  /\ disk'[b].data = Blank
         /\ \A c \in Block : /\ disk'[c].data = disk[c].data
                             /\ c # b => disk'[c] = disk[c]
         /\ \A c \in Block : IF disk'[c].next = 0 THEN disk'[c].data = Blank ELSE c <= size'
  <1> USE SizeAssumption
  <1>1. /\ counter \in Number /\ size \in 0..LastBlock /\ size < counter /\ disk \in DiskType
    BY DEF TypeOK, CounterAhead, DiskType
  <1>2. \A c \in Block : IF disk[c].next = 0 THEN disk[c].data = Blank ELSE c <= size
    BY DEF FiguresInv, UnwrittenBlank
  <1>3. CASE IsFirst(b, Free) /\ disk' = [disk EXCEPT ![b].next = End]
    <2>1. disk[b].next = 0 /\ b <= size
      BY <1>1, <1>3 DEF IsFirst, Free
    <2>2. /\ disk'[b].data = disk[b].data /\ disk'[b].next = End
          /\ \A c \in Block : c # b => disk'[c] = disk[c]
      BY <1>1, <1>3 DEF DiskType
    <2>3. QED BY <1>1, <1>2, <2>1, <2>2
  <1>4. CASE b = counter /\ UNCHANGED disk
    BY <1>1, <1>2, <1>4
  <1>5. QED BY <1>3, <1>4 DEF checkBlockAvaible, OutOfBlocks

LEMMA FiguresStep ==
  TypeOK /\ TypeOK' /\ VolumeInv /\ FiguresInv /\ [Next]_vars => FiguresInv'
  <1> USE SizeAssumption
  <1> SUFFICES ASSUME TypeOK, TypeOK', VolumeInv, FiguresInv, [Next]_vars, ~full, ~full'
               PROVE  FiguresInv'
    BY FullStays DEF FiguresInv
  <1>1. /\ disk \in DiskType /\ counter \in Number /\ size \in 0..LastBlock
        /\ size' \in 0..LastBlock
        /\ dir \in [0..(Slots - 1) -> [name : Name \cup {NoName}, first : Number]]
        /\ writer \in Writer /\ (writer.pc # "idle" => mounted /\ writer.name \in Name)
    BY DEF TypeOK, DiskType
  <1>2. PendingClaimed /\ EntryTaken /\ InProgress /\ StoredApart
    BY DEF VolumeInv
  <1>3. UnwrittenBlank /\ FreeUnnamed /\ NameNew /\ OnlyStored
    BY DEF FiguresInv
  <1>4. ASSUME UNCHANGED <<dir, disk, size, stored>> PROVE OnlyStored'
    <2>1. ASSUME NEW m \in Name, NEW q \in 1..MaxPieces, Whole(m, q)' PROVE Whole(m, q)
      BY <1>1, <1>4, <2>1, WholeBefore
    <2>2. QED BY <1>3, <1>4, <2>1 DEF OnlyStored
  \* A step that leaves the disk alone and ends no write but by crashing.
  <1>5. ASSUME UNCHANGED <<dir, disk, size, stored>>, writer' = writer \/ writer'.pc = "idle"
        PROVE  FiguresInv'
    <2>1. Pending' \subseteq Pending
      BY <1>5 DEF Pending
    <2>2. UnwrittenBlank' /\ FreeUnnamed' /\ NameNew'
      BY <1>3, <1>5, <2>1 DEF UnwrittenBlank, FreeUnnamed, NameNew
    <2>3. QED BY <1>4, <1>5, <2>2 DEF FiguresInv
  <1>6. CASE UNCHANGED vars
    BY <1>5, <1>6 DEF vars, volume
  <1>7. CASE mountSystem
    BY <1>5, <1>7 DEF mountSystem
  <1>8. CASE Crash
    BY <1>5, <1>8, IdleTyped DEF Crash, volume
  <1>9. ASSUME NEW n \in Name, NEW p \in 0..MaxPieces, allocateInDirectory(n, p)
        PROVE  FiguresInv'
    <2>1. PICK j \in 0..Slots, b \in Block :
            /\ IsEntryFor(j) /\ checkBlockAvaible(b)
            /\ writer' = NewEntry(n, p, j, b)
            /\ full' = (full \/ OutOfBlocks \/ j >= Slots - 1)
      BY <1>9 DEF allocateInDirectory
    <2>2. /\ mounted /\ ~OutOfBlocks /\ UNCHANGED <<dir, size, stored>> /\ ~existFile(n)
      BY <1>9, <2>1 DEF allocateInDirectory
    <2>3. writer'.pc = "entry" /\ writer'.name = n /\ Pending' = {b}
      BY <2>1 DEF NewEntry, Pending
    <2>4. /\ disk'[b].data = Blank
          /\ \A c \in Block : c # b => disk'[c] = disk[c]
          /\ \A c \in Block : IF disk'[c].next = 0 THEN disk'[c].data = Blank ELSE c <= size'
      BY <2>1, <2>2, ClaimBlank
    <2>5. UnwrittenBlank'
      BY <2>3, <2>4 DEF UnwrittenBlank
    <2>6. FreeUnnamed'
      BY <1>3, <2>2, <2>3 DEF FreeUnnamed
    <2>7. NameNew'
      <3>1. ASSUME NEW q \in 1..MaxPieces, <<n, q>> \in stored PROVE FALSE
        <4>1. Apart(n, q)
          BY <1>2, <3>1 DEF StoredApart
        <4>2. QED BY <2>2, <4>1 DEF Apart, WholeAt, existFile
      <3>2. QED BY <2>2, <2>3, <3>1 DEF NameNew
    <2>8. OnlyStored'
      <3>1. ASSUME NEW m \in Name, NEW q \in 1..MaxPieces, Whole(m, q)' PROVE Whole(m, q)
        BY <1>1, <2>2, <2>4, <3>1, WholeBefore
      <3>2. QED BY <1>3, <2>2, <3>1 DEF OnlyStored
    <2>9. QED BY <2>5, <2>6, <2>7, <2>8 DEF FiguresInv
  <1>10. CASE writeFirstBlock
    <2>1. /\ writer.pc = "entry" /\ writer.slot \in 0..(Slots - 2)
          /\ dir[writer.slot].first = 0 /\ writer.block \in Block
      BY <1>1, <1>2, <1>10 DEF writeFirstBlock, EntryTaken, Writer
    <2>2. /\ dir' = [dir EXCEPT ![writer.slot].first = writer.block]
          /\ UNCHANGED <<disk, size, stored>>
      BY <1>10, <2>1 DEF writeFirstBlock
    <2>3. /\ writer'.pc = "name" /\ writer'.slot = writer.slot
          /\ writer'.name = writer.name /\ writer'.block = writer.block
      BY <1>1, <1>10 DEF writeFirstBlock, Writer
    <2>4. Pending' = Pending
      BY <2>1, <2>3 DEF Pending
    <2>5. /\ dir'[writer.slot].name = NoName /\ dir'[writer.slot].first # 0
          /\ \A i \in 0..(Slots - 1) : i # writer.slot => dir'[i] = dir[i]
      BY <1>1, <1>3, <2>1, <2>2 DEF FreeUnnamed
    <2>6. UnwrittenBlank' /\ NameNew'
      BY <1>3, <2>1, <2>2, <2>3, <2>4 DEF UnwrittenBlank, NameNew
    <2>7. FreeUnnamed'
      BY <1>3, <2>3, <2>5 DEF FreeUnnamed
    <2>8. OnlyStored'
      <3>1. ASSUME NEW m \in Name, NEW q \in 1..MaxPieces, Whole(m, q)' PROVE Whole(m, q)
        <4>1. \A i \in 0..(Slots - 2) : dir'[i] = dir[i] \/ dir'[i].name # m
          BY <2>5
        <4>2. QED BY <1>1, <2>2, <3>1, <4>1, WholeBefore
      <3>2. QED BY <1>3, <2>2, <3>1 DEF OnlyStored
    <2>9. QED BY <2>6, <2>7, <2>8 DEF FiguresInv
  <1>11. CASE writeName
    <2>1. /\ writer.pc = "name" /\ writer.slot \in 0..(Slots - 2)
          /\ dir[writer.slot].first = writer.block /\ writer.block \in Block
      BY <1>1, <1>2, <1>11 DEF writeName, EntryTaken, Writer
    <2>2. /\ dir' = [dir EXCEPT ![writer.slot].name = writer.name]
          /\ UNCHANGED <<disk, size, stored>>
      BY <1>11, <2>1 DEF writeName
    <2>3. writer'.pc = "idle" \/ /\ writer'.pc = "content" /\ writer'.name = writer.name
                                 /\ writer'.block = writer.block
      BY <1>1, <1>11, IdleTyped DEF writeName, Writer
    <2>4. Pending' \subseteq Pending
      BY <2>1, <2>3 DEF Pending
    <2>5. /\ dir'[writer.slot].first = writer.block
          /\ \A i \in 0..(Slots - 1) : i # writer.slot => dir'[i] = dir[i]
      BY <1>1, <2>1, <2>2
    <2>6. UnwrittenBlank' /\ NameNew'
      BY <1>3, <2>1, <2>2, <2>3, <2>4 DEF UnwrittenBlank, NameNew
    <2>7. FreeUnnamed'
      BY <1>3, <2>1, <2>3, <2>5 DEF FreeUnnamed
    <2>8. OnlyStored'
      <3>1. ASSUME NEW m \in Name, NEW q \in 1..MaxPieces, Whole(m, q)' PROVE Whole(m, q)
        <4>1. disk'[writer.block].data = Blank
          BY <1>3, <2>1, <2>2 DEF UnwrittenBlank, Pending
        <4>2. \A i \in 0..(Slots - 2) : dir'[i] = dir[i] \/ disk'[dir'[i].first].data = Blank
          BY <2>5, <4>1
        <4>3. QED BY <1>1, <2>2, <3>1, <4>2, WholeBefore
      <3>2. QED BY <1>3, <2>2, <3>1 DEF OnlyStored
    <2>9. QED BY <2>6, <2>7, <2>8 DEF FiguresInv
  <1>12. CASE claimNextBlock
    <2>1. PICK b \in Block :
            checkBlockAvaible(b) /\ writer' = [writer EXCEPT !.pc = "flush", !.next = b]
      BY <1>12 DEF claimNextBlock
    <2>2. /\ writer.pc = "content" /\ mounted /\ ~OutOfBlocks
          /\ UNCHANGED <<dir, size, stored>>
      BY <1>1, <1>12 DEF claimNextBlock
    <2>3. /\ writer'.pc = "flush" /\ writer'.next = b /\ writer'.block = writer.block
          /\ writer'.name = writer.name /\ writer.block \in Block
      BY <1>1, <2>1 DEF Writer
    <2>4. Pending = {writer.block} /\ Pending' = {writer.block, b}
      BY <2>2, <2>3 DEF Pending
    <2>5. /\ disk'[b].data = Blank
          /\ \A c \in Block : disk'[c].data = disk[c].data /\ (c # b => disk'[c] = disk[c])
          /\ \A c \in Block : IF disk'[c].next = 0 THEN disk'[c].data = Blank ELSE c <= size'
      BY <2>1, <2>2, ClaimBlank
    <2>6. UnwrittenBlank'
      BY <1>3, <2>3, <2>4, <2>5 DEF UnwrittenBlank
    <2>7. FreeUnnamed' /\ NameNew'
      BY <1>3, <2>2, <2>3 DEF FreeUnnamed, NameNew
    <2>8. OnlyStored'
      <3>1. ASSUME NEW m \in Name, NEW q \in 1..MaxPieces, Whole(m, q)' PROVE Whole(m, q)
        BY <1>1, <2>2, <2>5, <3>1, WholeBefore
      <3>2. QED BY <1>3, <2>2, <3>1 DEF OnlyStored
    <2>9. QED BY <2>6, <2>7, <2>8 DEF FiguresInv
  <1>13. CASE flushBlock
    <2>1. /\ writer.pc = "flush" /\ WriteBlock(writer.next) /\ UNCHANGED <<dir, stored>>
          /\ writer.block \in Block /\ writer.next \in Block /\ writer.next # writer.block
      BY <1>1, <1>2, <1>13 DEF flushBlock, PendingClaimed, Writer
    <2>2. size <= size' /\ writer.block <= size'
      BY <1>1, <2>1 DEF WriteBlock, Larger
    <2>3. /\ disk'[writer.block].next = writer.next
          /\ \A c \in Block : c # writer.block => disk'[c] = disk[c]
      BY <1>1, <2>1 DEF WriteBlock, DiskType
    <2>4. writer'.pc = "idle" \/ /\ writer'.pc = "content" /\ writer'.name = writer.name
                                 /\ writer'.block = writer.next
      BY <1>1, <1>13, IdleTyped DEF flushBlock, Writer
    <2>5. disk'[writer.next].data = Blank /\ Pending' \subseteq {writer.next}
      BY <1>3, <2>1, <2>3, <2>4 DEF UnwrittenBlank, Pending
    <2>6. UnwrittenBlank'
      <3>1. ASSUME NEW c \in Block
            PROVE  IF disk'[c].next = 0 THEN disk'[c].data = Blank ELSE c <= size'
        <4>1. CASE c = writer.block
          BY <2>1, <2>2, <2>3, <4>1
        <4>2. CASE c # writer.block
          BY <1>1, <1>3, <2>2, <2>3, <4>2 DEF UnwrittenBlank
        <4>3. QED BY <4>1, <4>2
      <3>2. QED BY <2>5, <3>1 DEF UnwrittenBlank
    <2>7. FreeUnnamed' /\ NameNew'
      BY <1>3, <2>1, <2>4 DEF FreeUnnamed, NameNew
    <2>8. OnlyStored'
      <3>1. ASSUME NEW m \in Name, NEW q \in 1..MaxPieces, Whole(m, q)' PROVE Whole(m, q)
        BY <1>1, <2>1, <2>3, <2>5, <3>1, WholeBefore
      <3>2. QED BY <1>3, <2>1, <3>1 DEF OnlyStored
    <2>9. QED BY <2>6, <2>7, <2>8 DEF FiguresInv
  <1>14. CASE writeLastBlock
    <2>1. /\ writer.pc = "content" /\ WriteBlock(End) /\ UNCHANGED dir
          /\ writer.piece + 1 = writer.pieces /\ writer'.pc = "idle"
          /\ stored' = stored \cup {<<writer.name, writer.pieces>>}
          /\ writer.block \in Block /\ writer.piece \in Nat
      BY <1>1, <1>14, IdleTyped DEF writeLastBlock, Writer
    <2>2. size <= size' /\ writer.block <= size'
      BY <1>1, <2>1 DEF WriteBlock, Larger
    <2>3. /\ disk'[writer.block].next = End
          /\ disk'[writer.block].data = Piece(writer.name, writer.piece)
          /\ \A c \in Block : c # writer.block => disk'[c] = disk[c]
      BY <1>1, <2>1 DEF WriteBlock, DiskType
    <2>4. UnwrittenBlank'
      <3>1. ASSUME NEW c \in Block
            PROVE  IF disk'[c].next = 0 THEN disk'[c].data = Blank ELSE c <= size'
        <4>1. CASE c = writer.block
          BY <2>1, <2>2, <2>3, <4>1
        <4>2. CASE c # writer.block
          BY <1>1, <1>3, <2>2, <2>3, <4>2 DEF UnwrittenBlank
        <4>3. QED BY <4>1, <4>2
      <3>2. Pending' = {}
        BY <2>1 DEF Pending
      <3>3. QED BY <3>1, <3>2 DEF UnwrittenBlank
    <2>5. FreeUnnamed' /\ NameNew'
      BY <1>3, <2>1 DEF FreeUnnamed, NameNew
    <2>6. OnlyStored'
      <3>1. ASSUME NEW m \in Name, NEW q \in 1..MaxPieces, Whole(m, q)',
                   <<m, q>> # <<writer.name, writer.pieces>>
            PROVE  Whole(m, q)
        <4>1. Piece(writer.name, writer.piece) # Piece(m, q - 1)
          <5>1. m # writer.name \/ q - 1 # writer.piece
            BY <2>1, <3>1
          <5>2. QED BY <5>1, PieceDiffers
        <4>2. QED BY <1>1, <2>1, <2>3, <3>1, <4>1, WholeBefore
      <3>2. QED BY <1>3, <2>1, <3>1 DEF OnlyStored
    <2>7. QED BY <2>4, <2>5, <2>6 DEF FiguresInv
  <1>15. QED
    BY <1>6, <1>7, <1>8, <1>9, <1>10, <1>11, <1>12, <1>13, <1>14 DEF Next

Figures == {np \in Name \X (1..MaxPieces) : Whole(np[1], np[2])}

\* The figures that are whole are those that writeFile returned EXIT_SUCCESS for.
FiguresAreStored == ~full => Figures = stored

LEMMA FiguresStored == TypeOK /\ VolumeInv /\ FiguresInv => FiguresAreStored
  <1> SUFFICES ASSUME TypeOK, VolumeInv, FiguresInv, ~full PROVE Figures = stored
    BY DEF FiguresAreStored
  <1>1. stored \subseteq Name \X (1..MaxPieces)
    BY DEF TypeOK
  <1>2. ASSUME NEW np \in stored PROVE np \in Figures
    <2>1. Apart(np[1], np[2])
      BY DEF VolumeInv, StoredApart
    <2>2. Whole(np[1], np[2])
      BY <2>1 DEF Apart, Whole
    <2>3. QED BY <1>1, <2>2 DEF Figures
  <1>3. ASSUME NEW np \in Figures PROVE np \in stored
    <2>1. np[1] \in Name /\ np[2] \in 1..MaxPieces /\ np = <<np[1], np[2]>>
          /\ Whole(np[1], np[2])
      BY DEF Figures
    <2>2. <<np[1], np[2]>> \in stored
      BY <2>1 DEF FiguresInv, OnlyStored
    <2>3. QED BY <2>1, <2>2
  <1>4. QED BY <1>2, <1>3

LEMMA NothingAtFirst ==
  ASSUME Init, NEW n \in Name, NEW p
  PROVE  ~Whole(n, p)
  <1>1. ASSUME Whole(n, p) PROVE FALSE
    <2>1. PICK j \in 0..(Slots - 2) : dir[j].name = n
      BY <1>1 DEF Whole, WholeAt
    <2>2. dir[j].name = NoName
      BY SizeAssumption DEF Init
    <2>3. QED BY <2>1, <2>2, SizeAssumption
  <1>2. QED BY <1>1

LEMMA FiguresAlways == Spec => [](TypeOK /\ VolumeInv /\ FiguresInv)
  <1>1. Init => FiguresInv
    <2> SUFFICES ASSUME Init PROVE FiguresInv
      OBVIOUS
    <2>1. writer.pc = "idle" /\ size = 0 /\ Pending = {}
      BY DEF Init, Idle, Pending
    <2>2. UnwrittenBlank /\ FreeUnnamed /\ NameNew
      BY <2>1 DEF Init, UnwrittenBlank, FreeUnnamed, NameNew
    <2>3. OnlyStored
      BY NothingAtFirst DEF OnlyStored
    <2>4. QED BY <2>2, <2>3 DEF FiguresInv
  <1>2. QED BY <1>1, FiguresStep, VolumeTyped, PTL DEF Spec

LEMMA StoreStep ==
  TypeOK /\ TypeOK' /\ FiguresAreStored /\ FiguresAreStored' /\ FiguresInv /\ [Next]_vars
    => [Store!SNext]_(Store!svars)
  <1> SUFFICES ASSUME TypeOK, TypeOK', FiguresAreStored, FiguresAreStored', FiguresInv,
                      [Next]_vars
               PROVE  Store!SNext \/ UNCHANGED Store!svars
    OBVIOUS
  <1> USE DEF Store!SNext, Store!svars
  <1>1. CASE full'
    <2>1. Figures' \in SUBSET (Name \X (1..MaxPieces))
      BY DEF Figures
    <2>2. Store!RunOut
      BY <1>1, <2>1 DEF Store!RunOut, Figures
    <2>3. QED BY <2>2
  <1>2. CASE ~full'
    <2>1. ~full /\ Figures = stored /\ Figures' = stored'
      BY <1>2, FullStays DEF FiguresAreStored
    <2>2. CASE writeLastBlock
      <3>1. PICK n \in Name, p \in 1..MaxPieces : n = writer.name /\ p = writer.pieces
        BY <2>2, SizeAssumption DEF writeLastBlock, TypeOK, Writer
      <3>2. Figures' = Figures \cup {<<n, p>>}
        BY <2>1, <2>2, <3>1 DEF writeLastBlock
      <3>3. \A q \in 1..MaxPieces : <<n, q>> \notin Figures
        BY <2>1, <2>2, <3>1 DEF FiguresInv, NameNew, writeLastBlock
      <3>4. Store!Write(n, p)
        <4>1. full' = full
          BY <2>2 DEF writeLastBlock
        <4>2. QED BY <2>1, <3>2, <3>3, <4>1 DEF Store!Write, Figures
      <3>5. QED BY <3>4
    <2>3. CASE UNCHANGED stored
      <3>1. Figures' = Figures /\ full' = full
        BY <1>2, <2>1, <2>3 DEF TypeOK
      <3>2. QED BY <3>1 DEF Figures
    <2>4. QED
      BY <2>2, <2>3
         DEF Next, vars, mountSystem, allocateInDirectory, writeFirstBlock, writeName,
             claimNextBlock, flushBlock, Crash
  <1>3. QED BY <1>1, <1>2

\* The steps of writeFile, the claims of blocks and the crashes between them implement
\* FigureStore: a figure is whole at one step, under a name that was new, and no step
\* makes part of a figure, or pieces of two, pass for a whole one, until the room
\* runs out.
THEOREM StoreRefined == Spec => RefinesStore
  <1>1. Init => Store!SInit
    BY NothingAtFirst DEF Init, Store!SInit
  <1>2. TypeOK /\ VolumeInv /\ FiguresInv => FiguresAreStored
    BY FiguresStored
  <1>3. QED
    BY <1>1, <1>2, StoreStep, FiguresAlways, PTL DEF Spec, RefinesStore, Store!SSpec

-----------------------------------------------------------------------------
(* A crash loses one block                                                 *)

LEMMA VisitedClosed == Visited \subseteq Block /\ Closed(Visited)
  BY DEF Visited, Closed

LEMMA VisitedClosedNext == Visited' \subseteq Block /\ Closed(Visited)'
  BY DEF Visited, Closed

\* What is visited stays so when only free entries and ends of chains are written.
LEMMA VisitedGrows ==
  ASSUME \A j \in 0..(Slots - 1) : dir[j].first \in Block => dir'[j].first = dir[j].first,
         \A c \in Block : disk[c].next \in Block => disk'[c].next = disk[c].next
  PROVE  Visited \subseteq Visited'
  <1>1. ASSUME NEW b \in Visited, NEW S \in SUBSET Block, Closed(S)' PROVE b \in S
    <2>1. Closed(S)
      BY <1>1 DEF Closed
    <2>2. QED BY <2>1 DEF Visited
  <1>2. QED BY <1>1 DEF Visited

LEMMA LostFinite ==
  ASSUME TypeOK
  PROVE  IsFiniteSet(Lost \ InFlight) /\ Cardinality(Lost \ InFlight) \in Nat
  <1>1. IsFiniteSet(1..size)
    BY FS_Interval DEF TypeOK
  <1>2. Lost \ InFlight \subseteq 1..size
    BY DEF Lost
  <1>3. IsFiniteSet(Lost \ InFlight)
    BY <1>1, <1>2, FS_Subset
  <1>4. QED BY <1>3, FS_CardinalityType

\* A step that loses nothing, and a step that loses one block and is counted.
LEMMA LostStep ==
  ASSUME TypeOK, TypeOK', Cardinality(Lost \ InFlight) <= crashes, NEW b,
         \/ (Lost \ InFlight)' \subseteq Lost \ InFlight /\ crashes' = crashes
         \/ (Lost \ InFlight)' \subseteq (Lost \ InFlight) \cup {b} /\ crashes' = crashes + 1
  PROVE  Cardinality((Lost \ InFlight)') <= crashes'
  <1> DEFINE L == Lost \ InFlight
  <1>1. IsFiniteSet(L) /\ Cardinality(L) \in Nat /\ Cardinality(L) <= crashes /\ crashes \in Nat
    BY LostFinite, SizeAssumption DEF TypeOK
  <1>2. PICK M : M = L'
    OBVIOUS
  <1> HIDE DEF L
  <1>3. CASE M \subseteq L /\ crashes' = crashes
    <2>1. Cardinality(M) <= Cardinality(L) /\ Cardinality(M) \in Nat
      <3>1. IsFiniteSet(M) /\ Cardinality(M) <= Cardinality(L)
        BY <1>1, <1>3, FS_Subset
      <3>2. QED BY <3>1, FS_CardinalityType
    <2>2. Cardinality(M) <= crashes'
      BY <1>1, <1>3, <2>1
    <2>3. QED BY <1>2, <2>2 DEF L
  <1>4. CASE M \subseteq L \cup {b} /\ crashes' = crashes + 1
    <2>1. /\ IsFiniteSet(L \cup {b})
          /\ Cardinality(L \cup {b}) = IF b \in L THEN Cardinality(L) ELSE Cardinality(L) + 1
      BY <1>1, FS_AddElement
    <2>2. IsFiniteSet(M) /\ Cardinality(M) <= Cardinality(L \cup {b})
      BY <1>4, <2>1, FS_Subset
    <2>3. Cardinality(M) \in Nat
      BY <2>2, FS_CardinalityType
    <2>4. Cardinality(M) <= crashes'
      BY <1>1, <1>4, <2>1, <2>2, <2>3
    <2>5. QED BY <1>2, <2>4 DEF L
  <1>5. QED BY <1>2, <1>3, <1>4 DEF L

\* A claim opens no chain and hides no block.
LEMMA ClaimLinks ==
  ASSUME TypeOK, FiguresInv, mounted, ~full, ~OutOfBlocks, NEW b \in Block,
         checkBlockAvaible(b), UNCHANGED <<dir, size>>
  PROVE  /\ Visited \subseteq Visited'
         /\ disk'[b].next \in {0, End}
         /\ \A c \in Block : c # b => disk'[c] = disk[c]
  <1> USE SizeAssumption
  <1>1. disk \in DiskType
    BY DEF TypeOK, DiskType
  <1>2. CASE IsFirst(b, Free) /\ disk' = [disk EXCEPT ![b].next = End]
    <2>1. disk[b].next = 0
      BY <1>1, <1>2 DEF IsFirst, Free
    <2>2. disk'[b].next = End /\ \A c \in Block : c # b => disk'[c] = disk[c]
      BY <1>1, <1>2 DEF DiskType
    <2>3. \A c \in Block : disk[c].next \in Block => disk'[c].next = disk[c].next
      BY <2>1, <2>2
    <2>4. QED BY <2>2, <2>3, VisitedGrows
  <1>3. CASE b = counter /\ UNCHANGED disk
    <2>1. disk'[b].next = 0
      BY <1>3 DEF TypeOK, CounterAhead, FiguresInv, UnwrittenBlank
    <2>2. QED BY <1>3, <2>1, VisitedGrows
  <1>4. QED BY <1>2, <1>3 DEF checkBlockAvaible, OutOfBlocks

LEMMA LinkedStep ==
  TypeOK /\ TypeOK' /\ VolumeInv /\ FiguresInv /\ LinkedInv /\ [Next]_vars => LinkedInv'
  <1> USE SizeAssumption
  <1> SUFFICES ASSUME TypeOK, TypeOK', VolumeInv, FiguresInv, LinkedInv, [Next]_vars,
                      ~full, ~full'
               PROVE  LinkedInv'
    BY FullStays DEF LinkedInv
  <1>1. /\ disk \in DiskType /\ counter \in Number /\ size \in 0..LastBlock
        /\ dir \in [0..(Slots - 1) -> [name : Name \cup {NoName}, first : Number]]
        /\ writer \in Writer /\ (writer.pc # "idle" => mounted)
    BY DEF TypeOK, DiskType
  <1>2. /\ EntryTaken /\ PendingClaimed
        /\ \A b \in Block : disk[b].next # 0 => b <= size
    BY DEF VolumeInv, FiguresInv, UnwrittenBlank
  <1>3. /\ writer.pc \in {"name", "content", "flush"} => writer.block \in Visited
        /\ \A b \in Pending : disk[b].next \in {0, End}
        /\ Cardinality(Lost \ InFlight) <= crashes
    BY DEF LinkedInv
  <1>4. ASSUME (Lost \ InFlight)' \subseteq Lost \ InFlight, crashes' = crashes
        PROVE  Cardinality((Lost \ InFlight)') <= crashes'
    BY <1>3, <1>4, LostStep
  \* A step that leaves the chains alone.
  <1>5. ASSUME UNCHANGED <<disk, size, crashes>>, Visited' = Visited, InFlight' = InFlight,
               Pending' \subseteq Pending,
               writer'.pc \in {"name", "content", "flush"} => writer'.block \in Visited
        PROVE  LinkedInv'
    <2>1. (Lost \ InFlight)' \subseteq Lost \ InFlight
      BY <1>5 DEF Lost
    <2>2. QED BY <1>3, <1>4, <1>5, <2>1 DEF LinkedInv
  <1>6. CASE UNCHANGED vars
    BY <1>3, <1>5, <1>6 DEF vars, volume, Visited, Closed, Pending, InFlight
  <1>7. CASE mountSystem
    BY <1>3, <1>5, <1>7 DEF mountSystem, Visited, Closed, Pending, InFlight
  <1>8. CASE Crash
    <2>1. /\ UNCHANGED <<dir, disk, size>> /\ writer'.pc = "idle" /\ crashes' = crashes + 1
      BY <1>8, IdleTyped DEF Crash, volume
    <2>2. Lost' = Lost /\ Pending' = {} /\ InFlight' = {}
      BY <2>1 DEF Lost, Visited, Closed, Pending, InFlight
    <2>3. PICK b : InFlight \subseteq {b}
      <3>1. InFlight \subseteq {writer.block} \/ InFlight \subseteq {writer.next}
        BY DEF InFlight
      <3>2. QED BY <3>1
    <2>4. (Lost \ InFlight)' \subseteq (Lost \ InFlight) \cup {b}
      BY <2>2, <2>3
    <2>5. Cardinality((Lost \ InFlight)') <= crashes'
      BY <1>3, <2>1, <2>4, LostStep
    <2>6. QED BY <2>1, <2>2, <2>5 DEF LinkedInv
  <1>9. ASSUME NEW n \in Name, NEW p \in 0..MaxPieces, allocateInDirectory(n, p)
        PROVE  LinkedInv'
    <2>1. PICK j \in 0..Slots, b \in Block :
            /\ IsEntryFor(j) /\ checkBlockAvaible(b)
            /\ writer' = NewEntry(n, p, j, b)
            /\ full' = (full \/ OutOfBlocks \/ j >= Slots - 1)
      BY <1>9 DEF allocateInDirectory
    <2>2. /\ mounted /\ ~OutOfBlocks /\ UNCHANGED <<dir, size, crashes>> /\ writer.pc = "idle"
      BY <1>9, <2>1 DEF allocateInDirectory
    <2>3. writer'.pc = "entry" /\ Pending' = {b} /\ InFlight = {} /\ InFlight' = {b}
      BY <2>1, <2>2 DEF NewEntry, Pending, InFlight
    <2>4. /\ Visited \subseteq Visited' /\ disk'[b].next \in {0, End}
          /\ \A c \in Block : c # b => disk'[c] = disk[c]
      BY <2>1, <2>2, ClaimLinks
    <2>5. (Lost \ InFlight)' \subseteq Lost \ InFlight
      BY <1>1, <2>2, <2>3, <2>4 DEF Lost
    <2>6. QED BY <1>4, <2>2, <2>3, <2>4, <2>5 DEF LinkedInv
  <1>10. CASE writeFirstBlock
    <2>1. /\ writer.pc = "entry" /\ writer.slot \in 0..(Slots - 1)
          /\ dir[writer.slot].first = 0 /\ writer.block \in Block
      BY <1>1, <1>2, <1>10 DEF writeFirstBlock, EntryTaken, Writer
    <2>2. /\ dir' = [dir EXCEPT ![writer.slot].first = writer.block]
          /\ UNCHANGED <<disk, size, crashes>>
      BY <1>1, <1>10, <2>1 DEF writeFirstBlock
    <2>3. /\ writer'.pc = "name" /\ writer'.block = writer.block
          /\ Pending' = Pending /\ InFlight = {writer.block} /\ InFlight' = {}
      BY <1>1, <1>10, <2>1 DEF writeFirstBlock, Writer, Pending, InFlight
    <2>4. /\ dir'[writer.slot].first = writer.block
          /\ \A i \in 0..(Slots - 1) : i # writer.slot => dir'[i] = dir[i]
      BY <1>1, <2>1, <2>2
    <2>5. Visited \subseteq Visited'
      <3>1. \A i \in 0..(Slots - 1) : dir[i].first \in Block => dir'[i].first = dir[i].first
        BY <2>1, <2>4
      <3>2. QED BY <2>2, <3>1, VisitedGrows
    <2>6. writer.block \in Visited'
      BY <2>1, <2>4, VisitedClosedNext DEF Closed
    <2>7. (Lost \ InFlight)' \subseteq Lost \ InFlight
      BY <2>2, <2>3, <2>5, <2>6 DEF Lost
    <2>8. QED BY <1>3, <1>4, <2>2, <2>3, <2>6, <2>7 DEF LinkedInv
  <1>11. CASE writeName
    <2>1. /\ writer.pc = "name" /\ writer.slot \in 0..(Slots - 1)
      BY <1>1, <1>2, <1>11 DEF writeName, EntryTaken, Writer
    <2>2. /\ dir' = [dir EXCEPT ![writer.slot].name = writer.name]
          /\ UNCHANGED <<disk, size, crashes>>
      BY <1>1, <1>11, <2>1 DEF writeName
    <2>3. writer'.pc = "idle" \/ (writer'.pc = "content" /\ writer'.block = writer.block)
      <3>1. CASE writer' = [writer EXCEPT !.pc = "content"]
        BY <1>1, <3>1 DEF Writer
      <3>2. QED BY <1>11, <3>1, IdleTyped DEF writeName
    <2>4. Pending' \subseteq Pending /\ InFlight' = InFlight
      BY <2>1, <2>3 DEF Pending, InFlight
    <2>5. \A i \in 0..(Slots - 1) : dir'[i].first = dir[i].first
      BY <1>1, <2>1, <2>2
    <2>6. Visited' = Visited
      BY <2>2, <2>5 DEF Visited, Closed
    <2>7. QED BY <1>3, <1>5, <2>1, <2>2, <2>3, <2>4, <2>6
  <1>12. CASE claimNextBlock
    <2>1. PICK b \in Block :
            checkBlockAvaible(b) /\ writer' = [writer EXCEPT !.pc = "flush", !.next = b]
      BY <1>12 DEF claimNextBlock
    <2>2. /\ writer.pc = "content" /\ mounted /\ ~OutOfBlocks
          /\ UNCHANGED <<dir, size, crashes>>
      BY <1>1, <1>12 DEF claimNextBlock
    <2>3. /\ writer'.pc = "flush" /\ writer'.next = b /\ writer'.block = writer.block
          /\ writer.block \in Block
      BY <1>1, <2>1 DEF Writer
    <2>4. /\ Pending = {writer.block} /\ Pending' = {writer.block, b}
          /\ InFlight = {} /\ InFlight' = {b}
      BY <2>2, <2>3 DEF Pending, InFlight
    <2>5. /\ Visited \subseteq Visited' /\ disk'[b].next \in {0, End}
          /\ \A c \in Block : c # b => disk'[c] = disk[c]
      BY <2>1, <2>2, ClaimLinks
    <2>6. (Lost \ InFlight)' \subseteq Lost \ InFlight
      BY <1>1, <2>2, <2>4, <2>5 DEF Lost
    <2>7. \A c \in Pending' : disk'[c].next \in {0, End}
      BY <1>3, <2>3, <2>4, <2>5
    <2>8. writer'.block \in Visited'
      BY <1>3, <2>2, <2>3, <2>5
    <2>9. QED BY <1>4, <2>2, <2>6, <2>7, <2>8 DEF LinkedInv
  \* A step that writes the block of the writer, which an entry leads to.
  <1>13. ASSUME NEW next, writer.pc \in {"content", "flush"}, WriteBlock(next),
                UNCHANGED <<dir, crashes>>, InFlight \subseteq {next}, InFlight' = {}
         PROVE  /\ \A c \in Block : c # writer.block => disk'[c] = disk[c]
                /\ next \in Block => next \in Visited'
                /\ Cardinality((Lost \ InFlight)') <= crashes'
    <2>1. writer.block \in Block /\ writer.block \in Visited
          /\ disk[writer.block].next \notin Block /\ InFlight \subseteq Block
      <3>1. disk[writer.block].next \in {0, End}
        BY <1>3, <1>13 DEF Pending
      <3>2. End \notin Block /\ 0 \notin Block
        OBVIOUS
      <3>3. QED BY <1>1, <1>3, <1>13, <3>1, <3>2 DEF Writer, InFlight
    <2>2. /\ disk'[writer.block].next = next
          /\ \A c \in Block : c # writer.block => disk'[c] = disk[c]
      BY <1>1, <1>13, <2>1 DEF WriteBlock, DiskType
    <2>3. size' = IF size > writer.block THEN size ELSE writer.block
      BY <1>13 DEF WriteBlock, Larger
    <2>4. Visited \subseteq Visited'
      <3>1. \A c \in Block : disk[c].next \in Block => disk'[c].next = disk[c].next
        BY <2>1, <2>2
      <3>2. QED BY <1>13, <3>1, VisitedGrows
    <2>5. next \in Block => next \in Visited'
      BY <2>1, <2>2, <2>4, VisitedClosedNext DEF Closed
    <2>6. ASSUME NEW c \in Lost' PROVE c \in Lost /\ c \notin InFlight
      <3>1. c \in 1..size' /\ c \notin Visited' /\ disk'[c].next # 0
        BY DEF Lost
      <3>2. c \in Block /\ c # writer.block
        BY <1>1, <2>1, <2>3, <2>4, <3>1
      <3>3. disk[c].next # 0 /\ c \in 1..size
        BY <1>1, <1>2, <2>2, <3>1, <3>2
      <3>4. QED BY <1>13, <2>1, <2>4, <2>5, <3>1, <3>3 DEF Lost
    <2>7. (Lost \ InFlight)' \subseteq Lost \ InFlight
      BY <2>6
    <2>8. QED BY <1>4, <1>13, <2>2, <2>5, <2>7
  <1>14. CASE flushBlock
    <2>1. /\ writer.pc = "flush" /\ WriteBlock(writer.next) /\ UNCHANGED <<dir, crashes>>
          /\ writer.next \in Block /\ writer.next # writer.block
      BY <1>1, <1>2, <1>14 DEF flushBlock, PendingClaimed, Writer
    <2>2. writer'.pc = "idle" \/ (writer'.pc = "content" /\ writer'.block = writer.next)
      <3>1. CASE writer' = [writer EXCEPT !.pc = "content", !.block = writer.next,
                                          !.piece = writer.piece + 1]
        BY <1>1, <3>1 DEF Writer
      <3>2. QED BY <1>14, <3>1, IdleTyped DEF flushBlock
    <2>3. /\ Pending' \subseteq {writer.next} /\ writer.next \in Pending
          /\ InFlight = {writer.next} /\ InFlight' = {}
      BY <2>1, <2>2 DEF Pending, InFlight
    <2>4. /\ disk'[writer.next] = disk[writer.next] /\ writer.next \in Visited'
          /\ Cardinality((Lost \ InFlight)') <= crashes'
      BY <1>13, <2>1, <2>3
    <2>5. QED BY <1>3, <2>2, <2>3, <2>4 DEF LinkedInv
  <1>15. CASE writeLastBlock
    <2>1. /\ writer.pc = "content" /\ WriteBlock(End) /\ UNCHANGED <<dir, crashes>>
          /\ writer'.pc = "idle"
      BY <1>15, IdleTyped DEF writeLastBlock
    <2>2. Pending' = {} /\ InFlight = {} /\ InFlight' = {}
      BY <2>1 DEF Pending, InFlight
    <2>3. Cardinality((Lost \ InFlight)') <= crashes'
      BY <1>13, <2>1, <2>2
    <2>4. QED BY <2>1, <2>2, <2>3 DEF LinkedInv
  <1>16. QED
    BY <1>6, <1>7, <1>8, <1>9, <1>10, <1>11, <1>12, <1>14, <1>15 DEF Next

\* A block in use that no entry leads to can only come from a crash, one from each: of
\* the two blocks that writeFile may hold, one is linked already.
THEOREM OneBlockLost == Spec => []CrashLosesOneBlock
  <1>1. Init => LinkedInv
    <2> SUFFICES ASSUME Init PROVE LinkedInv
      OBVIOUS
    <2>1. writer.pc = "idle" /\ size = 0 /\ Pending = {} /\ crashes = 0
      BY DEF Init, Idle, Pending
    <2>2. Lost \ InFlight = {}
      BY <2>1 DEF Lost
    <2>3. Cardinality(Lost \ InFlight) = 0
      BY <2>2, FS_EmptySet
    <2>4. QED BY <2>1, <2>3 DEF LinkedInv
  <1>2. TypeOK /\ LinkedInv => CrashLosesOneBlock
    <2> SUFFICES ASSUME LinkedInv, writer.pc = "idle", ~full
                 PROVE  Cardinality(Lost) <= crashes
      BY DEF CrashLosesOneBlock
    <2>1. Lost \ InFlight = Lost
      BY DEF InFlight
    <2>2. QED BY <2>1 DEF LinkedInv
  <1>3. QED BY <1>1, <1>2, LinkedStep, FiguresAlways, PTL DEF Spec

=============================================================================
