--------------------------- MODULE SimulationDisk ---------------------------
(***************************************************************************)
(* The disk of the simulation's server (FileSystem.c, Structures.c), as    *)
(* functions of its contents: the server writes its figures before the     *)
(* threads start, one call after the other, and then only reads.           *)
(*                                                                         *)
(* A figure is the sequence of pieces its file is read in, the last one    *)
(* shorter than the others; a file that cannot be opened is Unreadable.    *)
(* Blocks are numbered from 1, as in disk.dat, where 0 is the directory.   *)
(***************************************************************************)
EXTENDS Integers, Sequences, SequencesExt

Last255 == 255    \* no next block
EXIT_FAILURE == 1
Slots == 15       \* entries that existFile finds, but for the last one
Nothing == "nothing"
Unreadable == <<>>

Block(piece, next) == [piece |-> piece, next |-> next]
NoDisk == [mounted |-> FALSE, directory |-> <<>>, counter |-> 0, blocks |-> <<>>]
Entry(name, first) == [name |-> name, firstBlock |-> first]

checkMounted(disk) == disk.mounted
mountSystem(disk) ==
    IF checkMounted(disk) THEN disk ELSE [NoDisk EXCEPT !.mounted = TRUE, !.counter = 1]

-----------------------------------------------------------------------------
\* Writing beyond the end of disk.dat leaves zeros in between.
Put(disk, b, block) ==
    [disk EXCEPT !.blocks =
        [k \in 1..(IF b > Len(@) THEN b ELSE Len(@)) |->
            IF k = b THEN block ELSE IF k \in DOMAIN @ THEN @[k] ELSE Block(Nothing, 0)]]

\* The first block within disk.dat without a next, reserved, or the counter's.
checkBlockAvaible(disk) ==
    LET holes == {b \in DOMAIN disk.blocks : disk.blocks[b].next = 0}
        hole == CHOOSE b \in holes : \A c \in holes : b <= c
    IN IF holes # {}
       THEN [number |-> hole, disk |-> [disk EXCEPT !.blocks[hole].next = Last255]]
       ELSE IF disk.counter # Last255
       THEN [number |-> disk.counter, disk |-> [disk EXCEPT !.counter = @ + 1]]
       ELSE [number |-> EXIT_FAILURE, disk |-> disk]

\* extractContent: a piece that is short ends the file.
Finishes(source, k) == k = Len(source)

\* A block is on the disk once the next one has been found.
allocateContent(disk, firstBlock, source) ==
    LET Step(s, k) ==
            LET next == checkBlockAvaible(s.disk)
            IN IF Finishes(source, k)
               THEN [s EXCEPT !.disk = Put(@, s.block, Block(source[k], Last255))]
               ELSE [disk |-> Put(next.disk, s.block, Block(source[k], next.number)),
                     block |-> next.number]
    IN FoldLeft(Step, [disk |-> disk, block |-> firstBlock], [k \in DOMAIN source |-> k]).disk

Position(disk, name) == SelectInSeq(disk.directory, LAMBDA e : e.name = name)
existFile(disk, name) == Position(disk, name) \in 1..(Slots - 1)

\* The entry is written before its content, after the last one.
allocateInDirectory(disk, name) ==
    LET first == checkBlockAvaible(disk)
    IN [number |-> first.number,
        disk |-> [first.disk EXCEPT !.directory = Append(@, Entry(name, first.number))]]

writeFile(disk, name, source) ==
    IF ~checkMounted(disk) \/ existFile(disk, name) THEN disk
    ELSE LET entry == allocateInDirectory(disk, name)
         IN allocateContent(entry.disk, entry.number, source)

-----------------------------------------------------------------------------
existASCII(disk, name) == Position(disk, name) \in 1..(Slots - 1)

\* Block 0 is the first one of the figure.
extractBlock(disk, name, number) ==
    LET b == IF number = 0 THEN disk.directory[Position(disk, name)].firstBlock ELSE number
    IN IF b \in DOMAIN disk.blocks THEN disk.blocks[b] ELSE Block(Nothing, 0)

\* The loop over the blocks, cut off after every block was read once.
getCase(disk, name) ==
    LET Step(s, k) ==
            IF s.next = Last255 THEN s
            ELSE LET block == extractBlock(disk, name, s.next)
                 IN [next |-> block.next, art |-> Append(s.art, block.piece)]
        art == FoldLeft(Step, [next |-> 0, art |-> <<>>], [k \in 1..(Len(disk.blocks) + 1) |-> k]).art
    IN IF existASCII(disk, name) THEN art ELSE Unreadable

\* The same figure, printed: the first block, then the others.
showContent(disk, name) ==
    LET first == extractBlock(disk, name, 0)
        Step(s, k) ==
            IF s.next = Last255 THEN s
            ELSE LET block == extractBlock(disk, name, s.next)
                 IN [next |-> block.next, printed |-> Append(s.printed, block.piece)]
    IN IF existFile(disk, name)
       THEN FoldLeft(Step, [next |-> first.next, printed |-> <<first.piece>>],
                     [k \in 1..Len(disk.blocks) |-> k]).printed
       ELSE Unreadable

\* The constructor: the figures, written in this order to the disk it finds.
ColabProtocolHandler(disk, order, sources) ==
    FoldLeft(LAMBDA d, name : writeFile(d, name, sources[name]), mountSystem(disk), order)
=============================================================================
