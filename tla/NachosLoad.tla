----------------------------- MODULE NachosLoad -----------------------------
(***************************************************************************)
(* From a COFF file to memory, three ways: coff2noff.c makes the file that *)
(* NachOS runs, AddrSpace loads it page by page, and main.c of the         *)
(* stand-alone interpreter loads the COFF file itself.                     *)
(*                                                                         *)
(* A COFF file is its list of sections, each with a name, an address, a    *)
(* size and, but for .bss and .sbss, its bytes.                            *)
(***************************************************************************)
EXTENDS Integers, Sequences, SequencesExt, FiniteSetsExt

CONSTANTS PageSize, UserStackSize, NumPhysPages

ASSUME LoadAssumption ==
    /\ PageSize \in Nat \ {0} /\ UserStackSize \in Nat \ {0}
    /\ NumPhysPages \in Nat \ {0}

NoSegment == [virtualAddr |-> 0, inFileAddr |-> 0, size |-> 0]
EmptyNoff == [code |-> NoSegment, initData |-> NoSegment, uninitData |-> NoSegment,
              file |-> <<>>, ok |-> TRUE]
Rejected(noff) == [noff EXCEPT !.ok = FALSE]

\* The bytes go to the end of the output file.
CopySegment(noff, which, section) ==
    [noff EXCEPT ![which] = [virtualAddr |-> section.paddr,
                             inFileAddr |-> Len(noff.file), size |-> section.size],
                 !.file = @ \o section.bytes]

CopyData(noff, section) ==
    IF noff.initData.size # 0 THEN Rejected(noff) ELSE CopySegment(noff, "initData", section)

\* The test is the opposite of the one the comment announces.
AddUninitialised(noff, section) ==
    LET u == noff.uninitData
    IN IF u.size = 0
       THEN [noff EXCEPT !.uninitData = [virtualAddr |-> section.paddr, inFileAddr |-> 0,
                                         size |-> section.size]]
       ELSE IF section.paddr = u.virtualAddr + u.size THEN Rejected(noff)
       ELSE [noff EXCEPT !.uninitData.size = @ + section.size]

ConvertSection(noff, section) ==
    IF ~noff.ok \/ section.size = 0 THEN noff
    ELSE CASE section.name = ".text" -> CopySegment(noff, "code", section)
           [] section.name \in {".data", ".rdata"} -> CopyData(noff, section)
           [] section.name \in {".bss", ".sbss"} -> AddUninitialised(noff, section)
           [] OTHER -> Rejected(noff)

Coff2Noff(coff) == FoldLeft(ConvertSection, EmptyNoff, coff)

\* coff2flat.c: the sections one after the other, wherever their addresses are,
\* and zeros up to the top of the highest one and of a stack.
Coff2Flat(coff) ==
    LET Copied(k) == coff[k].name \notin {".bss", ".sbss"}
        Bytes == FlattenSeq([k \in DOMAIN coff |-> IF Copied(k) THEN coff[k].bytes ELSE <<>>])
        top == Max({0} \cup {coff[k].paddr + coff[k].size : k \in DOMAIN coff})
        ByteAt(a) == IF a \in DOMAIN Bytes /\ a <= top + UserStackSize - 4 THEN Bytes[a] ELSE 0
    IN [a \in 1..(top + UserStackSize) |-> ByteAt(a)]

-----------------------------------------------------------------------------
divRoundUp(n, s) == (n + s - 1) \div s
StackPages == divRoundUp(UserStackSize, PageSize)

PagesFor(noff) ==
    divRoundUp(noff.code.size + noff.initData.size + noff.uninitData.size + UserStackSize,
               PageSize)

\* Page v is in frame pages[v + 1].
Physical(pages, virtual) == pages[virtual \div PageSize + 1] * PageSize + (virtual % PageSize)

\* The loop over the pages of a segment: the page of each frame, and its bytes.
LoadSegment(memory, noff, segment, pages) ==
    LET PageOf(frame) == CHOOSE v \in DOMAIN pages : pages[v] = frame
        Offset(p) == (PageOf(p \div PageSize) - 1) * PageSize + (p % PageSize)
                        - segment.virtualAddr
        Covers(p) == /\ \E v \in DOMAIN pages : pages[v] = p \div PageSize
                     /\ Offset(p) \in 0..(segment.size - 1)
    IN [p \in DOMAIN memory |->
            IF Covers(p) THEN noff.file[segment.inFileAddr + Offset(p) + 1] ELSE memory[p]]

\* The constructor of the first address space: its frames are the first ones.
FirstPages(noff) == [v \in 1..PagesFor(noff) |-> v - 1]
LoadNoff(noff) ==
    LET zeroed == [p \in 0..(NumPhysPages * PageSize - 1) |-> 0]
        code == LoadSegment(zeroed, noff, noff.code, FirstPages(noff))
    IN LoadSegment(code, noff, noff.initData, FirstPages(noff))

ForkedPages_AllShared(pages, used) == pages
\* The stack of the child is private: the least free frames.
ForkedPages(pages, used) ==
    LET shared == Len(pages) - StackPages
        free == SetToSortSeq((0..(NumPhysPages - 1)) \ used, <)
    IN [v \in 1..Len(pages) |-> IF v <= shared THEN pages[v] ELSE free[v - shared]]

-----------------------------------------------------------------------------
\* load_program of the interpreter: sections without a place in the file are
\* left zero, and only these names are looked for.
Loaded == {".text", ".rdata", ".data", ".sdata"}
SectionBytes(section) == section.paddr..(section.paddr + section.size - 1)
LoadCoff(coff, addresses) ==
    LET Covers(k, a) == coff[k].name \in Loaded /\ a \in SectionBytes(coff[k])
        ByteAt(a) == LET k == CHOOSE k \in DOMAIN coff : Covers(k, a)
                     IN coff[k].bytes[a - coff[k].paddr + 1]
    IN [a \in addresses |-> IF \E k \in DOMAIN coff : Covers(k, a) THEN ByteAt(a) ELSE 0]
=============================================================================
