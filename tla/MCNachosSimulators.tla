------------------------- MODULE MCNachosSimulators -------------------------
(***************************************************************************)
(* Programs for the two simulators.  A byte has 2 bits and a word 8.       *)
(***************************************************************************)
EXTENDS NachosSimulators, TLC

CONSTANTS t0, t1

I(op, rd, rs, rt, extra) == [op |-> op, rd |-> rd, rs |-> rs, rt |-> rt, extra |-> extra]
R(op, rd, rs, rt) == I(op, rd, rs, rt, 0)
Imm(op, rt, rs, extra) == I(op, 0, rs, rt, extra)
Nop == I("SLL", 0, 0, 0, 0)
ExitCall == <<Imm("ADDIU", 2, 0, 1), I("SYSCALL", 0, 0, 0, 0)>>

\* The data is at 80, and the two operands are its first words.
DataAt == 80
Operands == <<Imm("LUI", 5, 0, 5), Imm("LW", 1, 5, 0), Imm("LW", 3, 5, 4), Nop>>
\* After the instruction, its result is stored in the stack and loaded again.
Keep == <<Nop, Imm("SW", 4, 29, 0), Imm("LW", 4, 29, 0)>>
Program(middle) == Operands \o middle \o Keep \o ExitCall

\* The child uses the stack at the same address.
Child == <<Imm("LUI", 5, 0, 5), Imm("LW", 1, 5, 0), Nop, Imm("SW", 1, 29, 0),
           Imm("LW", 3, 29, 0), Imm("ADDIU", 2, 0, 1), R("ADDU", 1, 1, 3),
           I("SYSCALL", 0, 0, 0, 0)>>
\* Fork, which is call 9, of the function at 48.
ForkCall == <<Imm("ORI", 2, 0, 7), Imm("ADDIU", 2, 2, 2), Imm("LUI", 4, 0, 3),
              I("SYSCALL", 0, 0, 0, 0)>>
Forking(i) ==
    SubSeq(Operands, 1, 3) \o ForkCall \o <<i, Imm("SW", 4, 29, 0), Imm("LW", 4, 29, 0)>>
        \o ExitCall \o Child

TextBytes(n) == FoldLeft(LAMBDA b, k : b \o BytesOf(k, 4), <<>>, [k \in 1..n |-> k])
Section(name, at, bytes) ==
    [name |-> name, paddr |-> at, size |-> Len(bytes), bytes |-> bytes]
ZeroBytes(n) == [k \in 1..n |-> 0]
\* The sections touch, as ld -N leaves them, in the order of the linker or another.
Sections(text, a, b, kind) ==
    LET code == Section(".text", 0, TextBytes(Len(text)) \o ZeroBytes(DataAt - 4 * Len(text)))
        data == Section(IF kind = "rdata" THEN ".rdata" ELSE ".data", DataAt,
                        BytesOf(a, 4) \o BytesOf(b, 4))
        bss == [Section(".bss", DataAt + 8, ZeroBytes(8)) EXCEPT !.bytes = <<>>]
    IN IF kind = "swapped" THEN <<bss, data, code>> ELSE <<code, data, bss>>
Image(text, a, b, kind) == [text |-> text, coff |-> Sections(text, a, b, kind)]

Values == {0, 3, 100, 127, 128, 254}

ThreeRegisters == {R(op, 4, 1, 3) : op \in
    {"ADDU", "SUBU", "AND", "XOR", "NOR", "SLT", "SLTU"}}
Shifts == {I(op, 4, 0, 1, 3) : op \in {"SLL", "SRA"}}
VariableShifts == {R(op, 4, 3, 1) : op \in {"SLLV", "SRAV"}}
Immediates == {Imm(op, 4, 1, x) : op \in {"ADDIU", "SLTI", "SLTIU"}, x \in {7, 13}}
    \cup {Imm(op, 4, 1, 6) : op \in {"ANDI", "ORI", "XORI"}}
SubWordLoads == {Imm(op, 4, 5, x) : op \in {"LB", "LBU"}, x \in {1, 5}}
    \cup {Imm(op, 4, 5, x) : op \in {"LH", "LHU"}, x \in {2, 4}}
SubWordStores == {Imm("SB", 1, 5, 5), Imm("SH", 1, 5, 6), Imm("SW", 3, 5, 0)}
Branches == {I(op, 0, 1, 3, 2) : op \in
    {"BEQ", "BNE", "BGEZ", "BLTZ", "BLEZ", "BGTZ", "BGEZAL", "BLTZAL"}}
OneOperation == ThreeRegisters \cup Shifts \cup VariableShifts \cup Immediates
    \cup SubWordLoads \cup SubWordStores \cup Branches \cup
    {I("J", 0, 0, 0, 6), I("JAL", 0, 0, 0, 6), Imm("LWL", 4, 5, 4), Imm("SWL", 3, 5, 0),
     R("ADDU", 0, 1, 3), Imm("LW", 0, 5, 0)}

Alone == {Image(Program(<<i>>), a, b, "data") : i \in OneOperation, a \in Values, b \in Values}

\* Products without a carry out of the low halves, quotients by something.
Products == {<<a, b>> \in Values \X Values : Signed(a) \in -5..5 /\ Signed(b) \in -3..3}
Quotients == {<<a, b>> \in Values \X Values : b # 0}
HiLo(op, ab) == Image(Program(<<R(op, 0, 1, 3), R("MFHI", 4, 0, 0), R("MFLO", 3, 0, 0)>>),
                      ab[1], ab[2], "rdata")
Divisions == {HiLo("MULT", ab) : ab \in Products}
    \cup {HiLo(op, ab) : op \in {"DIV", "DIVU"}, ab \in Quotients}

Together == {Image(Forking(i), a, 40, kind) :
    i \in {R("SUBU", 4, 1, 3), Imm("LW", 3, 5, 0), I("BEQ", 0, 1, 3, 2), R("MTHI", 0, 1, 0),
           R("JR", 0, 3, 0), R("JALR", 4, 3, 0), R("ADD", 4, 1, 3), Imm("ADDI", 4, 1, 7)},
    a \in {40, 130}, kind \in {"data", "rdata", "swapped"}}

\* The flat file of coff2flat.c is the memory that main.c loads, followed by a
\* stack of zeros, if its sections are in the order of their addresses.
FlatIsMemory(coff) ==
    LET flat == Coff2Flat(coff)
        loaded == LoadCoff(coff, 0..(Len(flat) - 1))
    IN \A a \in DOMAIN loaded : flat[a + 1] = loaded[a]
ASSUME FlatFilesAreMemory ==
    \A a, b \in Values, kind \in {"data", "rdata", "swapped"} :
        FlatIsMemory(Sections(Program(<<Nop>>), a, b, kind)) <=> kind # "swapped"

\* out.c and disasm.c print the same line for every word of .text.
ASSUME ListingsAgree ==
    \A i \in OneOperation, kind \in {"data", "swapped"} :
        LET text == Program(<<i>>)
            coff == Sections(text, 3, 100, kind)
            listing == Listed!Listing(coff, text)
        IN \A pc \in DOMAIN listing : Listed!OutListing(coff, text)[pc] = listing[pc]

MCImages == Alone \cup Divisions \cup Together
\* The logical operation of two registers.
OrImages == {Image(Program(<<R("OR", 4, 1, 3)>>), a, b, "data") : a \in Values, b \in Values}
=============================================================================
