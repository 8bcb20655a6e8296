---------------------------- MODULE Disassembler ----------------------------
(***************************************************************************)
(* The disassembler of bin/ (out.c, disasm.c, d.c, opstrings.c): the line  *)
(* it prints for each word of .text.  A line is the name of the            *)
(* instruction and its operands, registers as their numbers; columns and   *)
(* bases are left out.  Instructions are the records of NachosMachine.     *)
(***************************************************************************)
EXTENDS MipsWords, NachosLoad, TLC

\* encode.h: the opcodes, and the codes of the I_SPECIAL and I_BCOND families.
NormalCodes ==
    [J |-> 2, JAL |-> 3, BEQ |-> 4, BNE |-> 5, BLEZ |-> 6, BGTZ |-> 7, ADDI |-> 8, ADDIU |-> 9,
     SLTI |-> 10, SLTIU |-> 11, ANDI |-> 12, ORI |-> 13, XORI |-> 14, LUI |-> 15,
     LB |-> 32, LH |-> 33, LWL |-> 34, LW |-> 35, LBU |-> 36, LHU |-> 37, LWR |-> 38,
     SB |-> 40, SH |-> 41, SWL |-> 42, SW |-> 43, SWR |-> 46]
SpecialCodes ==
    [SLL |-> 0, SRL |-> 2, SRA |-> 3, SLLV |-> 4, SRLV |-> 6, SRAV |-> 7, JR |-> 8, JALR |-> 9,
     SYSCALL |-> 12, MFHI |-> 16, MTHI |-> 17, MFLO |-> 18, MTLO |-> 19,
     MULT |-> 24, MULTU |-> 25, DIV |-> 26, DIVU |-> 27,
     ADD |-> 32, ADDU |-> 33, SUB |-> 34, SUBU |-> 35, AND |-> 36, OR |-> 37, XOR |-> 38,
     NOR |-> 39, SLT |-> 42, SLTU |-> 43]
BcondCodes == [BLTZ |-> 0, BGEZ |-> 1, BLTZAL |-> 16, BGEZAL |-> 17]

\* opstrings.c: the name of each code, from code 0; codes without an
\* instruction have themselves as names.
normalops ==
    <<"special", "bcond", "j", "jal", "beq", "bne", "blez", "bgtz",
      "addi", "addiu", "slti", "sltiu", "andi", "ori", "xori", "lui",
      "cop0", "cop1", "cop2", "cop3", "024", "025", "026", "027",
      "030", "031", "032", "033", "034", "035", "036", "037",
      "lb", "lh", "lwl", "lw", "lbu", "lhu", "lwr", "047",
      "sb", "sh", "swl", "sw", "054", "055", "swr", "057",
      "lwc0", "lwc1", "lwc2", "lwc3", "064", "065", "066", "067",
      "swc0", "swc1", "swc2", "swc3", "074", "075", "076", "077">>
specialops ==
    <<"sll", "001", "srl", "sra", "sllv", "005", "srlv", "srav",
      "jr", "jalr", "012", "013", "syscall", "break", "016", "017",
      "mfhi", "mthi", "mflo", "mtlo", "024", "025", "026", "027",
      "mult", "multu", "div", "divu", "034", "035", "036", "037",
      "add", "addu", "sub", "subu", "and", "or", "xor", "nor",
      "050", "051", "slt", "sltu", "054", "055", "056", "057",
      "060", "061", "062", "063", "064", "065", "066", "067",
      "070", "071", "072", "073", "074", "075", "076", "077">>

-----------------------------------------------------------------------------
\* Fields of an instruction, as d.c prints them.
signedField(i) == Extend(i.extra % Half, Half)
off16(i) == Wrap(4 * signedField(i))
off26(i) == 4 * i.extra
top4(pc) == LET segment == 2 ^ (7 * (ByteBits \div 2)) IN pc - (pc % segment)

\* JALR prints rs alone, MFLO its rs and MTHI its rd: the cases share a label.
special(i) ==
    LET op == i.op
        operands ==
            CASE op \in {"SLL", "SRL", "SRA"} -> <<i.rd, i.rt, i.extra>>
              [] op \in {"SLLV", "SRLV", "SRAV"} -> <<i.rd, i.rt, i.rs>>
              [] op \in {"JR", "JALR", "MFLO", "MTLO"} -> <<i.rs>>
              [] op \in {"MFHI", "MTHI"} -> <<i.rd>>
              [] op \in {"MULT", "MULTU", "DIV", "DIVU"} -> <<i.rs, i.rt>>
              [] op \in {"ADD", "ADDU", "SUB", "SUBU", "AND", "OR", "XOR", "NOR", "SLT", "SLTU"} ->
                    <<i.rd, i.rs, i.rt>>
              [] OTHER -> <<>>
    IN <<specialops[SpecialCodes[op] + 1], operands>>

bcond(i, pc) ==
    LET name == CASE BcondCodes[i.op] = 0 -> "bltz"
                  [] BcondCodes[i.op] = 1 -> "bgez"
                  [] BcondCodes[i.op] = 16 -> "bltzal"
                  [] BcondCodes[i.op] = 17 -> "bgezal"
    IN <<name, <<i.rs, Wrap(off16(i) + pc + 4)>>>>

AddressOperands_NoTarget(i) == <<signedField(i), i.rs>>
AddressOperands(i) == <<i.rt, signedField(i), i.rs>>
\* BLEZ and BGTZ have no case: their lines have no operands.
normal(i, pc) ==
    LET op == i.op
        operands ==
            CASE op \in {"J", "JAL"} -> <<top4(pc) + off26(i)>>
              [] op \in {"BEQ", "BNE"} -> <<i.rt, i.rs, Wrap(off16(i) + pc + 4)>>
              [] op \in {"ADDI", "ADDIU", "SLTI", "SLTIU", "ANDI", "ORI", "XORI"} ->
                    <<i.rt, i.rs, signedField(i)>>
              [] op = "LUI" -> <<i.rt, signedField(i)>>
              [] op \in {"LB", "LH", "LWL", "LW", "LBU", "LHU", "LWR",
                         "SB", "SH", "SWL", "SW", "SWR"} -> AddressOperands(i)
              [] OTHER -> <<>>
    IN <<normalops[NormalCodes[op] + 1], operands>>

\* The word 0 is nop, whatever instruction it encodes.
IsNop(i) == i.op = "SLL" /\ i.rd = 0 /\ i.rt = 0 /\ i.extra = 0
dump_ascii(i, pc) ==
    CASE IsNop(i) -> <<"nop", <<>>>>
      [] i.op \in DOMAIN SpecialCodes -> special(i)
      [] i.op \in DOMAIN BcondCodes -> bcond(i, pc)
      [] i.op \in DOMAIN NormalCodes -> normal(i, pc)

\* load_program and disasm: one line for every word of .text, at the addresses
\* from the start of the memory, wherever the section says it is.
memoffset == 0
TextOf(coff) == coff[CHOOSE k \in DOMAIN coff : coff[k].name = ".text"]
Listing(coff, text) ==
    LET size == TextOf(coff).size
        mem == LoadCoff(coff, memoffset..(memoffset + size - 1))
        WordAt(pc) == WordOf([k \in 1..4 |-> mem[pc + k - 1]])
        Line(pc) == IF WordAt(pc) = 0 THEN <<"nop", <<>>>> ELSE dump_ascii(text[WordAt(pc)], pc)
    IN [pc \in {memoffset + 4 * k : k \in 0..((size - 1) \div 4)} |-> Line(pc)]

\* The other program over d.c, out.c, prints every section at its own addresses
\* and the words of data as numbers; .bss has nothing to print.
PrintSection(section, text) ==
    LET WordAt(pc) == WordOf(SubSeq(section.bytes, pc - section.paddr + 1, pc - section.paddr + 4))
        TextLine(pc) == IF WordAt(pc) = 0 THEN <<"nop", <<>>>> ELSE dump_ascii(text[WordAt(pc)], pc)
    IN [pc \in {section.paddr + 4 * k : k \in 0..(Len(section.bytes) \div 4 - 1)} |->
            IF section.name = ".text" THEN TextLine(pc) ELSE <<"word", <<WordAt(pc)>>>>]
OutListing(coff, text) ==
    FoldLeft(LAMBDA lines, section : PrintSection(section, text) @@ lines, <<>>, coff)
=============================================================================
