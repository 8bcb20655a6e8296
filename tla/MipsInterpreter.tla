-------------------------- MODULE MipsInterpreter --------------------------
(***************************************************************************)
(* The stand-alone interpreter of MIPS programs kept in bin/ (execute.c,   *)
(* system.c): one turn of the loop of runprogram, on the record s of its   *)
(* globals and locals.  There is no load delay and no address translation; *)
(* "on" is FALSE once it has given up or exited, "wrote" are the addresses *)
(* it has stored to.                                                       *)
(***************************************************************************)
EXTENDS MipsWords, FiniteSets

\* Where the loop begins.
Started(Reg, HI, LO, pc, npc, mem) ==
    [Reg |-> Reg, HI |-> HI, LO |-> LO, pc |-> pc, npc |-> npc, mem |-> mem,
     on |-> TRUE, wrote |-> {}]

fetch(s, a, n) == WordOf([k \in 1..n |-> s.mem[a + k - 1]])
store(s, a, n, v) ==
    LET cells == a..(a + n - 1)
    IN [s EXCEPT !.mem = [b \in DOMAIN s.mem |->
                            IF b \in cells THEN BytesOf(v, n)[b - a + 1] ELSE s.mem[b]],
                 !.wrote = @ \cup cells]

immed(i) == Extend(i.extra % Half, Half)
set(s, r, v) == [s EXCEPT !.Reg[r] = v]
unimplemented(s) == [s EXCEPT !.on = FALSE]

\* I_MULT and I_MULTU: HI without the carries of the low halves.
MultHigh(t1, t2) ==
    LET l1 == t1 % Half  h1 == t1 \div Half
        l2 == t2 % Half  h2 == t2 \div Half
    IN Wrap(h1 * h2 + ((h1 * l2) \div Half) + ((h2 * l1) \div Half))
multiply(s, t1, t2, signed) ==
    LET neg == signed /\ Negative(t1) # Negative(t2)
        positive(x) == IF signed /\ Negative(x) THEN Wrap(-x) ELSE x
        low == Wrap(positive(t1) * positive(t2))
        high == MultHigh(positive(t1), positive(t2))
        complement == Wrap(-low)
    IN IF ~neg THEN [s EXCEPT !.LO = low, !.HI = high]
       ELSE [s EXCEPT !.LO = complement,
                      !.HI = Wrap(Invert(high) + (IF complement = 0 THEN 1 ELSE 0))]

\* I_SPECIAL, but for the jumps and the traps.  The host masks a shift count.
special(i, s) ==
    LET rs == s.Reg[i.rs]
        rt == s.Reg[i.rt]
        count == rs % WordBits
    IN CASE i.op = "SLL" -> set(s, i.rd, ShiftLeft(rt, i.extra))
         [] i.op = "SRL" -> set(s, i.rd, ShiftRight(rt, i.extra))
         [] i.op = "SRA" -> set(s, i.rd, ShiftArithmetic(rt, i.extra))
         [] i.op = "SLLV" -> set(s, i.rd, ShiftLeft(rt, count))
         [] i.op = "SRLV" -> set(s, i.rd, ShiftRight(rt, count))
         [] i.op = "SRAV" -> set(s, i.rd, ShiftArithmetic(rt, count))
         [] i.op = "MFHI" -> set(s, i.rd, s.HI)
         [] i.op = "MTHI" -> [s EXCEPT !.HI = rs]
         [] i.op = "MFLO" -> set(s, i.rd, s.LO)
         [] i.op = "MTLO" -> [s EXCEPT !.LO = rs]
         [] i.op = "MULT" -> multiply(s, rs, rt, TRUE)
         [] i.op = "MULTU" -> multiply(s, rs, rt, FALSE)
         [] i.op = "DIV" -> [s EXCEPT !.LO = Wrap(Quotient(Signed(rs), Signed(rt))),
                                      !.HI = Wrap(Remainder(Signed(rs), Signed(rt)))]
         [] i.op = "DIVU" -> [s EXCEPT !.LO = rs \div rt, !.HI = rs % rt]
         [] i.op \in {"ADD", "ADDU"} -> set(s, i.rd, Wrap(rs + rt))
         [] i.op \in {"SUB", "SUBU"} -> set(s, i.rd, Wrap(rs - rt))
         [] i.op = "AND" -> set(s, i.rd, rs & rt)
         [] i.op = "OR" -> set(s, i.rd, rs | rt)
         [] i.op = "XOR" -> set(s, i.rd, rs ^^ rt)
         [] i.op = "NOR" -> set(s, i.rd, Invert(rs | rt))
         [] i.op = "SLT" -> set(s, i.rd, IF Signed(rs) < Signed(rt) THEN 1 ELSE 0)
         [] i.op = "SLTU" -> set(s, i.rd, IF rs < rt THEN 1 ELSE 0)
         [] OTHER -> unimplemented(s)

\* The immediates are sign-extended, those of the logical operations too.
immediate(i, s) ==
    LET rs == s.Reg[i.rs]
        x == immed(i)
    IN CASE i.op \in {"ADDI", "ADDIU"} -> set(s, i.rt, Wrap(rs + x))
         [] i.op = "SLTI" -> set(s, i.rt, IF Signed(rs) < Signed(x) THEN 1 ELSE 0)
         [] i.op = "SLTIU" -> set(s, i.rt, IF rs < x THEN 1 ELSE 0)
         [] i.op = "ANDI" -> set(s, i.rt, rs & x)
         [] i.op = "ORI" -> set(s, i.rt, rs | x)
         [] i.op = "XORI" -> set(s, i.rt, rs ^^ x)
         [] i.op = "LUI" -> set(s, i.rt, ShiftLeft(i.extra, 2 * ByteBits))

\* I_BCOND and the branches: xpc is the address of the instruction.
branches(i, s, xpc) ==
    LET r == IF i.op \in {"BLTZAL", "BGEZAL"} THEN set(s, 31, Wrap(xpc + 8)) ELSE s
        v == Signed(r.Reg[i.rs])
        taken == CASE i.op \in {"BLTZ", "BLTZAL"} -> v < 0
                   [] i.op \in {"BGEZ", "BGEZAL"} -> v >= 0
                   [] i.op = "BLEZ" -> v <= 0
                   [] i.op = "BGTZ" -> v > 0
                   [] i.op = "BEQ" -> r.Reg[i.rs] = r.Reg[i.rt]
                   [] i.op = "BNE" -> r.Reg[i.rs] # r.Reg[i.rt]
    IN IF taken THEN [r EXCEPT !.npc = Wrap(xpc + 4 + 4 * immed(i))] ELSE r

jumps(i, s, xpc) ==
    LET segment == 2 ^ (7 * (ByteBits \div 2))
        target == (xpc - (xpc % segment)) + ((4 * i.extra) % segment)
    IN CASE i.op = "J" -> [s EXCEPT !.npc = target]
         [] i.op = "JAL" -> [set(s, 31, Wrap(xpc + 8)) EXCEPT !.npc = target]
         [] i.op = "JR" -> [s EXCEPT !.npc = s.Reg[i.rs]]
         [] i.op = "JALR" -> [set(s, i.rd, Wrap(xpc + 8)) EXCEPT !.npc = s.Reg[i.rs]]

\* LWL and LWR shift whole words; SWL and SWR are not there.
partial(i, s) ==
    LET a == Wrap(s.Reg[i.rs] + immed(i))
        v == fetch(s, a - (a % 4), 4)
        k == a % 4
        up == (4 - k) % 4
    IN CASE i.op = "LWL" ->
                set(s, i.rt, s.Reg[i.rt] | ShiftLeft(v, k * ByteBits))
         [] i.op = "LWR" ->
                set(s, i.rt, (IF k = 0 THEN 0 ELSE s.Reg[i.rt] - (s.Reg[i.rt] % Byte ^ k))
                             | ShiftArithmetic(v, up * ByteBits))
         [] OTHER -> unimplemented(s)

memory(i, s) ==
    LET a == Wrap(s.Reg[i.rs] + immed(i))
    IN CASE i.op = "LB" -> set(s, i.rt, Extend(fetch(s, a, 1), Byte))
         [] i.op = "LBU" -> set(s, i.rt, fetch(s, a, 1))
         [] i.op = "LH" -> set(s, i.rt, Extend(fetch(s, a, 2), Half))
         [] i.op = "LHU" -> set(s, i.rt, fetch(s, a, 2))
         [] i.op = "LW" -> set(s, i.rt, fetch(s, a, 4))
         [] i.op = "SB" -> store(s, a, 1, s.Reg[i.rt] % Byte)
         [] i.op = "SH" -> store(s, a, 2, s.Reg[i.rt] % Half)
         [] i.op = "SW" -> store(s, a, 4, s.Reg[i.rt])

\* system_trap: SYS_exit; the other calls of UNIX are not those of NachOS.
system_trap(s) == [s EXCEPT !.on = FALSE]

\* One turn of the loop: register 0 is cleared before the instruction.
RunOne(i, s) ==
    LET t == [s EXCEPT !.pc = s.npc, !.npc = Wrap(s.npc + 4), !.Reg[0] = 0]
    IN CASE i.op \in {"BLTZ", "BGEZ", "BLTZAL", "BGEZAL", "BEQ", "BNE", "BLEZ", "BGTZ"} ->
                branches(i, t, s.pc)
         [] i.op \in {"J", "JAL", "JR", "JALR"} -> jumps(i, t, s.pc)
         [] i.op \in {"ADDI", "ADDIU", "SLTI", "SLTIU", "ANDI", "ORI", "XORI", "LUI"} ->
                immediate(i, t)
         [] i.op \in {"LWL", "LWR", "SWL", "SWR"} -> partial(i, t)
         [] i.op \in {"LB", "LBU", "LH", "LHU", "LW", "SB", "SH", "SW"} -> memory(i, t)
         [] i.op = "SYSCALL" -> system_trap(t)
         [] OTHER -> special(i, t)
=============================================================================
