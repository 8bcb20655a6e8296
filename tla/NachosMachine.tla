--------------------------- MODULE NachosMachine ---------------------------
(***************************************************************************)
(* The simulated MIPS of NachOS (mipssim.cc, translate.cc, machine.cc)     *)
(* running the user threads of one program: an instruction, then a tick    *)
(* of the clock at which an interrupt may fire and the timer may switch    *)
(* threads, which saves and restores the registers (thread.cc,             *)
(* scheduler.cc).                                                          *)
(*                                                                         *)
(* Of the system calls only Fork and Exit are here (NachosProcess has the  *)
(* others).  A word of code is the number of an instruction in the text of *)
(* the program, 0 being the no-op.  The use and dirty bits of the page     *)
(* table are left out: nothing reads them.                                 *)
(***************************************************************************)
EXTENDS MipsWords, NachosLoad, FiniteSets

CONSTANTS
    Thread, Main,
    GPRegister, \* the general registers that programs use
    Images      \* the programs: [coff |-> a list of sections, text |-> instructions]

HiReg == 32
LoReg == 33
PCReg == 34
NextPCReg == 35
PrevPCReg == 36
LoadReg == 37
LoadValueReg == 38
BadVAddrReg == 39
StackReg == 29
RetAddrReg == 31
Register == GPRegister \cup HiReg..BadVAddrReg

ASSUME MachineAssumption ==
    /\ Main \in Thread
    /\ GPRegister \subseteq 0..31 /\ {0, 2, 4, StackReg, RetAddrReg} \subseteq GPRegister

VARIABLES
    image,          \* the program
    registers,      \* of the machine
    mainMemory,     \* its bytes
    pageTable,      \* of each thread: the frame of each page
    memMap,         \* MiMapa: the frames marked in the bitmap
    userRegisters,  \* of each thread that is not running
    currentThread,
    readyList,
    status,         \* of each thread
    ticking,        \* an instruction was executed, its tick is to come
    aborted         \* an ASSERT failed

vars == <<image, registers, mainMemory, pageTable, memMap, userRegisters, currentThread,
          readyList, status, ticking, aborted>>

-----------------------------------------------------------------------------
\* What an instruction asks of the machine.  "reg" 0 is no register.
Outcome(g) ==
    [reg |-> 0, value |-> 0, hi |-> g[HiReg], lo |-> g[LoReg], pcAfter |-> Wrap(g[NextPCReg] + 4),
     loadReg |-> 0, loadValue |-> 0, size |-> 0, addr |-> 0, data |-> 0,
     trap |-> "none", bad |-> 0]
Sets(g, r, v) == [Outcome(g) EXCEPT !.reg = r, !.value = v]
SetsHiLo(g, h, l) == [Outcome(g) EXCEPT !.hi = h, !.lo = l]
Loads(g, r, v) == [Outcome(g) EXCEPT !.loadReg = r, !.loadValue = v]
Stores(g, a, n, v) == [Outcome(g) EXCEPT !.addr = a, !.size = n, !.data = v]
Traps(g, which, a) == [Outcome(g) EXCEPT !.trap = which, !.bad = a]

\* An exception or the address: "none" when all is well.
Exception(pages, a, n) ==
    LET vpn == a \div PageSize
    IN IF a % n # 0 \/ vpn >= Len(pages) THEN "AddressError"
       ELSE IF pages[vpn + 1] >= NumPhysPages THEN "BusError"
       ELSE "none"
Translate(pages, a) == Physical(pages, a)
ReadMem(memory, pages, a, n) ==
    WordOf([k \in 1..n |-> memory[Translate(pages, a) + k - 1]])
WriteMem(memory, pages, a, n, v) ==
    LET p == Translate(pages, a)
        bytes == BytesOf(v, n)
    IN [q \in DOMAIN memory |-> IF q \in p..(p + n - 1) THEN bytes[q - p + 1] ELSE memory[q]]

-----------------------------------------------------------------------------
Address(i, g) == Wrap(g[i.rs] + i.extra)
LowHalf(i) == i.extra % Half
Shift(x) == x % WordBits
SameSign(x, y) == Negative(x) = Negative(y)

\* ADD to ANDI.
Additive(i, g) ==
    LET s == g[i.rs]  t == g[i.rt]
        sum == Wrap(s + t)
        sumI == Wrap(s + i.extra)
    IN CASE i.op = "ADD" -> IF SameSign(s, t) /\ ~SameSign(s, sum)
                            THEN Traps(g, "Overflow", 0) ELSE Sets(g, i.rd, sum)
         [] i.op = "ADDI" -> IF SameSign(s, i.extra) /\ ~SameSign(i.extra, sumI)
                             THEN Traps(g, "Overflow", 0) ELSE Sets(g, i.rt, sumI)
         [] i.op = "ADDIU" -> Sets(g, i.rt, sumI)
         [] i.op = "ADDU" -> Sets(g, i.rd, sum)
         [] i.op = "AND" -> Sets(g, i.rd, s & t)
         [] i.op = "ANDI" -> Sets(g, i.rt, s & LowHalf(i))

\* BEQ to BNE: the link is written before the test.
Taken(i, g) ==
    LET s == g[i.rs]
    IN CASE i.op = "BEQ" -> s = g[i.rt]
         [] i.op = "BNE" -> s # g[i.rt]
         [] i.op \in {"BGEZ", "BGEZAL"} -> ~Negative(s)
         [] i.op \in {"BLTZ", "BLTZAL"} -> Negative(s)
         [] i.op = "BGTZ" -> Signed(s) > 0
         [] i.op = "BLEZ" -> Signed(s) <= 0
Branch(i, g) ==
    LET link == Wrap(g[NextPCReg] + 4)
        links == i.op \in {"BGEZAL", "BLTZAL"}
        after == IF links THEN [g EXCEPT ![RetAddrReg] = link] ELSE g
    IN [Outcome(g) EXCEPT
            !.reg = IF links THEN RetAddrReg ELSE 0,
            !.value = IF links THEN link ELSE 0,
            !.pcAfter = IF Taken(i, after) THEN Wrap(g[NextPCReg] + 4 * i.extra) ELSE @]

\* DIV and DIVU.
Divide(i, g) ==
    LET s == g[i.rs]  t == g[i.rt]
    IN CASE t = 0 -> SetsHiLo(g, 0, 0)
         [] t # 0 /\ i.op = "DIV" -> SetsHiLo(g, Wrap(Remainder(Signed(s), Signed(t))),
                                              Wrap(Quotient(Signed(s), Signed(t))))
         [] t # 0 /\ i.op = "DIVU" -> SetsHiLo(g, s % t, s \div t)

\* J, JAL, JR and JALR.
Segment == 2 ^ (7 * (ByteBits \div 2))
Jump(i, g) ==
    LET next == Wrap(g[NextPCReg] + 4)
        target == (next - (next % Segment)) + ((4 * i.extra) % Segment)
        linked == [g EXCEPT ![i.rd] = next]
    IN CASE i.op = "J" -> [Outcome(g) EXCEPT !.pcAfter = target]
         [] i.op = "JAL" -> [Sets(g, RetAddrReg, next) EXCEPT !.pcAfter = target]
         [] i.op = "JR" -> [Outcome(g) EXCEPT !.pcAfter = g[i.rs]]
         [] i.op = "JALR" -> [Sets(g, i.rd, next) EXCEPT !.pcAfter = linked[i.rs]]

\* LB to LHU and LW: the register is set one instruction later.
Size(op) == CASE op \in {"LB", "LBU", "SB"} -> 1 [] op \in {"LH", "LHU", "SH"} -> 2 [] OTHER -> 4
Load(i, g, memory, pages) ==
    LET a == Address(i, g)
        n == Size(i.op)
        v == ReadMem(memory, pages, a, n)
    IN IF Exception(pages, a, n) # "none" THEN Traps(g, Exception(pages, a, n), a)
       ELSE Loads(g, i.rt, IF i.op \in {"LB", "LH"} THEN Extend(v, Byte ^ n) ELSE v)

\* LWL, LWR, SWL and SWR pass their ASSERT for an aligned address only.
Pending(i, g) == IF g[LoadReg] = i.rt THEN g[LoadValueReg] ELSE g[i.rt]
LoadPart(i, g, memory, pages) ==
    LET a == Address(i, g)
        v == ReadMem(memory, pages, a, 4)
    IN CASE a % 4 # 0 -> Traps(g, "Assert", a)
         [] a % 4 = 0 /\ Exception(pages, a, 4) # "none" -> Traps(g, Exception(pages, a, 4), a)
         [] OTHER -> Loads(g, i.rt,
                IF i.op = "LWL" THEN v
                ELSE (Pending(i, g) - (Pending(i, g) % Byte)) + (v \div Byte ^ 3))
StorePart(i, g, memory, pages) ==
    LET a == Address(i, g)
        v == ReadMem(memory, pages, a, 4)
    IN CASE a % 4 # 0 -> Traps(g, "Assert", a)
         [] a % 4 = 0 /\ Exception(pages, a, 4) # "none" -> Traps(g, Exception(pages, a, 4), a)
         [] OTHER -> Stores(g, a, 4,
                IF i.op = "SWL" THEN g[i.rt] ELSE Wrap((v % Byte ^ 3) + g[i.rt] * Byte ^ 3))

\* MFHI to MTLO.
MoveHiLo(i, g) ==
    CASE i.op = "MFHI" -> Sets(g, i.rd, g[HiReg])
      [] i.op = "MFLO" -> Sets(g, i.rd, g[LoReg])
      [] i.op = "MTHI" -> SetsHiLo(g, g[i.rs], g[LoReg])
      [] i.op = "MTLO" -> SetsHiLo(g, g[HiReg], g[i.rs])

Mult_NoSign(a, b, signedArith) ==
    IF a = 0 \/ b = 0 THEN <<0, 0>> ELSE <<(a * b) \div Word, (a * b) % Word>>
\* The loop over the bits of a, on the double words bHi:bLo and hi:lo.
Mult(a, b, signedArith) ==
    LET negative == signedArith /\ ~SameSign(a, b)
        positive(x) == IF signedArith /\ Negative(x) THEN Wrap(-x) ELSE x
        Bit(k) == ShiftRight(positive(a), k) % 2
        AddBit(acc, k) == acc + Bit(k) * positive(b) * 2 ^ k
        product == FoldLeft(AddBit, 0, [k \in 1..WordBits |-> k - 1])
        result == IF negative THEN (-product) % (Word * Word) ELSE product
    IN IF a = 0 \/ b = 0 THEN <<0, 0>> ELSE <<result \div Word, result % Word>>
Multiply(i, g) ==
    LET r == Mult(g[i.rs], g[i.rt], i.op = "MULT")
    IN SetsHiLo(g, r[1], r[2])

\* NOR, OR and ORI.  OR takes register rs twice.
Disjunction(i, g) ==
    CASE i.op = "NOR" -> Sets(g, i.rd, Invert(g[i.rs] | g[i.rt]))
      [] i.op = "OR" -> Sets(g, i.rd, g[i.rs] | g[i.rs])
      [] i.op = "ORI" -> Sets(g, i.rt, g[i.rs] | LowHalf(i))

\* SB, SH and SW.
Store(i, g, pages) ==
    LET a == Address(i, g)
        n == Size(i.op)
    IN IF Exception(pages, a, n) # "none" THEN Traps(g, Exception(pages, a, n), a)
       ELSE Stores(g, a, n, g[i.rt] % Byte ^ n)

\* SLL and SLLV.
ShiftsLeft(i, g) ==
    Sets(g, i.rd, ShiftLeft(g[i.rt], IF i.op = "SLL" THEN i.extra ELSE Shift(g[i.rs])))

\* SLT to SLTU.
Compare(i, g) ==
    LET s == g[i.rs]  t == g[i.rt]
        Truth(b) == IF b THEN 1 ELSE 0
    IN CASE i.op = "SLT" -> Sets(g, i.rd, Truth(Signed(s) < Signed(t)))
         [] i.op = "SLTI" -> Sets(g, i.rt, Truth(Signed(s) < Signed(i.extra)))
         [] i.op = "SLTIU" -> Sets(g, i.rt, Truth(s < i.extra))
         [] i.op = "SLTU" -> Sets(g, i.rd, Truth(s < t))

\* SRA to SRLV: tmp is an int, so the logical shifts carry the sign in too.
ShiftsRight(i, g) ==
    Sets(g, i.rd, ShiftArithmetic(g[i.rt],
        IF i.op \in {"SRA", "SRL"} THEN i.extra ELSE Shift(g[i.rs])))

\* SUB and SUBU.
Subtract(i, g) ==
    LET s == g[i.rs]  t == g[i.rt]
        diff == Wrap(s - t)
    IN IF i.op = "SUB" /\ ~SameSign(s, t) /\ ~SameSign(s, diff)
       THEN Traps(g, "Overflow", 0) ELSE Sets(g, i.rd, diff)

\* XOR and XORI.
ExclusiveOr(i, g) ==
    IF i.op = "XOR" THEN Sets(g, i.rd, g[i.rs] ^^ g[i.rt])
    ELSE Sets(g, i.rt, g[i.rs] ^^ LowHalf(i))

-----------------------------------------------------------------------------
AdditiveOp == {"ADD", "ADDI", "ADDIU", "ADDU", "AND", "ANDI"}
BranchOp == {"BEQ", "BNE", "BGEZ", "BGEZAL", "BGTZ", "BLEZ", "BLTZ", "BLTZAL"}
ImmediateOp == BranchOp \cup
    {"ADDI", "ADDIU", "ANDI", "ORI", "XORI", "SLTI", "SLTIU", "LUI", "LB", "LBU", "LH", "LHU",
     "LW", "LWL", "LWR", "SB", "SH", "SW", "SWL", "SWR"}
NoOp == [op |-> "SLL", rs |-> 0, rt |-> 0, rd |-> 0, extra |-> 0]
Reserved == [NoOp EXCEPT !.op = "RES"]

\* Immediates are sign-extended; shift amounts and jump targets are not.
Decode(value) ==
    LET i == CASE value = 0 -> NoOp
               [] value \in DOMAIN image.text -> image.text[value]
               [] OTHER -> Reserved
    IN IF i.op \in ImmediateOp THEN [i EXCEPT !.extra = Extend(@, Half)] ELSE i

Execute(i, g, memory, pages) ==
    CASE i.op \in AdditiveOp -> Additive(i, g)
      [] i.op \in BranchOp -> Branch(i, g)
      [] i.op \in {"DIV", "DIVU"} -> Divide(i, g)
      [] i.op \in {"J", "JAL", "JR", "JALR"} -> Jump(i, g)
      [] i.op \in {"LB", "LBU", "LH", "LHU", "LW"} -> Load(i, g, memory, pages)
      [] i.op = "LUI" -> Sets(g, i.rt, ShiftLeft(i.extra, 2 * ByteBits))
      [] i.op \in {"LWL", "LWR"} -> LoadPart(i, g, memory, pages)
      [] i.op \in {"MFHI", "MFLO", "MTHI", "MTLO"} -> MoveHiLo(i, g)
      [] i.op \in {"MULT", "MULTU"} -> Multiply(i, g)
      [] i.op \in {"NOR", "OR", "ORI"} -> Disjunction(i, g)
      [] i.op \in {"SB", "SH", "SW"} -> Store(i, g, pages)
      [] i.op \in {"SLL", "SLLV"} -> ShiftsLeft(i, g)
      [] i.op \in {"SLT", "SLTI", "SLTIU", "SLTU"} -> Compare(i, g)
      [] i.op \in {"SRA", "SRAV", "SRL", "SRLV"} -> ShiftsRight(i, g)
      [] i.op \in {"SUB", "SUBU"} -> Subtract(i, g)
      [] i.op \in {"SWL", "SWR"} -> StorePart(i, g, memory, pages)
      [] i.op = "SYSCALL" -> Traps(g, "Syscall", 0)
      [] i.op \in {"XOR", "XORI"} -> ExclusiveOr(i, g)
      [] OTHER -> Traps(g, "IllegalInstr", 0)

DelayedLoad(g, r, v) ==
    LET loaded == [g EXCEPT ![g[LoadReg]] = g[LoadValueReg]]
    IN [loaded EXCEPT ![LoadReg] = r, ![LoadValueReg] = v, ![0] = 0]

\* The end of OneInstruction.
Completed(g, o) ==
    LET written == [g EXCEPT ![o.reg] = o.value, ![HiReg] = o.hi, ![LoReg] = o.lo]
    IN [DelayedLoad(written, o.loadReg, o.loadValue) EXCEPT
            ![PrevPCReg] = g[PCReg], ![PCReg] = g[NextPCReg], ![NextPCReg] = o.pcAfter]

\* RaiseException, up to the handler.
Raised(g, bad) == DelayedLoad([g EXCEPT ![BadVAddrReg] = bad], 0, 0)

returnFromSystemCall(g) ==
    [g EXCEPT ![PrevPCReg] = g[PCReg], ![PCReg] = g[NextPCReg],
              ![NextPCReg] = Wrap(g[NextPCReg] + 4)]

InitRegisters(numPages) ==
    [r \in Register |->
        CASE r = NextPCReg -> 4
          [] r = StackReg -> numPages * PageSize - 16
          [] OTHER -> 0]

\* NachosForkThread sets them when the child first runs.
ForkedRegisters(numPages, function) ==
    [InitRegisters(numPages) EXCEPT ![RetAddrReg] = 4, ![PCReg] = function,
                                    ![NextPCReg] = Wrap(function + 4)]

-----------------------------------------------------------------------------
\* StartProcess: the program was converted, loaded, and jumped to.
Init ==
    /\ image \in {m \in Images : Coff2Noff(m.coff).ok}
    /\ LET noff == Coff2Noff(image.coff)
       IN /\ mainMemory = LoadNoff(noff)
          /\ pageTable = [t \in Thread |-> IF t = Main THEN FirstPages(noff) ELSE <<>>]
          /\ memMap = Range(FirstPages(noff))
          /\ registers = InitRegisters(PagesFor(noff))
    /\ userRegisters = [t \in Thread |-> [r \in Register |-> 0]]
    /\ currentThread = Main
    /\ readyList = <<>>
    /\ status = [t \in Thread |-> IF t = Main THEN "running" ELSE "unborn"]
    /\ ticking = FALSE
    /\ aborted = FALSE

pages == pageTable[currentThread]
FetchException == Exception(pages, registers[PCReg], 4)
Fetched == Decode(ReadMem(mainMemory, pages, registers[PCReg], 4))
Current == IF FetchException # "none" THEN Traps(registers, FetchException, registers[PCReg])
           ELSE Execute(Fetched, registers, mainMemory, pages)

\* The next turn of the loop of Run.
Runs == status[currentThread] = "running" /\ ~ticking /\ ~aborted

\* An instruction without an exception.
OneInstruction ==
    /\ Runs /\ Current.trap = "none"
    /\ registers' = Completed(registers, Current)
    /\ mainMemory' = IF Current.size = 0 THEN mainMemory
                     ELSE WriteMem(mainMemory, pages, Current.addr, Current.size, Current.data)
    /\ ticking' = TRUE
    /\ UNCHANGED <<image, pageTable, memMap, userRegisters, currentThread, readyList, status,
                   aborted>>

\* Any exception that is not a system call fails the ASSERT of its handler.
Aborts ==
    /\ Runs /\ Current.trap \notin {"none", "Syscall"}
    /\ registers' = Raised(registers, Current.bad)
    /\ aborted' = TRUE
    /\ UNCHANGED <<image, mainMemory, pageTable, memMap, userRegisters, currentThread, readyList,
                   status, ticking>>

Calls(number) == Runs /\ Current.trap = "Syscall" /\ Raised(registers, 0)[2] = number

\* NachOS_Fork.
Zeroed(memory, frame) ==
    [p \in DOMAIN memory |-> IF p \div PageSize = frame THEN 0 ELSE memory[p]]
Fork(t) ==
    /\ Calls(9) /\ status[t] = "unborn"
    /\ LET child == ForkedPages(pages, memMap)
           raised == Raised(registers, 0)
       IN /\ pageTable' = [pageTable EXCEPT ![t] = child]
          /\ memMap' = memMap \cup Range(child)
          /\ mainMemory' = FoldLeft(Zeroed, mainMemory,
                                SubSeq(child, Len(child) - StackPages + 1, Len(child)))
          /\ userRegisters' = [userRegisters EXCEPT
                                    ![t] = ForkedRegisters(Len(child), raised[4])]
          /\ registers' = returnFromSystemCall(raised)
    /\ status' = [status EXCEPT ![t] = "ready"]
    /\ readyList' = Append(readyList, t)
    /\ ticking' = TRUE
    /\ UNCHANGED <<image, currentThread, aborted>>

\* RestoreUserState of the next thread.
RestoreUserState(t) == registers' = userRegisters[t]

\* The destructor of an address space frees all its frames, those that another
\* space shares too.
DeleteSpace == memMap' = memMap \ Range(pages)

\* NachOS_Exit: the thread finishes, and the next one goes on, if there is one.
Exit ==
    /\ Calls(1)
    /\ DeleteSpace
    /\ IF readyList = <<>>
       THEN /\ status' = [status EXCEPT ![currentThread] = "done"]
            /\ UNCHANGED <<registers, currentThread, readyList>>
       ELSE /\ currentThread' = Head(readyList)
            /\ readyList' = Tail(readyList)
            /\ status' = [status EXCEPT ![currentThread] = "done", ![Head(readyList)] = "running"]
            /\ RestoreUserState(Head(readyList))
    /\ UNCHANGED <<image, mainMemory, pageTable, userRegisters, ticking, aborted>>

-----------------------------------------------------------------------------
Ticks == ticking /\ ~aborted /\ ticking' = FALSE

\* OneTick: nothing is due.
NothingDue ==
    /\ Ticks
    /\ UNCHANGED <<image, registers, mainMemory, pageTable, memMap, userRegisters,
                   currentThread, readyList, status, aborted>>

\* CheckIfDue calls a handler; no switch follows, or nobody else is ready.
Interrupted ==
    /\ Ticks
    /\ registers' = DelayedLoad(registers, 0, 0)
    /\ UNCHANGED <<image, mainMemory, pageTable, memMap, userRegisters, currentThread, readyList,
                   status, aborted>>

\* The handler of the timer asked for a switch: Yield.
SaveUserState_GeneralOnly(g) ==
    userRegisters' = [userRegisters EXCEPT
        ![currentThread] = [r \in Register |-> IF r \in {HiReg, LoReg} THEN @[r] ELSE g[r]]]
SaveUserState(g) == userRegisters' = [userRegisters EXCEPT ![currentThread] = g]
TimeSlice ==
    /\ Ticks /\ readyList # <<>>
    /\ SaveUserState(DelayedLoad(registers, 0, 0))
    /\ RestoreUserState(Head(readyList))
    /\ currentThread' = Head(readyList)
    /\ readyList' = Append(Tail(readyList), currentThread)
    /\ status' = [status EXCEPT ![currentThread] = "ready", ![Head(readyList)] = "running"]
    /\ UNCHANGED <<image, mainMemory, pageTable, memMap, aborted>>

Next ==
    \/ OneInstruction \/ Aborts \/ (\E t \in Thread : Fork(t)) \/ Exit
    \/ NothingDue \/ Interrupted \/ TimeSlice

Spec == Init /\ [][Next]_vars
=============================================================================
