-------------------------- MODULE NachosSimulators --------------------------
(***************************************************************************)
(* A program on the machine of NachOS, with its threads, its page tables   *)
(* and its load delays, and the same program on the stand-alone            *)
(* interpreter, one copy for each thread, in step.                         *)
(*                                                                         *)
(* A copy starts with the registers of its thread, when the thread has the *)
(* memory its program was loaded to: the first thread at the start, or     *)
(* after its Fork, the child when it is forked.                            *)
(***************************************************************************)
EXTENDS NachosMachine

Interpreter == INSTANCE MipsInterpreter
Listed == INSTANCE Disassembler

VARIABLE copies \* of the interpreter, one for each thread

NoCopy == [on |-> FALSE]

VirtualBytes(t) == 0..(Len(pageTable[t]) * PageSize - 1)
CopyOf(g, t) ==
    Interpreter!Started([r \in GPRegister |-> g[r]], g[HiReg], g[LoReg], g[PCReg], g[NextPCReg],
                        LoadCoff(image.coff, VirtualBytes(t)))

\* The word that the interpreter fetches, decoded from the text of the program.
CopyFetches(s) ==
    LET word == Interpreter!fetch(s, s.pc, 4)
    IN CASE word = 0 -> NoOp
         [] word \in DOMAIN image.text -> image.text[word]
         [] OTHER -> Reserved

SimInit ==
    /\ Init
    /\ copies = [t \in Thread |-> IF t = Main THEN CopyOf(registers, Main) ELSE NoCopy]

StepBoth ==
    /\ OneInstruction
    /\ copies' = IF copies[currentThread].on
                 THEN [copies EXCEPT ![currentThread] = Interpreter!RunOne(CopyFetches(@), @)]
                 ELSE copies

StopBoth == (Aborts \/ Exit) /\ copies' = [copies EXCEPT ![currentThread] = NoCopy]

\* The interpreter has no Fork: both threads are given a copy that starts here.
ForkBoth(t) ==
    /\ Fork(t)
    /\ LET Begins(u, g) ==
               Interpreter!Started([r \in GPRegister |-> g[r]], g[HiReg], g[LoReg], g[PCReg],
                   g[NextPCReg], LoadCoff(image.coff, VirtualBytes(currentThread)))
       IN copies' = [copies EXCEPT ![t] = Begins(t, userRegisters'[t]),
                                   ![currentThread] = Begins(currentThread, registers')]

TickNachos == (NothingDue \/ Interrupted \/ TimeSlice) /\ UNCHANGED copies

SimNext == StepBoth \/ StopBoth \/ (\E t \in Thread : ForkBoth(t)) \/ TickNachos

SimSpec == SimInit /\ [][SimNext]_<<vars, copies>>

-----------------------------------------------------------------------------
\* The registers of a thread once its delayed load is done.
RegistersOf(t) == IF t = currentThread THEN registers ELSE userRegisters[t]
Settled(t) == DelayedLoad(RegistersOf(t), 0, 0)

SameRegisters(t) ==
    LET g == Settled(t)  s == copies[t]
    IN /\ \A r \in GPRegister \ {0} : g[r] = s.Reg[r]
       /\ g[HiReg] = s.HI /\ g[LoReg] = s.LO
       /\ g[PCReg] = s.pc /\ g[NextPCReg] = s.npc

\* What t stored, and what it was loaded with and nobody has stored to.
SameMemory(t) ==
    LET Foreign == UNION {copies[u].wrote : u \in {v \in Thread \ {t} : copies[v].on}}
        InImage == UNION {SectionBytes(image.coff[k]) : k \in DOMAIN image.coff}
    IN \A a \in copies[t].wrote \cup (InImage \ Foreign) :
            mainMemory[Translate(pageTable[t], a)] = copies[t].mem[a]

\* The two simulators of the repository agree on what a program computes: however
\* the timer cuts the threads apart, the registers, the program counters and the
\* memory of a thread are those of the same program run alone by the interpreter
\* (mipssim.cc: OneInstruction, DelayedLoad; thread.cc: SaveUserState;
\* translate.cc; addrspace.cc and coff2noff.c against load_program of bin/main.c).
\* Programs do as compilers do: the instruction after a load does not name the
\* register it loads.
SimulatorsAgree == \A t \in Thread : copies[t].on => SameRegisters(t) /\ SameMemory(t)

\* Instructions that differ from i in one register, in their constant or in their name.
Variants(i) ==
    {[i EXCEPT !.rd = r] : r \in GPRegister} \cup {[i EXCEPT !.rs = r] : r \in GPRegister}
    \cup {[i EXCEPT !.rt = r] : r \in GPRegister} \cup {[i EXCEPT !.extra = x] : x \in {0, 1, 7, 9}}
    \cup {[i EXCEPT !.op = o] : o \in DOMAIN Listed!NormalCodes \cup DOMAIN Listed!SpecialCodes}

\* What runs is what the listing of the disassembler shows (disasm.c, d.c,
\* opstrings.c against coff2noff.c, addrspace.cc and mipssim.cc): the line at the
\* program counter is that of the instruction that NachOS fetches, and no
\* instruction that would do something else has the same line.  Left out: JALR,
\* MFLO, MTHI, BLEZ and BGTZ, whose lines lack an operand (d.c:71-87, 145-217).
ListingTells ==
    LET i == Fetched
        pc == registers[PCReg]
        Line(j) == Listed!dump_ascii(j, pc)
        Does(j) == Execute(j, registers, mainMemory, pages)
    IN FetchException = "none" =>
        /\ Listed!Listing(image.coff, image.text)[pc] = Line(i)
        /\ i.op \notin {"JALR", "MFLO", "MTHI", "BLEZ", "BGTZ"} =>
              \A j \in Variants(i) : Line(j) = Line(i) => Does(j) = Does(i)
=============================================================================
