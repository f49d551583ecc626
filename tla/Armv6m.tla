------------------------------- MODULE Armv6m --------------------------------
(***************************************************************************)
(* Execution of decoded instructions: Cpu::execute and its helpers, and    *)
(* Cpu::step up to an exception that finds room on the stack: CortexM0     *)
(* models what follows it.  A word is four bytes of ByteBits bits.  A      *)
(* machine is a record of                                                  *)
(*   cpu       registers, flags and cycles of one core                     *)
(*   mem       its memory                                                  *)
(*   status    how the last instruction ended, an ExecStatus               *)
(* The program is a function from addresses to whole halfwords beside the  *)
(* memory, whose bytes are too small to hold it.                           *)
(***************************************************************************)
EXTENDS Memory, Thumb, FiniteSets

CONSTANTS
    Vector,     \* what the vector table holds: [sp, pc]
    CycleMod    \* the cycle counter wraps here, at 2^64 in the code

Sp == 13
Lr == 14
Pc == 15

\* A core after a reset has read its vectors
ResetCpu ==
    [r |-> [i \in 0..12 |-> 0], lr |-> Modulus - 1, pc |-> Vector.pc, msp |-> Vector.sp, psp |-> 0,
     n |-> FALSE, z |-> FALSE, c |-> FALSE, v |-> FALSE, thumb |-> TRUE, exception |-> 0,
     npriv |-> FALSE, spsel |-> FALSE, primask |-> FALSE, event |-> FALSE, asleep |-> FALSE, cycles |-> 0]

OnPsp(cpu) == cpu.exception = 0 /\ cpu.spsel

ReadSp(cpu) == IF OnPsp(cpu) THEN cpu.psp ELSE cpu.msp

\* The lowest two bits of a stack pointer read as zero.
WriteSp(cpu, v) ==
    LET aligned == v - (v % 4)
    IN  IF OnPsp(cpu) THEN [cpu EXCEPT !.psp = aligned] ELSE [cpu EXCEPT !.msp = aligned]

\* The program counter reads as the instruction's address and four.
ReadReg(cpu, n, pc) ==
    CASE n = Pc -> (pc + 4) % Modulus
      [] n = Sp -> ReadSp(cpu)
      [] n = Lr -> cpu.lr
      [] OTHER -> cpu.r[n]

WriteReg(cpu, n, v) ==
    CASE n = Pc -> [cpu EXCEPT !.pc = v - (v % 2)]
      [] n = Sp -> WriteSp(cpu, v)
      [] n = Lr -> [cpu EXCEPT !.lr = v]
      [] OTHER -> [cpu EXCEPT !.r[n] = v]

SetNz(cpu, v) == [cpu EXCEPT !.n = Neg(v), !.z = v = 0]

SetNzcv(cpu, sum) == [SetNz(cpu, sum.value) EXCEPT !.c = sum.carry, !.v = sum.overflow]

Done(s, cpu) == [s EXCEPT !.cpu = cpu, !.status = "Ok"]

Ended(s, status) == [s EXCEPT !.status = status]

-----------------------------------------------------------------------------
Compares == {"CMP_imm", "CMP_reg", "CMP_reg_hi", "CMN_reg"}

Adders == Compares \cup {"ADD_reg", "ADD_imm3", "ADD_imm8", "SUB_reg", "SUB_imm3", "SUB_imm8",
                         "ADC_reg", "SBC_reg", "RSB_imm"}

\* A subtraction adds the complement with the carry set.
Sum(op, x, y, imm, carry) ==
    CASE op \in {"ADD_reg", "CMN_reg"} -> AddWithCarry(x, y, FALSE)
      [] op \in {"ADD_imm3", "ADD_imm8"} -> AddWithCarry(x, imm, FALSE)
      [] op \in {"SUB_reg", "CMP_reg", "CMP_reg_hi"} -> AddWithCarry(x, Complement(y), TRUE)
      [] op \in {"SUB_imm3", "SUB_imm8", "CMP_imm"} -> AddWithCarry(x, Complement(imm), TRUE)
      [] op = "ADC_reg" -> AddWithCarry(x, y, carry)
      [] op = "SBC_reg" -> AddWithCarry(x, Complement(y), carry)
      [] op = "RSB_imm" -> AddWithCarry(Complement(x), 0, TRUE)

ExecAdd(s, d, pc) ==
    LET sum == Sum(d.op, ReadReg(s.cpu, d.rn, pc), ReadReg(s.cpu, d.rm, pc), d.imm % Modulus, s.cpu.c)
        written == IF d.op \in Compares THEN s.cpu ELSE WriteReg(s.cpu, d.rd, sum.value)
    IN  Done(s, IF d.setflags \/ d.op \in Compares THEN SetNzcv(written, sum) ELSE written)

ShiftType == [LSL_imm |-> "LSL", LSR_imm |-> "LSR", ASR_imm |-> "ASR",
              LSL_reg |-> "LSL", LSR_reg |-> "LSR", ASR_reg |-> "ASR", ROR_reg |-> "ROR"]

ByImmediate == {"LSL_imm", "LSR_imm", "ASR_imm"}

\* An immediate right shift by nothing is one by the whole width; a register's low eight
\* bits, which are all of a word here, are an amount.
ExecShift(s, d, pc) ==
    LET full == d.op # "LSL_imm" /\ d.imm = 0
        shifted ==
            IF d.op \in ByImmediate
            THEN Shift(ReadReg(s.cpu, d.rm, pc), ShiftType[d.op], IF full THEN Width ELSE d.imm, s.cpu.c)
            ELSE Shift(ReadReg(s.cpu, d.rn, pc), ShiftType[d.op], ReadReg(s.cpu, d.rm, pc) % 256, s.cpu.c)
        written == WriteReg(s.cpu, d.rd, shifted.value)
    IN  Done(s, IF d.setflags THEN [SetNz(written, shifted.value) EXCEPT !.c = shifted.carry] ELSE written)

Byte(v, i) == (v \div Place(i)) % ByteMod

\* The word with the bytes b3 b2 b1 b0, highest first
OfBytes(b3, b2, b1, b0) == ((b3 * ByteMod + b2) * ByteMod + b1) * ByteMod + b0

SignExtended(v, bytes) == SignExtend(v, bytes * ByteBits) % Modulus

\* What is computed without the adder's flags
Value(op, x, y, imm, sp, pc) ==
    CASE op = "MOV_imm" -> imm
      [] op \in {"MOV_reg", "MOV_reg_hi"} -> y
      [] op \in {"AND_reg", "TST_reg"} -> And(x, y)
      [] op = "EOR_reg" -> Xor(x, y)
      [] op = "ORR_reg" -> Or(x, y)
      [] op = "BIC_reg" -> And(x, Complement(y))
      [] op = "MVN_reg" -> Complement(y)
      [] op = "MUL" -> (x * y) % Modulus
      [] op = "ADD_reg_hi" -> (x + y) % Modulus
      [] op = "ADR" -> (pc + 4 - ((pc + 4) % 4) + imm) % Modulus
      [] op \in {"ADD_SP_imm", "ADD_SP_sp_imm"} -> (sp + imm) % Modulus
      [] op = "SUB_SP_imm" -> (sp - imm) % Modulus
      [] op = "SXTB" -> SignExtended(y, 1)
      [] op = "SXTH" -> SignExtended(y, 2)
      [] op = "UXTB" -> y % ByteMod
      [] op = "UXTH" -> y % Place(2)
      [] op = "REV" -> OfBytes(Byte(y, 0), Byte(y, 1), Byte(y, 2), Byte(y, 3))
      [] op = "REV16" -> OfBytes(Byte(y, 2), Byte(y, 3), Byte(y, 0), Byte(y, 1))
      [] op = "REVSH" -> SignExtended(OfBytes(0, 0, Byte(y, 0), Byte(y, 1)), 2)

Moves == {"MOV_imm", "MOV_reg", "MOV_reg_hi", "AND_reg", "TST_reg", "EOR_reg", "ORR_reg", "BIC_reg",
          "MVN_reg", "MUL", "ADD_reg_hi", "ADR", "ADD_SP_imm", "ADD_SP_sp_imm", "SUB_SP_imm",
          "SXTB", "SXTH", "UXTB", "UXTH", "REV", "REV16", "REVSH"}

ExecMove(s, d, pc) ==
    LET value == Value(d.op, ReadReg(s.cpu, d.rn, pc), ReadReg(s.cpu, d.rm, pc), d.imm % Modulus,
                       ReadSp(s.cpu), pc)
        written == IF d.op = "TST_reg" THEN s.cpu ELSE WriteReg(s.cpu, d.rd, value)
    IN  Done(s, IF d.setflags THEN SetNz(written, value) ELSE written)

-----------------------------------------------------------------------------
\* In a handler, a target in the topmost addresses returns from the exception.
IsExcReturn(cpu, target) == cpu.exception # 0 /\ target >= Modulus - 16

BranchTo(s, target) ==
    Done(s, [s.cpu EXCEPT !.thumb = target % 2 = 1, !.pc = target - (target % 2)])

ExecBranch(s, d, pc) ==
    LET relative == (pc + 4 + d.offset) % Modulus
        target == ReadReg(s.cpu, d.rm, pc)
        Linked(length) == LET next == (pc + length) % Modulus IN next - (next % 2) + 1
    IN  CASE d.op = "B" -> Done(s, [s.cpu EXCEPT !.pc = relative])
          [] d.op = "B_cond" -> Done(s, IF Holds(s.cpu, d.cond) THEN [s.cpu EXCEPT !.pc = relative] ELSE s.cpu)
          [] d.op = "BL" -> Done(s, [s.cpu EXCEPT !.lr = Linked(4), !.pc = relative])
          [] d.op = "BX" /\ IsExcReturn(s.cpu, target) -> Ended(s, "ExceptionReturn")
          [] d.op = "BX" /\ ~IsExcReturn(s.cpu, target) -> BranchTo(s, target)
          [] d.op = "BLX_reg" -> BranchTo([s EXCEPT !.cpu.lr = Linked(2)], target)

\* How the special registers are numbered by MRS and MSR
Flags(cpu) ==
    LET B(f, n) == IF f THEN PowerOfTwo[Width - n] ELSE 0
    IN  B(cpu.n, 1) + B(cpu.z, 2) + B(cpu.c, 3) + B(cpu.v, 4)

ExecMrs(s, d) ==
    LET cpu == s.cpu
        value ==
            CASE d.imm \in {0, 2} -> Flags(cpu)
              [] d.imm \in {1, 3} -> Or(Flags(cpu), cpu.exception)
              [] d.imm \in {5, 7} -> cpu.exception
              [] d.imm = 6 -> 0
              [] d.imm = 8 -> cpu.msp
              [] d.imm = 9 -> cpu.psp
              [] d.imm = 16 -> IF cpu.primask THEN 1 ELSE 0
              [] d.imm = 20 -> (IF cpu.spsel THEN 2 ELSE 0) + (IF cpu.npriv THEN 1 ELSE 0)
    IN  IF d.imm \in {0, 1, 2, 3, 5, 6, 7, 8, 9, 16, 20}
        THEN Done(s, WriteReg(cpu, d.rd, value)) ELSE Ended(s, "Undefined")

ExecMsr(s, d, pc) ==
    LET v == ReadReg(s.cpu, d.rn, pc)
        B(n) == Bit(v, Width - n)
    IN  CASE d.imm \in 0..3 -> Done(s, [s.cpu EXCEPT !.n = B(1), !.z = B(2), !.c = B(3), !.v = B(4)])
          [] d.imm = 8 -> Done(s, [s.cpu EXCEPT !.msp = v - (v % 4)])
          [] d.imm = 9 -> Done(s, [s.cpu EXCEPT !.psp = v - (v % 4)])
          [] d.imm = 16 -> Done(s, [s.cpu EXCEPT !.primask = v % 2 = 1])
          [] d.imm = 20 -> Done(s, [s.cpu EXCEPT !.npriv = v % 2 = 1, !.spsel = Bit(v, 1)])
          [] OTHER -> Ended(s, "Undefined")
-----------------------------------------------------------------------------
\* A store into AIRCR that asks for a reset resets the core that executes it, at once.
Store(s, addr, n, v) ==
    LET written == Write(s.mem, addr, n, v)
        resets == written.status = "Ok" /\ addr = Aircr /\ Bit(v, 2)
    IN  [s EXCEPT !.mem = written.mem, !.status = IF written.status = "Ok" THEN "Ok" ELSE "MemFault",
                  !.cpu = IF resets THEN ResetCpu ELSE @]

Loads == [LDR_lit |-> 4, LDR_reg |-> 4, LDR_imm |-> 4, LDR_imm_sp |-> 4, LDRH_reg |-> 2, LDRH_imm |-> 2,
          LDRSH_reg |-> 2, LDRB_reg |-> 1, LDRB_imm |-> 1, LDRSB_reg |-> 1]
Stores == [STR_reg |-> 4, STR_imm |-> 4, STR_imm_sp |-> 4, STRH_reg |-> 2, STRH_imm |-> 2,
           STRB_reg |-> 1, STRB_imm |-> 1]

ByRegister == {"LDR_reg", "LDRH_reg", "LDRSH_reg", "LDRB_reg", "LDRSB_reg", "STR_reg", "STRH_reg", "STRB_reg"}

Target(cpu, d, pc) ==
    IF d.op = "LDR_lit" THEN (pc + 4 - ((pc + 4) % 4) + d.imm) % Modulus
    ELSE (ReadReg(cpu, d.rn, pc) + (IF d.op \in ByRegister THEN ReadReg(cpu, d.rm, pc) ELSE d.imm)) % Modulus

\* A load that fails leaves its register alone.
Loaded(s, d, read) ==
    LET value == IF d.op \in {"LDRSB_reg", "LDRSH_reg"} THEN SignExtended(read.value, Loads[d.op]) ELSE read.value
        after == [s EXCEPT !.mem = read.mem]
    IN  IF read.status = "Ok" THEN Done(after, WriteReg(s.cpu, d.rt, value)) ELSE Ended(after, "MemFault")

ExecLoad(s, d, pc) == Loaded(s, d, Read(s.mem, Target(s.cpu, d, pc), Loads[d.op]))

ExecStore(s, d, pc) ==
    Store(s, Target(s.cpu, d, pc), Stores[d.op], ReadReg(s.cpu, d.rt, pc) % Place(Stores[d.op]))

-----------------------------------------------------------------------------
\* Several words, the lowest register at the lowest address.  The first one that fails ends
\* the transfer: what was moved before stays moved.
WordOf(i, list, base) == (base + 4 * Cardinality({j \in list : j < i})) % Modulus

\* One register of a transfer that has not failed yet
StoreOne(t, i, list, base, pc) ==
    IF i \notin list \/ t.status # "Ok" THEN t
    ELSE Store(t, WordOf(i, list, base), 4, ReadReg(t.cpu, i, pc))

StoreAll(s, list, base, pc) ==
    LET moved[n \in 0..16] ==
            IF n = 0 THEN [s EXCEPT !.status = "Ok"] ELSE StoreOne(moved[n - 1], n - 1, list, base, pc)
    IN  moved[16]

LoadOne(t, i, list, base) ==
    IF i \notin list \/ t.status # "Ok" THEN t
    ELSE LET read == Read(t.mem, WordOf(i, list, base), 4)
             after == [t EXCEPT !.mem = read.mem]
         IN  IF read.status = "Ok" THEN Done(after, WriteReg(t.cpu, i, read.value)) ELSE Ended(after, "MemFault")

LoadAll(s, list, base) ==
    LET moved[n \in 0..16] ==
            IF n = 0 THEN [s EXCEPT !.status = "Ok"] ELSE LoadOne(moved[n - 1], n - 1, list, base)
    IN  moved[16]

\* Mutant: the stack pointer moves first
PushMovingFirst(s, d, pc) ==
    LET base == (ReadSp(s.cpu) - 4 * Cardinality(d.list)) % Modulus
    IN  StoreAll([s EXCEPT !.cpu = WriteSp(@, base)], d.list, base, pc)

\* A pointer moves, to `end' of the bytes, only when all of them have been moved.
Advanced(moved, n, end) ==
    IF moved.status = "Ok" THEN Done(moved, WriteReg(moved.cpu, n, end)) ELSE moved

Push(s, d, pc) ==
    LET base == (ReadSp(s.cpu) - 4 * Cardinality(d.list)) % Modulus
    IN  Advanced(StoreAll(s, d.list, base, pc), Sp, base)

\* The other registers are loaded, the program counter has been read; the stack pointer
\* moves only now.
PopPc(loaded, target, end) ==
    LET after == [loaded EXCEPT !.mem = target.mem]
        popped == [after EXCEPT !.cpu = WriteSp(@, end)]
    IN  CASE target.status # "Ok" -> Ended(after, "MemFault")
          [] target.status = "Ok" /\ IsExcReturn(popped.cpu, target.value) -> Ended(popped, "ExceptionReturn")
          [] OTHER -> BranchTo(popped, target.value)

PopRest(loaded, list, end) ==
    CASE loaded.status # "Ok" -> loaded
      [] loaded.status = "Ok" /\ Pc \notin list -> [loaded EXCEPT !.cpu = WriteSp(@, end)]
      [] OTHER -> PopPc(loaded, Read(loaded.mem, (end - 4) % Modulus, 4), end)

Pop(s, d) ==
    PopRest(LoadAll(s, d.list \ {Pc}, ReadSp(s.cpu)), d.list,
            (ReadSp(s.cpu) + 4 * Cardinality(d.list)) % Modulus)

\* Mutant: the base moves after a transfer that has failed, too
MultiplesAdvancing(s, d, pc) ==
    LET base == ReadReg(s.cpu, d.rn, pc)
        moved == IF d.op = "STM" THEN StoreAll(s, d.list, base, pc) ELSE LoadAll(s, d.list, base)
        end == (base + 4 * Cardinality(d.list)) % Modulus
    IN  IF d.wback THEN [moved EXCEPT !.cpu = WriteReg(@, d.rn, end)] ELSE moved

Multiples(s, d, pc) ==
    LET base == ReadReg(s.cpu, d.rn, pc)
        moved == IF d.op = "STM" THEN StoreAll(s, d.list, base, pc) ELSE LoadAll(s, d.list, base)
    IN  IF d.wback THEN Advanced(moved, d.rn, (base + 4 * Cardinality(d.list)) % Modulus) ELSE moved

ExecBlock(s, d, pc) ==
    CASE d.list = {} -> Ended(s, "Undefined")
      [] d.list # {} /\ d.op = "PUSH" -> Push(s, d, pc)
      [] d.list # {} /\ d.op = "POP" -> Pop(s, d)
      [] OTHER -> Multiples(s, d, pc)

-----------------------------------------------------------------------------
\* No interrupt is pending here: a core that waits for one sleeps.
ExecHint(s, d) ==
    CASE d.op = "SEV" -> Done(s, [s.cpu EXCEPT !.event = TRUE])
      [] d.op = "WFE" /\ s.cpu.event -> Done(s, [s.cpu EXCEPT !.event = FALSE])
      [] d.op = "WFI" \/ (d.op = "WFE" /\ ~s.cpu.event) ->
            Ended([s EXCEPT !.cpu.asleep = TRUE], "WaitingForInterrupt")
      [] d.op = "CPS" -> Done(s, [s.cpu EXCEPT !.primask = d.imm # 0])
      [] OTHER -> Done(s, s.cpu)

Execute(s, d, pc) ==
    CASE d.op \in {"UNDEFINED", "UDF"} -> Ended(s, "Undefined")
      [] d.op \in {"NOP", "YIELD", "DSB", "DMB", "ISB", "SEV", "WFI", "WFE", "CPS"} -> ExecHint(s, d)
      [] d.op = "BKPT" -> Ended(s, "Breakpoint")
      [] d.op = "SVC" -> Ended(s, "Svc")
      [] d.op \in {"B", "B_cond", "BL", "BX", "BLX_reg"} -> ExecBranch(s, d, pc)
      [] d.op = "MRS" -> ExecMrs(s, d)
      [] d.op = "MSR" -> ExecMsr(s, d, pc)
      [] d.op \in DOMAIN Loads -> ExecLoad(s, d, pc)
      [] d.op \in DOMAIN Stores -> ExecStore(s, d, pc)
      [] d.op \in {"PUSH", "POP", "STM", "LDM"} -> ExecBlock(s, d, pc)
      [] d.op \in Adders -> ExecAdd(s, d, pc)
      [] d.op \in DOMAIN ShiftType -> ExecShift(s, d, pc)
      [] d.op \in Moves -> ExecMove(s, d, pc)

\* What an instruction costs
InstructionCycles(d, branched) ==
    CASE d.op \in DOMAIN Loads \cup DOMAIN Stores \cup {"WFI", "WFE"} -> 2
      [] d.op \in {"LDM", "STM", "PUSH"} -> 1 + Cardinality(d.list)
      [] d.op = "POP" -> (IF Pc \in d.list THEN 4 ELSE 1) + Cardinality(d.list)
      [] d.op \in {"B", "BX", "BLX_reg", "DSB", "DMB", "ISB"} -> 3
      [] d.op = "B_cond" -> IF branched THEN 3 ELSE 1
      [] d.op \in {"BL", "MRS", "MSR"} -> 4
      [] d.op \in {"ADD_reg_hi", "MOV_reg_hi"} -> IF d.rd = Pc THEN 3 ELSE 1
      [] OTHER -> 1

-----------------------------------------------------------------------------
\* Halfwords in ROM, flash or SRAM
IsProgram(program) ==
    /\ \A a \in DOMAIN program : a \in Word /\ Backed(a, 2)
    /\ program \in [DOMAIN program -> 0..(PowerOfTwo[16] - 1)]

Fetchable(program, pc) ==
    pc \in DOMAIN program /\ (Is32Bit(program[pc]) => pc + 2 \in DOMAIN program)

Fetched(program, pc) ==
    IF Is32Bit(program[pc]) THEN Decode32(program[pc], program[pc + 2]) ELSE Decode16(program[pc])

\* Instructions are read through the bus, where a watchpoint sees it.
Fetch(s, program, pc) ==
    LET first == CheckWatch(s.mem, pc, 2, FALSE)
    IN  [s EXCEPT !.mem = IF Is32Bit(program[pc]) THEN CheckWatch(first, pc + 2, 2, FALSE) ELSE first]

\* A sleeper lets a cycle pass; what ends its sleep is left to CortexM0.
StepAsleep(s) == [s EXCEPT !.cpu.cycles = (@ + 1) % CycleMod, !.status = "WaitingForInterrupt"]

\* The counter goes on from where the instruction left it, which may be a reset.
Charged(after, d, next) ==
    [after EXCEPT !.cpu.cycles = (@ + InstructionCycles(d, after.cpu.pc # next)) % CycleMod]

StepFetched(s, d) ==
    LET pc == s.cpu.pc
        next == (pc + d.length) % Modulus
    IN  Charged(Execute([s EXCEPT !.cpu.pc = next], d, pc), d, next)

StepAwake(s, program) ==
    IF Fetchable(program, s.cpu.pc)
    THEN StepFetched(Fetch(s, program, s.cpu.pc), Fetched(program, s.cpu.pc))
    ELSE Ended(s, "MemFault")

\* The bus refuses the first word of an exception's frame, eight words below the stack
\* pointer and aligned to eight bytes.
NoStack(s) ==
    LET below == (ReadSp(s.cpu) - 32) % Modulus
    IN  Write(s.mem, below - (below % 8), 4, 0).status # "Ok"

\* An exception whose first word finds no room locks the core up, awake and with an event.
\* One that finds room ends the model of the program, with the status it has if all goes well.
Raised(s) ==
    IF s.status \in {"Undefined", "MemFault", "Svc"}
    THEN Ended([s EXCEPT !.cpu = [@ EXCEPT !.event = TRUE, !.asleep = FALSE]],
               IF NoStack(s) THEN "Lockup" ELSE "ExceptionTaken")
    ELSE s

StepCpu(s, program) == IF s.cpu.asleep THEN StepAsleep(s) ELSE Raised(StepAwake(s, program))
=============================================================================
