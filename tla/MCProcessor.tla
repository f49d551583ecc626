----------------------------- MODULE MCProcessor -----------------------------
(***************************************************************************)
(* Programs on the processor, written with the encodings of the manual:    *)
(* most run to their end and are judged by what they have computed, the    *)
(* last ones are in the hands of a debugger.  test names the program and   *)
(* what it is given.  Words have eight bits, bytes two; registers and      *)
(* instructions are those of the code.                                     *)
(***************************************************************************)
EXTENDS GdbStub, Encoding

VARIABLE test

vars == <<test, program, machine, ticks, drive>>

Start == 16
RamStart == 64
RamEnd == 96
StackEnd == 88

\* The map of the memory and what the debugger may set, as MCProcessor.cfg gives them to GdbStub
MapRom == [base |-> 0, size |-> 8]
MapFlash == [base |-> 8, size |-> 56]
MapSram == [base |-> RamStart, size |-> RamEnd - RamStart]
MapRegisters == [base |-> 128, size |-> 64]
MapSio == [base |-> 192, size |-> 16]
MapPpb == [base |-> 208, size |-> 16]
StartsAt == [sp |-> StackEnd, pc |-> Start]

OnBits == INSTANCE Bitwise
BitAnd(x, y) == OnBits!&(x, y)
BitOr(x, y) == OnBits!|(x, y)
BitXor(x, y) == OnBits!^^(x, y)

W(addr, len, r, w) == [addr |-> addr, len |-> len, onRead |-> r, onWrite |-> w]
Watched == {W(64, 4, FALSE, TRUE), W(67, 0, TRUE, FALSE), W(66, 2, TRUE, TRUE), W(Start + 4, 2, TRUE, FALSE)}
BreaksAt == {Start, Start + 4}
Poked == {[addr |-> 67, value |-> 3], [addr |-> 8, value |-> 1]}

ASSUME Assumed == StubAssumption

-----------------------------------------------------------------------------
\* Writing programs
Op(op, d, n, m) == Instr(op, [rd |-> d, rn |-> n, rm |-> m])
Imm(op, r, v) == Instr(op, [rd |-> r, rn |-> r, imm |-> v])
MemAt(op, t, n, v) == Instr(op, [rt |-> t, rn |-> n, imm |-> v])
MemBy(op, t, n, m) == Instr(op, [rt |-> t, rn |-> n, rm |-> m])
List(op, n, list) == Instr(op, [rn |-> n, list |-> list])
Jump(op, cond, offset) == Instr(op, [cond |-> cond, offset |-> offset])
Bx(op, m) == Instr(op, [rm |-> m])
End == <<Jump("B", 14, -4)>>

Assembled(instrs) ==
    LET halves == FlattenSeq([i \in 1..Len(instrs) |-> Halves(instrs[i])])
    IN  [a \in {Start + 2 * (i - 1) : i \in 1..Len(halves)} |-> halves[(a - Start) \div 2 + 1]]

\* SRAM starts as zeros, the flash with a word at its start.
Cells == [a \in 0..(RamEnd - 1) |-> IF a \in 8..63 THEN (a + 1) % 4 ELSE 0]

\* A program that runs with the registers given
Runs(name, args, instrs, given, carry) ==
    /\ test = [name |-> name, args |-> args]
    /\ program = Assembled(instrs)
    /\ machine = [cpu |-> [ResetCpu EXCEPT !.r = given @@ @, !.c = carry],
                  mem |-> Fresh(Cells), status |-> "Ok"]
    /\ ticks = 0
    /\ drive = [Standby("running") EXCEPT !.count = 0]

Finished(name) == test.name = name /\ drive.mode = "stopped"

R(n) == machine.cpu.r[n]

Values == {0, 1, 2, 85, 127, 128, 129, 254, 255}

-----------------------------------------------------------------------------
\* r2 tells whether a conditional branch behind a comparison of r0 and r1 was taken.
CompareForms == {"CMP_reg", "CMP_imm", "CMP_reg_hi", "SUB_reg", "SUB_imm8", "CMN_reg"}

Comparison(form, y) ==
    CASE form \in {"CMP_imm", "SUB_imm8"} -> Imm(form, 0, y)
      [] form = "SUB_reg" -> Op(form, 0, 0, 1)
      [] form = "CMP_reg_hi" -> Op(form, 0, 0, 9)
      [] OTHER -> Op(form, 0, 0, 1)

CompareInit ==
    \E form \in CompareForms, cond \in 0..13, x \in Values, y \in Values :
        /\ form = "CMN_reg" => y \notin {0, 128}   \* whose negations are themselves
        /\ Runs("compare", [cond |-> cond, x |-> x, y |-> y],
                <<Imm("MOV_imm", 2, 1), Comparison(form, y), Jump("B_cond", cond, 0), Imm("MOV_imm", 2, 0)>> \o End,
                (0 :> x) @@ (1 :> IF form = "CMN_reg" THEN 256 - y ELSE y) @@ (9 :> y), FALSE)

CompareExact ==
    Finished("compare") => R(2) = IF Relation(test.args.cond, test.args.x, test.args.y) THEN 1 ELSE 0

-----------------------------------------------------------------------------
\* Numbers of two words: r1:r0 and r3:r2
WideOps ==
    [add |-> <<Op("ADD_reg", 0, 0, 2), Op("ADC_reg", 1, 1, 3)>>,
     sub |-> <<Op("SUB_reg", 0, 0, 2), Op("SBC_reg", 1, 1, 3)>>,
     \* the moves, logic and products between do not disturb the carry
     addApart |-> <<Op("ADD_reg", 0, 0, 2), Imm("MOV_imm", 4, 7), Op("MUL", 4, 0, 4), Op("EOR_reg", 4, 4, 4),
                    Op("TST_reg", 0, 0, 2), Op("UXTB", 4, 0, 0), Op("ADC_reg", 1, 1, 3)>>,
     negate |-> <<Op("RSB_imm", 0, 0, 0), Imm("MOV_imm", 4, 0), Op("SBC_reg", 4, 4, 1), Op("MOV_reg", 1, 0, 4)>>,
     double |-> <<Instr("LSL_imm", [imm |-> 1]), Op("ADC_reg", 1, 1, 1)>>,
     less |-> <<Imm("MOV_imm", 4, 1), Op("CMP_reg", 0, 0, 2), Op("SBC_reg", 1, 1, 3), Jump("B_cond", 11, 0),
                Imm("MOV_imm", 4, 0)>>,
     below |-> <<Imm("MOV_imm", 4, 1), Op("CMP_reg", 0, 0, 2), Op("SBC_reg", 1, 1, 3), Jump("B_cond", 3, 0),
                 Imm("MOV_imm", 4, 0)>>,
     product |-> <<Op("MUL", 0, 2, 0)>>]

Corner == {0, 1, 127, 128, 255}

WideInit ==
    \E op \in DOMAIN WideOps, x0 \in Corner, x1 \in Corner, y0 \in Corner, y1 \in Corner :
        Runs("wide", [op |-> op, x |-> x0 + 256 * x1, y |-> y0 + 256 * y1], WideOps[op] \o End,
             (0 :> x0) @@ (1 :> x1) @@ (2 :> y0) @@ (3 :> y1), TRUE)

Signed16(v) == SignedWide(v % 256, v \div 256)

WideExact ==
    Finished("wide") =>
        LET x == test.args.x
            y == test.args.y
            result == R(0) + 256 * R(1)
            op == test.args.op
        IN  CASE op \in {"add", "addApart"} -> result = (x + y) % 65536
              [] op = "sub" -> result = (x - y) % 65536
              [] op = "negate" -> result = (-x) % 65536
              [] op = "double" -> result = (2 * x) % 65536
              [] op = "less" -> R(4) = IF Signed16(x) < Signed16(y) THEN 1 ELSE 0
              [] op = "below" -> R(4) = IF x < y THEN 1 ELSE 0
              [] op = "product" -> R(0) = ((x % 256) * (y % 256)) % 256
-----------------------------------------------------------------------------
\* A shift of r0, then r2 receives the carry.
ShiftInit ==
    \E op \in {"LSL_reg", "LSR_reg", "ASR_reg", "ROR_reg", "LSL_imm", "LSR_imm", "ASR_imm"},
       x \in Values, n \in (0..10) \cup {16, 17, 24, 255}, carry \in BOOLEAN :
        /\ op \in {"LSL_imm", "LSR_imm", "ASR_imm"} => n < 9
        /\ Runs("shift", [op |-> op, x |-> x, n |-> n, carry |-> carry],
                <<IF op = "LSL_imm" /\ n = 0 THEN Op("MOV_reg", 0, 0, 0)
                  ELSE IF op \in {"LSL_imm", "LSR_imm", "ASR_imm"} THEN Instr(op, [imm |-> n])
                  ELSE Op(op, 0, 0, 1),
                  Imm("MOV_imm", 2, 0), Op("ADC_reg", 2, 2, 2)>> \o End, (0 :> x) @@ (1 :> n), carry)

ShiftKind == [LSL_reg |-> "LSL", LSR_reg |-> "LSR", ASR_reg |-> "ASR", ROR_reg |-> "ROR",
              LSL_imm |-> "LSL", LSR_imm |-> "LSR", ASR_imm |-> "ASR"]

\* A shift is as many shifts by one bit.
ShiftExact ==
    Finished("shift") =>
        LET t == test.args
            n == IF t.op \in {"LSR_imm", "ASR_imm"} /\ t.n = 0 THEN 8 ELSE t.n
            kind == ShiftKind[t.op]
            shifted == FoldLeft(LAMBDA s, i : OneBit(kind, s), <<t.x, Digit(t.carry)>>, [i \in 1..n |-> i])
        IN  <<R(0), R(2)>> = shifted

-----------------------------------------------------------------------------
\* r0 becomes the sum of 1 to r0 by recursion, called and returned from in several ways.
Body(form) ==
    LET again == <<Instr("SUB_imm8", [imm |-> 1]), Jump("B_cond", 0, 2)>>
                 \o (IF form = "blx" THEN <<Bx("BLX_reg", 5), Op("NOP", 0, 0, 0)>>
                     ELSE <<Jump("BL", 14, -12)>>)
        saving == <<List("PUSH", 0, {4, 14}), Op("MOV_reg", 4, 0, 0)>> \o again \o <<Op("ADD_reg", 0, 0, 4)>>
    IN  CASE form = "local" ->
                <<List("PUSH", 0, {14}), Imm("SUB_SP_imm", 13, 4), MemAt("STR_imm_sp", 0, 13, 0),
                  Instr("SUB_imm8", [imm |-> 1]), Jump("B_cond", 0, 2), Jump("BL", 14, -14),
                  MemAt("LDR_imm_sp", 6, 13, 0), Op("ADD_reg", 0, 0, 6), Imm("ADD_SP_sp_imm", 13, 4),
                  List("POP", 0, {15})>>
          [] form = "bx" -> saving \o <<List("POP", 0, {4}), List("POP", 0, {3}), Bx("BX", 3)>>
          [] form = "mov" -> saving \o <<List("POP", 0, {4}), List("POP", 0, {3}), Op("MOV_reg_hi", 15, 0, 3)>>
          [] OTHER -> saving \o <<List("POP", 0, {4, 15})>>

\* The process stack has half the words.
ToPsp == <<Imm("MOV_imm", 1, 80), Instr("MSR", [rn |-> 1, imm |-> 9]), Imm("MOV_imm", 1, 2),
           Instr("MSR", [rn |-> 1, imm |-> 20])>>

CallsInit ==
    \E form \in {"pop", "local", "bx", "mov", "blx", "psp"}, n \in 1..5 :
        LET first == IF form = "psp" THEN ToPsp ELSE <<>>
            call == IF form = "blx" THEN <<Bx("BLX_reg", 5), Op("NOP", 0, 0, 0)>> ELSE <<Jump("BL", 14, 2)>>
        IN  Runs("calls", [form |-> form, n |-> n], first \o call \o End \o Body(form),
                 (0 :> n) @@ (4 :> 9) @@ (5 :> Start + 7), FALSE)

\* Every call comes back to its caller with the registers it saves and the stack pointer
\* as they were.  A stack that overflows faults at the boundary with what was pushed in
\* whole, and an unaligned or unmapped stack never goes unnoticed.
CallsReturn ==
    Finished("calls") =>
        LET psp == test.args.form = "psp"
            n == test.args.n
            fits == n <= IF psp THEN 2 ELSE 3
            sp == ReadSp(machine.cpu)
        IN  IF fits
            THEN /\ drive.stop.kind = "self_branch" /\ sp = (IF psp THEN 80 ELSE StackEnd)
                 /\ 2 * R(0) = n * (n + 1) /\ R(4) = 9 /\ (psp => machine.cpu.msp = StackEnd)
            ELSE drive.stop.kind = "Lockup" /\ sp = RamStart
-----------------------------------------------------------------------------
\* Bytes, halfwords, words and blocks: each test with what it is given and expects
B(v, i) == (v \div 4^i) % 4
Extended(v, bits) == IF v >= 2^(bits - 1) THEN v + 256 - 2^bits ELSE v
Ones(v) == {i \in 0..7 : BitOf(v, i) = 1}
Number(bits) == FoldLeft(LAMBDA v, i : v + (IF i \in bits THEN 2^i ELSE 0), 0, <<0, 1, 2, 3, 4, 5, 6, 7>>)

Case(instrs, given, expect) == [instrs |-> instrs, given |-> given, expect |-> expect, stop |-> "self_branch"]
Faulting(instrs, given, expect) == [Case(instrs, given, expect) EXCEPT !.stop = "Lockup"]

\* The bytes of x from the lowest, and put back in the opposite order
Bytes(x, at) ==
    LET reversed == B(x, 3) + 4 * B(x, 2) + 16 * B(x, 1) + 64 * B(x, 0)
    IN  Case(<<MemAt("STR_imm", 0, 1, 0), MemAt("LDRB_imm", 2, 1, 0), MemAt("LDRB_imm", 3, 1, 1),
               MemAt("LDRB_imm", 4, 1, 2), MemAt("LDRB_imm", 5, 1, 3), MemAt("STRB_imm", 2, 1, 7),
               MemAt("STRB_imm", 3, 1, 6), MemAt("STRB_imm", 4, 1, 5), MemAt("STRB_imm", 5, 1, 4),
               MemAt("LDR_imm", 6, 1, 4), Op("REV", 7, 0, 0)>>,
             (0 :> x) @@ (1 :> at),
             (2 :> B(x, 0)) @@ (3 :> B(x, 1)) @@ (4 :> B(x, 2)) @@ (5 :> B(x, 3)) @@ (6 :> reversed) @@ (7 :> reversed))

\* The upper half of a word written and read with every extension
HalfWords(x, at) ==
    LET low == x % 16
    IN  Case(<<MemBy("STRH_reg", 0, 1, 6), MemBy("LDRSH_reg", 2, 1, 6), MemAt("LDRH_imm", 3, 1, 2),
               MemBy("LDRSB_reg", 4, 1, 6), MemAt("LDR_imm", 5, 1, 0), Op("SXTH", 7, 0, 0),
               Op("REVSH", 0, 0, 0)>>,
             (0 :> x) @@ (1 :> at) @@ (6 :> 2),
             (2 :> Extended(low, 4)) @@ (3 :> low) @@ (4 :> Extended(x % 4, 2)) @@ (5 :> 16 * low)
                @@ (7 :> Extended(low, 4)) @@ (0 :> Extended(4 * B(x, 0) + B(x, 1), 4)))

\* The word of the flash below the program's literals, by both ways to its address
Literal == Case(<<MemAt("LDR_lit", 0, 15, 4), Imm("ADR", 1, 4), MemAt("LDR_imm", 2, 1, 0)>>, (0 :> 0),
                (0 :> 57) @@ (2 :> 57) @@ (1 :> Start + 8))

\* Out and back in again; the last load has its base in the list.
Blocks(x, y) ==
    Case(<<List("STM", 1, {0, 2}), Imm("SUB_imm8", 1, 8), List("LDM", 1, {3, 4}), Imm("SUB_imm8", 1, 8),
           List("PUSH", 0, {0, 2}), List("POP", 0, {5}), List("POP", 0, {6}), List("LDM", 1, {1, 7})>>,
         (0 :> x) @@ (1 :> RamStart) @@ (2 :> y),
         (3 :> x) @@ (4 :> y) @@ (5 :> x) @@ (6 :> y) @@ (1 :> x) @@ (7 :> y))

\* Flip, set and clear through the aliases of a register
Aliases(x, y, at) ==
    Case(<<MemAt("STR_imm", 0, 1, 0), MemAt("STR_imm", 5, 1, 8), MemAt("LDR_imm", 6, 1, 0),
           MemAt("STR_imm", 5, 1, 16), MemAt("LDR_imm", 7, 1, 0), MemAt("STR_imm", 5, 1, 24),
           MemAt("LDR_imm", 0, 1, 0)>>,
         (0 :> x) @@ (1 :> at) @@ (5 :> y),
         (6 :> Number((Ones(x) \ Ones(y)) \cup (Ones(y) \ Ones(x)))) @@ (7 :> Number(Ones(x) \cup Ones(y)))
            @@ (0 :> Number(Ones(x) \ Ones(y))))

\* Unaligned, read-only, unmapped; the alias of a register that has none; and a block
\* that leaves the memory halfway
Faults(x) ==
    {Faulting(<<Imm("MOV_imm", 3, 1), MemAt(t[1], 2, 1, 0), Imm("MOV_imm", 3, 2)>>, (1 :> t[2]) @@ (2 :> x),
              (1 :> t[2]) @@ (2 :> x) @@ (3 :> 1)) :
        t \in {"LDR_imm", "STR_imm"} \X {65, 66, 67, 61, 130, 192, 255}
             \cup {"LDRH_imm", "STRH_imm"} \X {65, 95, 200}
             \cup {<<"STR_imm", 8>>, <<"STRB_imm", 63>>, <<"STRB_imm", 96>>, <<"LDR_imm", 168>>}}
    \cup {Faulting(<<List(op, 1, {2, 3})>>, (1 :> 92) @@ (2 :> x) @@ (3 :> x), (1 :> 92) @@ (3 :> x)) :
            op \in {"STM", "LDM"}}

MemoryTests ==
    {Bytes(x, at) : x \in {27, 228, 130, 255}, at \in {64, 72}}
        \cup {HalfWords(x, at) : x \in {27, 228, 7, 9}, at \in {64, 92}}
        \cup {Literal, Blocks(27, 228), Blocks(64, 65)}
        \cup {Aliases(x, y, at) : x \in {0, 90, 255}, y \in {15, 85}, at \in {128, 132, 160, 164}}
        \cup Faults(27)

MemoryInit ==
    \E t \in MemoryTests :
        Runs("memory", [expect |-> t.expect, stop |-> t.stop], t.instrs \o End, t.given, FALSE)

\* What is stored is loaded, in any width and order; an access that is refused has done
\* nothing, neither to its register nor to its base.
BytesKeepOrder ==
    Finished("memory") =>
        /\ drive.stop.kind = test.args.stop
        /\ \A i \in DOMAIN test.args.expect : R(i) = test.args.expect[i]

-----------------------------------------------------------------------------
\* One state for every 256 halfwords
DecodeInit ==
    \E high \in 0..255 :
        /\ test = [name |-> "decode", args |-> high]
        /\ program = <<>> /\ ticks = 0 /\ drive = Standby("stopped")
        /\ machine = [cpu |-> ResetCpu, mem |-> Fresh(<<>>), status |-> "Ok"]

\* The decoder recognises exactly the allocated halfwords, and each of its fields is where
\* the encoding puts it; a BL reaches 16 MB in both directions.
DecodesManual ==
    test.name = "decode" =>
        /\ \A low \in 0..255 :
            LET hw == 256 * test.args + low
                d == Decode16(hw)
            IN  IF Unallocated(hw) THEN d.op = "UNDEFINED" ELSE Halves(d) = <<Canonical(hw)>>
        /\ \A k \in 1..17 :
            LET offset == (test.args - 128) * 2^k
                halves == BlHalves(offset)
            IN  Is32Bit(halves[1]) /\ Decode32(halves[1], halves[2]) = Instr("BL", [length |-> 4, offset |-> offset])
        /\ \A r \in 0..15, op \in {"MRS", "MSR"} :
            LET d == Instr(op, [length |-> 4, imm |-> test.args] @@ (IF op = "MRS" THEN [rd |-> r] ELSE [rn |-> r]))
            IN  Decode32(Halves(d)[1], Halves(d)[2]) = d

-----------------------------------------------------------------------------
\* Loops of four instructions for the debugger
Storing(op, offset) == MemAt(op, 0, 1, offset)
Loops ==
    [counts |-> <<Op("EOR_reg", 0, 0, 3), Storing("STR_imm", 0), MemAt("LDRB_imm", 2, 1, 3)>>,
     breaks |-> <<Op("EOR_reg", 0, 0, 3), Storing("STRH_imm", 2), Instr("BKPT", [imm |-> 1])>>,
     sleeps |-> <<MemAt("LDR_imm", 0, 1, 0), Storing("STRB_imm", 3), Instr("WFI", [imm |-> 0])>>]

DebugInit ==
    \E name \in DOMAIN Loops :
        /\ test = [name |-> "debug", args |-> name]
        /\ program = Assembled(Loops[name] \o <<Jump("B", 14, -10)>>)
        /\ machine = [cpu |-> [ResetCpu EXCEPT !.r = (1 :> RamStart) @@ (3 :> 255) @@ @],
                      mem |-> Fresh(Cells), status |-> "Ok"]
        /\ ticks = 0
        /\ drive = Standby("empty")
        /\ GdbInit

\* A program that resets its own core through AIRCR
ResetInit ==
    Runs("reset", "none", <<Imm("MOV_imm", 0, 4), Imm("MOV_imm", 1, 208), Op("NOP", 0, 0, 0), MemAt("STR_imm", 0, 1, 0)>> \o End,
         (0 :> 0), FALSE)

-----------------------------------------------------------------------------
\* Sources for the PIO assembler: one state each
P == INSTANCE PioSources

AssemblyInit ==
    \E source \in P!OneInstruction \cup P!Shared \cup P!Programs :
        /\ test = [name |-> "assembly", args |-> source]
        /\ program = <<>> /\ ticks = 0 /\ drive = Standby("stopped")
        /\ machine = [cpu |-> ResetCpu, mem |-> Fresh(<<>>), status |-> "Ok"]

\* A PIO source is assembled if and only if the language allows it; then every word reads,
\* to the disassembler and to a state machine, as the line it came from, with every name
\* what the source means by it, and the layout is the one that was written.
AssembledAsWritten == test.name = "assembly" => P!AsWritten(test.args, P!Assemble(test.args))

Debugged == test.name = "debug"

Init == CompareInit \/ WideInit \/ ShiftInit \/ CallsInit \/ MemoryInit \/ DecodeInit \/ AssemblyInit \/ DebugInit \/ ResetInit

Next ==
    /\ UNCHANGED test
    /\ \/ ~Debugged /\ RunStep
       \/ Debugged /\ GdbNext

Spec == Init /\ [][Next]_vars

-----------------------------------------------------------------------------
\* Comparisons and branches mean what their names say, on one word and on two; shifts are
\* shifts by one bit repeated, to any amount.
ArithmeticExact == CompareExact /\ WideExact /\ ShiftExact

E == INSTANCE DebugEngine WITH
        Images <- DOMAIN Loops, Length <- 4, mode <- drive.mode,
        sim <- [image |-> test.args, pc |-> (machine.cpu.pc - Start) \div 2],
        breakpoints <- {(a - Start) \div 2 : a \in drive.breakpoints}

\* The stub is the debugger that the lab server's session is, too.
ImplementsEngine == (Debugged => E!Init) /\ [][Debugged => [E!Next]_(E!vars)]_vars

\* simulator.h says that a step clocks the peripherals by the cycles the instruction cost;
\* the longest takes 13.
TicksWithinCost == ticks <= 13
=============================================================================
