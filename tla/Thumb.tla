-------------------------------- MODULE Thumb --------------------------------
(***************************************************************************)
(* The ARMv6-M decoder, thumb_decode.cpp: one halfword, or the two of a    *)
(* 32-bit instruction, to an instruction record.  Numbers are as wide as   *)
(* in the code; a register list is a set, and the fields `raw' and `add',  *)
(* which nothing that executes reads, are left out.                        *)
(***************************************************************************)
EXTENDS Integers, Sequences, Powers

Bits(v, hi, lo) == (v \div PowerOfTwo[lo]) % PowerOfTwo[hi - lo + 1]

BitOf(v, n) == (v \div PowerOfTwo[n]) % 2

SignExtend(v, width) ==
    LET low == v % PowerOfTwo[width]
    IN  IF low >= PowerOfTwo[width - 1] THEN low - PowerOfTwo[width] ELSE low

RegisterList(v) == {i \in 0..7 : BitOf(v, i) = 1}

\* The defaults of a DecodedInstr; a condition of 14 is "always"
Blank == [op |-> "UNDEFINED", length |-> 2, rd |-> 0, rn |-> 0, rm |-> 0, rt |-> 0, imm |-> 0,
          offset |-> 0, cond |-> 14, list |-> {}, setflags |-> FALSE, wback |-> FALSE]

\* The fields of both, the first of which come first
f ++ g == [x \in DOMAIN f \cup DOMAIN g |-> IF x \in DOMAIN f THEN f[x] ELSE g[x]]

Instr(op, fields) == [fields ++ Blank EXCEPT !.op = op]

Undefined(length) == [Blank EXCEPT !.length = length]

Is32Bit(hw) == Bits(hw, 15, 11) \in {29, 30, 31}

-----------------------------------------------------------------------------
\* Shifts by an immediate; one to the left by nothing is a move.
ImmediateShifts == <<"LSL_imm", "LSR_imm", "ASR_imm">>

MoveShifted(hw) ==
    LET kind == Bits(hw, 12, 11)
        imm5 == Bits(hw, 10, 6)
    IN  Instr(IF kind = 0 /\ imm5 = 0 THEN "MOV_reg" ELSE ImmediateShifts[kind + 1],
              [rd |-> Bits(hw, 2, 0), rm |-> Bits(hw, 5, 3), imm |-> imm5])

ThreeOperands == <<"ADD_reg", "SUB_reg", "ADD_imm3", "SUB_imm3">>

AddSubtract(hw) ==
    LET form == Bits(hw, 10, 9)
        third == Bits(hw, 8, 6)
    IN  Instr(ThreeOperands[form + 1],
              [rd |-> Bits(hw, 2, 0), rn |-> Bits(hw, 5, 3)]
              ++ (IF form < 2 THEN [rm |-> third] ELSE [imm |-> third]))

ByteOperand == <<"MOV_imm", "CMP_imm", "ADD_imm8", "SUB_imm8">>

MoveByte(hw) ==
    LET form == Bits(hw, 12, 11)
        r == Bits(hw, 10, 8)
    IN  Instr(ByteOperand[form + 1],
              [imm |-> Bits(hw, 7, 0)] ++ (IF form = 0 THEN [rd |-> r] ELSE IF form = 1 THEN [rn |-> r]
                                           ELSE [rd |-> r, rn |-> r]))

\* Shift (immediate), add, subtract, move, compare: all set the flags.
ShiftAddMove(hw) ==
    LET row == Bits(hw, 15, 11)
        decoded ==
            CASE row < 3 -> MoveShifted(hw)
              [] row = 3 -> AddSubtract(hw)
              [] OTHER -> MoveByte(hw)
    IN  [decoded EXCEPT !.setflags = TRUE]

DataOps == <<"AND_reg", "EOR_reg", "LSL_reg", "LSR_reg", "ASR_reg", "ADC_reg", "SBC_reg", "ROR_reg",
             "TST_reg", "RSB_imm", "CMP_reg", "CMN_reg", "ORR_reg", "MUL", "BIC_reg", "MVN_reg">>

DataProcessing(hw) ==
    LET op == DataOps[Bits(hw, 9, 6) + 1]
        rdn == Bits(hw, 2, 0)
        rm == Bits(hw, 5, 3)
        registers ==
            CASE op \in {"TST_reg", "CMP_reg", "CMN_reg"} -> [rn |-> rdn, rm |-> rm]
              [] op = "RSB_imm" -> [rd |-> rdn, rn |-> rm]
              [] op = "MUL" -> [rd |-> rdn, rn |-> rm, rm |-> rdn]
              [] OTHER -> [rd |-> rdn, rn |-> rdn, rm |-> rm]
    IN  Instr(op, registers ++ [setflags |-> TRUE])

\* The forms with high registers, of which only the comparison sets flags, and the exchanges
SpecialData(hw) ==
    LET rdn == 8 * BitOf(hw, 7) + Bits(hw, 2, 0)
        rm == [rm |-> Bits(hw, 6, 3)]
        op == Bits(hw, 9, 8)
    IN  CASE op = 0 -> Instr("ADD_reg_hi", rm ++ [rd |-> rdn, rn |-> rdn])
          [] op = 1 -> Instr("CMP_reg_hi", rm ++ [rn |-> rdn, setflags |-> TRUE])
          [] op = 2 -> Instr("MOV_reg_hi", rm ++ [rd |-> rdn])
          [] op = 3 /\ Bits(hw, 2, 0) # 0 -> Undefined(2)
          [] OTHER -> Instr(IF BitOf(hw, 7) = 1 THEN "BLX_reg" ELSE "BX", rm)

RegisterOffset == <<"STR_reg", "STRH_reg", "STRB_reg", "LDRSB_reg",
                    "LDR_reg", "LDRH_reg", "LDRB_reg", "LDRSH_reg">>

LoadStoreSingle(hw) ==
    LET opA == Bits(hw, 15, 12)
        load == BitOf(hw, 11) = 1
        imm5 == Bits(hw, 10, 6)
        base == [rn |-> Bits(hw, 5, 3), rt |-> Bits(hw, 2, 0)]
        Of(forLoad, forStore) == IF load THEN forLoad ELSE forStore
    IN  CASE opA = 5 -> Instr(RegisterOffset[Bits(hw, 11, 9) + 1], base ++ [rm |-> Bits(hw, 8, 6)])
          [] opA = 6 -> Instr(Of("LDR_imm", "STR_imm"), base ++ [imm |-> 4 * imm5])
          [] opA = 7 -> Instr(Of("LDRB_imm", "STRB_imm"), base ++ [imm |-> imm5])
          [] opA = 8 -> Instr(Of("LDRH_imm", "STRH_imm"), base ++ [imm |-> 2 * imm5])
          [] OTHER -> Instr(Of("LDR_imm_sp", "STR_imm_sp"),
                            [rt |-> Bits(hw, 10, 8), rn |-> 13, imm |-> 4 * Bits(hw, 7, 0)])

-----------------------------------------------------------------------------
\* Extends and byte reversals, by their bits 7 and 6
Extends == <<"SXTH", "SXTB", "UXTH", "UXTB">>
Reversals == <<"REV", "REV16", "UNDEFINED", "REVSH">>
Hints == <<"NOP", "YIELD", "WFE", "WFI", "SEV">>

Misc16(hw) ==
    LET row == Bits(hw, 11, 8)
        select == Bits(hw, 7, 6) + 1
        two == [rd |-> Bits(hw, 2, 0), rm |-> Bits(hw, 5, 3)]
        low == RegisterList(hw)
        extra == BitOf(hw, 8) = 1
        hint == Bits(hw, 7, 4)
        sp == [rd |-> 13, rn |-> 13, imm |-> 4 * Bits(hw, 6, 0)]
    IN  CASE row = 0 -> Instr(IF BitOf(hw, 7) = 0 THEN "ADD_SP_sp_imm" ELSE "SUB_SP_imm", sp)
          [] row = 2 -> Instr(Extends[select], two)
          [] row \in {4, 5} -> Instr("PUSH", [list |-> low \cup (IF extra THEN {14} ELSE {})])
          [] row = 6 /\ Bits(hw, 7, 5) = 3 -> Instr("CPS", [imm |-> BitOf(hw, 4)])
          [] row = 10 /\ select # 3 -> Instr(Reversals[select], two)
          [] row \in {12, 13} -> Instr("POP", [list |-> low \cup (IF extra THEN {15} ELSE {})])
          [] row = 14 -> Instr("BKPT", [imm |-> Bits(hw, 7, 0)])
          [] row = 15 /\ Bits(hw, 3, 0) = 0 -> [Blank EXCEPT !.op = IF hint <= 4 THEN Hints[hint + 1] ELSE "NOP"]
          [] OTHER -> Undefined(2)

CondBranch(hw) ==
    LET cond == Bits(hw, 11, 8)
    IN  CASE cond = 14 -> Instr("UDF", [imm |-> Bits(hw, 7, 0)])
          [] cond = 15 -> Instr("SVC", [imm |-> Bits(hw, 7, 0)])
          [] OTHER -> Instr("B_cond", [cond |-> cond, offset |-> SignExtend(2 * Bits(hw, 7, 0), 9)])

\* Writeback always for a store, for a load unless the base is loaded
Multiple(hw) ==
    LET rn == Bits(hw, 10, 8)
        list == RegisterList(hw)
        load == BitOf(hw, 11) = 1
    IN  Instr(IF load THEN "LDM" ELSE "STM", [rn |-> rn, list |-> list, wback |-> ~load \/ rn \notin list])

\* Relative to the stack pointer or to the program counter
Address(hw) ==
    LET sp == BitOf(hw, 11) = 1
    IN  Instr(IF sp THEN "ADD_SP_imm" ELSE "ADR",
              [rd |-> Bits(hw, 10, 8), rn |-> IF sp THEN 13 ELSE 15, imm |-> 4 * Bits(hw, 7, 0)])

Decode16(hw) ==
    LET top6 == Bits(hw, 15, 10)
        top4 == Bits(hw, 15, 12)
    IN  CASE top6 < 16 -> ShiftAddMove(hw)
          [] top6 = 16 -> DataProcessing(hw)
          [] top6 = 17 -> SpecialData(hw)
          [] top6 \in {18, 19} ->
                Instr("LDR_lit", [rt |-> Bits(hw, 10, 8), rn |-> 15, imm |-> 4 * Bits(hw, 7, 0)])
          [] top4 \in 5..9 -> LoadStoreSingle(hw)
          [] top4 = 10 -> Address(hw)
          [] top4 = 11 -> Misc16(hw)
          [] top4 = 12 -> Multiple(hw)
          [] top4 = 13 -> CondBranch(hw)
          [] Bits(hw, 15, 11) = 28 -> Instr("B", [offset |-> SignExtend(2 * Bits(hw, 10, 0), 12)])
          [] OTHER -> Undefined(2)

-----------------------------------------------------------------------------
\* Mutant: J1 and J2 taken for I1 and I2
BranchLinkPlain(hw1, hw2) ==
    LET imm == PowerOfTwo[24] * BitOf(hw1, 10) + PowerOfTwo[23] * BitOf(hw2, 13) + PowerOfTwo[22] * BitOf(hw2, 11)
               + PowerOfTwo[12] * Bits(hw1, 9, 0) + 2 * Bits(hw2, 10, 0)
    IN  Instr("BL", [length |-> 4, offset |-> SignExtend(imm, 25)])

\* The bits J1 and J2 of a BL stand for I1 and I2 unless they differ from the sign.
BranchLink(hw1, hw2) ==
    LET s == BitOf(hw1, 10)
        i1 == IF BitOf(hw2, 13) = s THEN 1 ELSE 0
        i2 == IF BitOf(hw2, 11) = s THEN 1 ELSE 0
        imm == PowerOfTwo[24] * s + PowerOfTwo[23] * i1 + PowerOfTwo[22] * i2
               + PowerOfTwo[12] * Bits(hw1, 9, 0) + 2 * Bits(hw2, 10, 0)
    IN  Instr("BL", [length |-> 4, offset |-> SignExtend(imm, 25)])

Barriers == <<"DSB", "DMB", "ISB">>

Decode32(hw1, hw2) ==
    LET sysm == [length |-> 4, imm |-> Bits(hw2, 7, 0)]
        barrier == Bits(hw2, 7, 4)
    IN  CASE Bits(hw1, 15, 11) = 30 /\ Bits(hw2, 15, 14) = 3 /\ BitOf(hw2, 12) = 1 -> BranchLink(hw1, hw2)
          [] hw1 = 62399 /\ Bits(hw2, 15, 8) = 143 /\ barrier \in 4..6 ->             \* F3BF 8F4x..8F6x
                Instr(Barriers[barrier - 3], [length |-> 4, imm |-> Bits(hw2, 3, 0)])
          [] hw1 = 62447 /\ BitOf(hw2, 15) = 1 ->                                       \* F3EF 8xxx
                Instr("MRS", sysm ++ [rd |-> Bits(hw2, 11, 8)])
          [] Bits(hw1, 15, 4) = 3896 /\ Bits(hw2, 15, 8) = 136 ->                       \* F38x 88xx
                Instr("MSR", sysm ++ [rn |-> Bits(hw1, 3, 0)])
          [] OTHER -> Undefined(4)
=============================================================================
