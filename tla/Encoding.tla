------------------------------ MODULE Encoding -------------------------------
(***************************************************************************)
(* The Thumb encodings as chapter A5 of the ARMv6-M manual lists them, the *)
(* other way round than the decoder: an instruction record to halfwords.   *)
(* What is not listed is unallocated.                                      *)
(***************************************************************************)
EXTENDS Thumb, SequencesExt

\* Opcodes by the operands that follow them
RdRmImm == [LSL_imm |-> 0, MOV_reg |-> 0, LSR_imm |-> 2048, ASR_imm |-> 4096]
RdRnRm == [ADD_reg |-> 6144, SUB_reg |-> 6656]
RdRnImm == [ADD_imm3 |-> 7168, SUB_imm3 |-> 7680]
RdByte == [MOV_imm |-> 8192, ADD_imm8 |-> 12288, SUB_imm8 |-> 14336]
RdRm == [AND_reg |-> 16384, EOR_reg |-> 16448, LSL_reg |-> 16512, LSR_reg |-> 16576, ASR_reg |-> 16640,
         ADC_reg |-> 16704, SBC_reg |-> 16768, ROR_reg |-> 16832, ORR_reg |-> 17152, BIC_reg |-> 17280,
         MVN_reg |-> 17344, SXTH |-> 45568, SXTB |-> 45632, UXTH |-> 45696, UXTB |-> 45760,
         REV |-> 47616, REV16 |-> 47680, REVSH |-> 47808]
RdRn == [RSB_imm |-> 16960, MUL |-> 17216]
RnRm == [TST_reg |-> 16896, CMP_reg |-> 17024, CMN_reg |-> 17088]
HighRd == [ADD_reg_hi |-> 17408, MOV_reg_hi |-> 17920]
OnlyRm == [BX |-> 18176, BLX_reg |-> 18304]
RtRnRm == [STR_reg |-> 20480, STRH_reg |-> 20992, STRB_reg |-> 21504, LDRSB_reg |-> 22016,
           LDR_reg |-> 22528, LDRH_reg |-> 23040, LDRB_reg |-> 23552, LDRSH_reg |-> 24064]
RtRnImm == [STR_imm |-> <<24576, 4>>, LDR_imm |-> <<26624, 4>>, STRB_imm |-> <<28672, 1>>,
            LDRB_imm |-> <<30720, 1>>, STRH_imm |-> <<32768, 2>>, LDRH_imm |-> <<34816, 2>>]
RtWords == [LDR_lit |-> 18432, STR_imm_sp |-> 36864, LDR_imm_sp |-> 38912]
RdWords == [ADR |-> 40960, ADD_SP_imm |-> 43008]
Words7 == [ADD_SP_sp_imm |-> 45056, SUB_SP_imm |-> 45184]
Lists == [PUSH |-> 46080, POP |-> 48128]
RnList == [STM |-> 49152, LDM |-> 51200]
OnlyByte == [BKPT |-> 48640, UDF |-> 56832, SVC |-> 57088]
Plain == [NOP |-> 48896, YIELD |-> 48912, WFE |-> 48928, WFI |-> 48944, SEV |-> 48960]

ListBits(list) == FoldLeft(LAMBDA v, i : v + (IF i \in list THEN 2^i ELSE 0), 0, <<0, 1, 2, 3, 4, 5, 6, 7>>)

OneHalf(d) ==
    LET op == d.op
        imm == d.imm
    IN  CASE op \in DOMAIN RdRmImm -> RdRmImm[op] + 64 * imm + 8 * d.rm + d.rd
          [] op \in DOMAIN RdRnRm -> RdRnRm[op] + 64 * d.rm + 8 * d.rn + d.rd
          [] op \in DOMAIN RdRnImm -> RdRnImm[op] + 64 * imm + 8 * d.rn + d.rd
          [] op \in DOMAIN RdByte -> RdByte[op] + 256 * d.rd + imm
          [] op = "CMP_imm" -> 10240 + 256 * d.rn + imm
          [] op \in DOMAIN RdRm -> RdRm[op] + 8 * d.rm + d.rd
          [] op \in DOMAIN RdRn -> RdRn[op] + 8 * d.rn + d.rd
          [] op \in DOMAIN RnRm -> RnRm[op] + 8 * d.rm + d.rn
          [] op \in DOMAIN HighRd -> HighRd[op] + 128 * (d.rd \div 8) + 8 * d.rm + (d.rd % 8)
          [] op = "CMP_reg_hi" -> 17664 + 128 * (d.rn \div 8) + 8 * d.rm + (d.rn % 8)
          [] op \in DOMAIN OnlyRm -> OnlyRm[op] + 8 * d.rm
          [] op \in DOMAIN RtRnRm -> RtRnRm[op] + 64 * d.rm + 8 * d.rn + d.rt
          [] op \in DOMAIN RtRnImm -> RtRnImm[op][1] + 64 * (imm \div RtRnImm[op][2]) + 8 * d.rn + d.rt
          [] op \in DOMAIN RtWords -> RtWords[op] + 256 * d.rt + imm \div 4
          [] op \in DOMAIN RdWords -> RdWords[op] + 256 * d.rd + imm \div 4
          [] op \in DOMAIN Words7 -> Words7[op] + imm \div 4
          [] op \in DOMAIN Lists -> Lists[op] + ListBits(d.list) + (IF d.list \subseteq 0..7 THEN 0 ELSE 256)
          [] op \in DOMAIN RnList -> RnList[op] + 256 * d.rn + ListBits(d.list)
          [] op = "CPS" -> 46690 + 16 * imm
          [] op \in DOMAIN OnlyByte -> OnlyByte[op] + imm
          [] op \in DOMAIN Plain -> Plain[op]
          [] op = "B_cond" -> 53248 + 256 * d.cond + ((d.offset \div 2) % 256)
          [] op = "B" -> 57344 + ((d.offset \div 2) % 2048)

\* The two top bits below the sign are stored inverted when the sign is clear.
BlHalves(offset) ==
    LET v == (offset % 2^25) \div 2
        s == BitOf(v, 23)
        J(n) == IF s = 1 THEN BitOf(v, n) ELSE 1 - BitOf(v, n)
    IN  <<61440 + 1024 * s + Bits(v, 20, 11), 53248 + 8192 * J(22) + 2048 * J(21) + (v % 2048)>>

Halves(d) ==
    CASE d.op = "BL" -> BlHalves(d.offset)
      [] d.op = "MRS" -> <<62447, 32768 + 256 * d.rd + d.imm>>
      [] d.op = "MSR" -> <<62336 + d.rn, 34816 + d.imm>>
      [] d.op \in {"DSB", "DMB", "ISB"} ->
            <<62399, 36672 + d.imm + (CASE d.op = "DSB" -> 64 [] d.op = "DMB" -> 80 [] OTHER -> 96)>>
      [] OTHER -> <<OneHalf(d)>>

\* Exchanges with bits that should be zero, the holes of the miscellaneous instructions,
\* If-Then, and the halfwords that begin 32 bits
Unallocated(hw) ==
    LET row == hw \div 256
    IN  \/ row = 71 /\ hw % 8 # 0
        \/ row \in {177, 179, 183, 184, 185, 187}
        \/ row = 182 /\ Bits(hw, 7, 5) # 3
        \/ row = 186 /\ Bits(hw, 7, 6) = 2
        \/ row = 191 /\ hw % 16 # 0
        \/ row >= 232

\* Bits that the manual leaves open: the interrupt selection of CPS, unknown hints
Canonical(hw) ==
    CASE hw \div 32 = 1459 -> hw - (hw % 16) + 2
      [] hw \div 256 = 191 /\ Bits(hw, 7, 4) > 4 -> 48896
      [] OTHER -> hw
=============================================================================
