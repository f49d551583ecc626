------------------------------- MODULE PioIsa -------------------------------
(***************************************************************************)
(* PIO instructions as halfwords: pio_decode, pio_disassemble and how a    *)
(* state machine splits the field that delay and side-set share.           *)
(*                                                                         *)
(* A text is an instruction as pioasm writes it, with its words as strings *)
(* and its numbers as numbers.  A side-set is <<>> or <<value>>; cfg is the*)
(* .side_set of a program, or what PINCTRL and EXECCTRL make of it.        *)
(***************************************************************************)
EXTENDS Integers, Sequences

Bits(w, low, n) == (w \div 2^low) % 2^n
Flag(w, b) == Bits(w, b, 1) = 1

-----------------------------------------------------------------------------
\* pio_decode, without the field [12:8]
BitCount(w) == IF Bits(w, 0, 5) = 0 THEN 32 ELSE Bits(w, 0, 5)

PioDecode(w) ==
    LET opcode == Bits(w, 13, 3)
        upper == Bits(w, 5, 3)
        lower == Bits(w, 0, 5)
    IN  CASE opcode = 0 -> [op |-> "jmp", cond |-> upper, arg |-> lower]
          [] opcode = 1 -> [op |-> "wait", pol |-> Bits(w, 7, 1), src |-> Bits(w, 5, 2), arg |-> lower]
          [] opcode = 2 -> [op |-> "in", src |-> upper, arg |-> BitCount(w)]
          [] opcode = 3 -> [op |-> "out", dst |-> upper, arg |-> BitCount(w)]
          [] opcode = 4 -> [op |-> IF Flag(w, 7) THEN "pull" ELSE "push",
                            cond |-> Flag(w, 6), block |-> Flag(w, 5)]
          [] opcode = 5 -> [op |-> "mov", dst |-> upper, mod |-> Bits(w, 3, 2), src |-> Bits(w, 0, 3)]
          [] opcode = 6 -> [op |-> "irq", clear |-> Flag(w, 6), wait |-> Flag(w, 5), arg |-> lower]
          [] opcode = 7 -> [op |-> "set", dst |-> upper, arg |-> lower]

-----------------------------------------------------------------------------
\* pio_disassemble; "?" is what it prints for a code without a name.
JmpConds == <<"", "!x", "x--", "!y", "y--", "x!=y", "pin", "!osre">>
InSources == <<"pins", "x", "y", "null", "?", "?", "isr", "osr">>
OutDests == <<"pins", "x", "y", "null", "pindirs", "pc", "isr", "exec">>
MovSources == <<"pins", "x", "y", "null", "?", "status", "isr", "osr">>
MovDests == <<"pins", "x", "y", "?", "exec", "pc", "isr", "osr">>
SetDests == <<"pins", "x", "y", "?", "pindirs", "?", "?", "?">>
MovOps == <<"", "~", "::", "">>
WaitSources == <<"gpio", "pin", "irq", "irq">>

BodyText(d) ==
    CASE d.op = "jmp" -> [d EXCEPT !.cond = JmpConds[@ + 1]]
      [] d.op = "wait" ->
            [op |-> "wait", pol |-> d.pol, src |-> WaitSources[d.src + 1], arg |-> d.arg % 16,
             rel |-> d.src = 2 /\ d.arg >= 16]
      [] d.op = "in" -> [d EXCEPT !.src = InSources[@ + 1]]
      [] d.op = "out" -> [d EXCEPT !.dst = OutDests[@ + 1]]
      [] d.op \in {"push", "pull"} -> d
      [] d.op = "mov" ->
            [d EXCEPT !.dst = MovDests[@ + 1], !.mod = MovOps[@ + 1], !.src = MovSources[@ + 1]]
      [] d.op = "irq" ->
            [op |-> "irq", mode |-> IF d.clear THEN "clear" ELSE IF d.wait THEN "wait" ELSE "set",
             arg |-> d.arg % 16, rel |-> d.arg >= 16]
      [] d.op = "set" -> [d EXCEPT !.dst = SetDests[@ + 1]]

SideBits(cfg) == cfg.count + (IF cfg.opt THEN 1 ELSE 0)

Disassemble(w, cfg) ==
    LET field == Bits(w, 8, 5)
        delayBits == IF SideBits(cfg) <= 5 THEN 5 - SideBits(cfg) ELSE 0
        sideField == field \div 2^delayBits
        printed == SideBits(cfg) > 0 /\ (cfg.opt => Flag(sideField, cfg.count))
    IN  [body |-> BodyText(PioDecode(w)),
         side |-> IF printed THEN <<Bits(sideField, 0, cfg.count)>> ELSE <<>>,
         delay |-> Bits(field, 0, delayBits)]

-----------------------------------------------------------------------------
\* StateMachine::delay_of and apply_sideset: the cycles a machine waits after the
\* instruction and what it writes to its side-set pins
DelayOf(w, cfg) == IF SideBits(cfg) >= 5 THEN 0 ELSE Bits(w, 8, 5 - SideBits(cfg))

SideOf(w, cfg) ==
    LET delayBits == IF SideBits(cfg) >= 5 THEN 0 ELSE 5 - SideBits(cfg)
    IN  IF cfg.count = 0 \/ (cfg.opt /\ ~Flag(w, 12)) THEN <<>>
        ELSE <<Bits(w, 8 + delayBits, cfg.count)>>
=============================================================================
