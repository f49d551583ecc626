---------------------------- MODULE PioAssembler ----------------------------
(***************************************************************************)
(* The assembler of src/pio/pio_assembler.cpp: two passes over the lines of*)
(* a program, the first for labels, symbols and the layout, the second for *)
(* the instructions' words.                                                *)
(*                                                                         *)
(* A line is what the tokeniser and split_line make of it: a label, <<>> or*)
(* <<name>>, and a statement, which is a directive or an instruction.  An  *)
(* expression is a symbol, or "" for none, plus a number; Die is what an   *)
(* exception of the code makes of the result.                              *)
(***************************************************************************)
EXTENDS PioIsa, SequencesExt

Die == -1

E(name, plus) == [name |-> name, plus |-> plus]

\* ExprEval: <<value>>, or <<>> for an undefined symbol
Value(e, symbols) ==
    IF e.name = "" THEN <<e.plus>>
    ELSE IF e.name \in DOMAIN symbols THEN <<symbols[e.name] + e.plus>>
    ELSE <<>>

Ignored == {".lang_opt", ".pio_version", ".clock_div", ".fifo", ".mov_status", ".set", ".out", ".in"}

\* .other is any other word that begins with a dot.
Directives == {".program", ".define", ".origin", ".side_set", ".wrap_target", ".wrap", ".other"} \cup Ignored

IsInstruction(line) == line.stmt.op \notin Directives \cup {""}

-----------------------------------------------------------------------------
(* Pass 1 *)

Unread == [ok |-> TRUE, pc |-> 0, symbols |-> <<>>, exported |-> <<>>, named |-> FALSE,
           origin |-> <<>>, count |-> 0, opt |-> FALSE, target |-> 0, wrap |-> <<>>]

Failed(p) == [p EXCEPT !.ok = FALSE]

\* Mutant: a label stands for the line after it.
WithLabelNext(p, line) ==
    IF line.label = <<>> THEN p
    ELSE IF line.label[1] \in DOMAIN p.symbols THEN Failed(p)
    ELSE LET here == line.label[1] :> p.pc + (IF p.pc > 0 THEN 1 ELSE 0)
         IN  [p EXCEPT !.symbols = here @@ @, !.exported = IF line.public THEN here @@ @ ELSE @]

\* Every label is a symbol, too: one look finds duplicates of both.
WithLabel(p, line) ==
    IF line.label = <<>> THEN p
    ELSE IF line.label[1] \in DOMAIN p.symbols THEN Failed(p)
    ELSE LET here == line.label[1] :> p.pc
         IN  [p EXCEPT !.symbols = here @@ @, !.exported = IF line.public THEN here @@ @ ELSE @]

\* handle_directive.  A .define takes any name, that of a label above it, too, and the
\* options of an earlier .side_set stay.
Directive(p, s) ==
    CASE s.op = ".program" -> IF p.named THEN Failed(p) ELSE [p EXCEPT !.named = TRUE]
      [] s.op = ".define" ->
            LET v == Value(s.arg, p.symbols)
            IN  IF v = <<>> THEN Failed(p) ELSE [p EXCEPT !.symbols = (s.name :> v[1]) @@ @]
      [] s.op = ".origin" ->
            LET v == Value(s.arg, p.symbols)
            IN  IF v = <<>> THEN Failed(p) ELSE [p EXCEPT !.origin = v]
      [] s.op = ".side_set" ->
            LET v == Value(s.arg, p.symbols)
                q == [p EXCEPT !.count = v[1], !.opt = @ \/ s.opt]
            IN  IF v = <<>> THEN Failed(p) ELSE IF SideBits(q) \in 0..5 THEN q ELSE Failed(q)
      [] s.op = ".wrap_target" -> [p EXCEPT !.target = p.pc]
      [] s.op = ".wrap" -> IF p.pc = 0 THEN Failed(p) ELSE [p EXCEPT !.wrap = <<p.pc - 1>>]
      [] s.op \in Ignored -> p
      [] s.op = ".other" -> Failed(p)

ReadLine(p, line) ==
    LET q == WithLabel(p, line)
    IN  IF ~p.ok THEN p
        ELSE IF ~q.ok \/ line.stmt.op = "" THEN q
        ELSE IF line.stmt.op \in Directives THEN Directive(q, line.stmt)
        ELSE [q EXCEPT !.pc = @ + 1]

Pass1(source) ==
    LET p == FoldLeft(ReadLine, Unread, source)
    IN  IF ~p.ok THEN p
        ELSE IF p.pc = 0 THEN Failed(p)
        ELSE [p EXCEPT !.wrap = IF @ = <<>> THEN <<p.pc - 1>> ELSE @]

-----------------------------------------------------------------------------
(* Pass 2: the operands of each instruction, bits [7:0] *)

Code(table, word) == IF word \in DOMAIN table THEN table[word] ELSE Die

Conditions == ("" :> 0) @@ ("!x" :> 1) @@ ("x--" :> 2) @@ ("!y" :> 3) @@ ("y--" :> 4)
              @@ ("x!=y" :> 5) @@ ("pin" :> 6) @@ ("!osre" :> 7)
InCodes == [pins |-> 0, x |-> 1, y |-> 2, null |-> 3, isr |-> 6, osr |-> 7]
OutCodes == [pins |-> 0, x |-> 1, y |-> 2, null |-> 3, pindirs |-> 4, pc |-> 5, isr |-> 6, exec |-> 7]
MovDestCodes == [pins |-> 0, x |-> 1, y |-> 2, exec |-> 4, pc |-> 5, isr |-> 6, osr |-> 7]
MovSourceCodes == [pins |-> 0, x |-> 1, y |-> 2, null |-> 3, status |-> 5, isr |-> 6, osr |-> 7]
MovModCodes == ("" :> 0) @@ ("!" :> 1) @@ ("~" :> 1) @@ ("::" :> 2)
SetCodes == [pins |-> 0, x |-> 1, y |-> 2, pindirs |-> 4]
WaitCodes == [gpio |-> 0, pin |-> 1, irq |-> 2]

\* index |= 0x10
Relative(index) == IF index \in 0..15 THEN index + 16 ELSE index

EncJmp(i, v) == IF v \in 0..31 THEN 32 * Conditions[i.cond] + v ELSE Die

EncWait(i, v) ==
    LET index == IF i.rel /\ i.src = "irq" THEN Relative(v) ELSE v
    IN  IF i.pol \in {0, 1} /\ i.src \in DOMAIN WaitCodes /\ (i.rel => i.src = "irq") /\ index \in 0..31
        THEN 128 * i.pol + 32 * WaitCodes[i.src] + index
        ELSE Die

EncInOut(code, v) == IF code # Die /\ v \in 1..32 THEN 32 * code + (v % 32) ELSE Die

\* The options in their order: the last of block and noblock counts.
EncPushPull(i) ==
    LET cond == IF i.op = "pull" THEN "ifempty" ELSE "iffull"
        blocking == SelectSeq(i.options, LAMBDA o : o \in {"block", "noblock"})
        block == blocking = <<>> \/ Last(blocking) = "block"
    IN  IF ToSet(i.options) \subseteq {"block", "noblock", cond}
        THEN (IF cond \in ToSet(i.options) THEN 64 ELSE 0) + (IF block THEN 32 ELSE 0)
        ELSE Die

EncMov(i) ==
    IF i.dst \in DOMAIN MovDestCodes /\ i.src \in DOMAIN MovSourceCodes /\ i.mod \in DOMAIN MovModCodes
    THEN 32 * MovDestCodes[i.dst] + 8 * MovModCodes[i.mod] + MovSourceCodes[i.src]
    ELSE Die

EncIrq(i, v) ==
    LET index == IF i.rel THEN Relative(v) ELSE v
    IN  IF index \in 0..31
        THEN (IF i.mode = "clear" THEN 64 ELSE 0) + (IF i.mode = "wait" THEN 32 ELSE 0) + index
        ELSE Die

EncSet(i, v) ==
    IF i.dst \in DOMAIN SetCodes /\ v \in 0..31 THEN 32 * SetCodes[i.dst] + v ELSE Die

\* The opcode and what its encoder adds to it; nop is mov y, y.
Plus(base, operands) == IF operands = Die THEN Die ELSE base + operands

Body(i, symbols) ==
    LET v == IF "arg" \in DOMAIN i THEN Value(i.arg, symbols) ELSE <<0>>
    IN  IF v = <<>> THEN Die
        ELSE CASE i.op = "nop" -> 40960 + 66
               [] i.op = "jmp" -> EncJmp(i, v[1])
               [] i.op = "wait" -> Plus(8192, EncWait(i, v[1]))
               [] i.op = "in" -> Plus(16384, EncInOut(Code(InCodes, i.src), v[1]))
               [] i.op = "out" -> Plus(24576, EncInOut(Code(OutCodes, i.dst), v[1]))
               [] i.op = "push" -> Plus(32768, EncPushPull(i))
               [] i.op = "pull" -> Plus(32768 + 128, EncPushPull(i))
               [] i.op = "mov" -> Plus(40960, EncMov(i))
               [] i.op = "irq" -> Plus(49152, EncIrq(i, v[1]))
               [] i.op = "set" -> Plus(57344, EncSet(i, v[1]))

\* delay_sideset_field: bits [12:8]; side and delay are values, side an optional one.
DelaySideset(side, delay, cfg) ==
    LET delayBits == 5 - SideBits(cfg)
        enable == IF cfg.opt THEN 16 ELSE 0
    IN  IF delay \notin 0..(2^delayBits - 1) THEN Die
        ELSE IF side = <<>> THEN (IF SideBits(cfg) = 0 \/ cfg.opt THEN delay ELSE Die)
        ELSE IF SideBits(cfg) > 0 /\ side[1] \in 0..(2^cfg.count - 1)
             THEN delay + side[1] * 2^delayBits + enable
             ELSE Die

\* encode: side is <<>> or <<expression>>, delay an expression.
Encode(s, p) ==
    LET values == [k \in DOMAIN s.side |-> Value(s.side[k], p.symbols)]
        delay == Value(s.delay, p.symbols)
        field == IF delay = <<>> \/ <<>> \in Range(values) THEN Die
                 ELSE DelaySideset(IF values = <<>> THEN <<>> ELSE values[1], delay[1], p)
        body == Body(s.body, p.symbols)
    IN  IF body = Die \/ field = Die THEN Die ELSE body + 256 * field

Pass2(code, p) == [k \in DOMAIN code |-> Encode(code[k].stmt, p)]

\* Assembler::run
Assemble(source) ==
    LET p == Pass1(source)
        words == Pass2(SelectSeq(source, IsInstruction), p)
        ok == p.ok /\ Die \notin Range(words)
    IN  [ok |-> ok, words |-> IF ok THEN words ELSE <<>>, origin |-> p.origin, target |-> p.target,
         wrap |-> p.wrap, count |-> p.count, opt |-> p.opt, labels |-> p.exported]
=============================================================================
