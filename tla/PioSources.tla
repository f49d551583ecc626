------------------------------ MODULE PioSources ------------------------------
(***************************************************************************)
(* Sources for the PIO assembler and what its language makes of them, said *)
(* of the whole source at once: no passes, no symbol table, no encodings.  *)
(***************************************************************************)
EXTENDS PioAssembler, FiniteSets

-----------------------------------------------------------------------------
\* Lines
Nothing == [op |-> ""]
Num(v) == E("", v)
Mark(name, stmt) == [label |-> <<name>>, public |-> TRUE, stmt |-> stmt]
Plain(stmt) == [label |-> <<>>, public |-> FALSE, stmt |-> stmt]
Ins(body, side, delay) == [op |-> body.op, body |-> body, side |-> side, delay |-> delay]
SideSet(count, opt) == Plain([op |-> ".side_set", arg |-> Num(count), opt |-> opt])

\* Every instruction with operands inside and outside of their ranges
Bodies ==
    {[op |-> "nop"]}
    \cup [op : {"jmp"}, cond : DOMAIN Conditions, arg : {Num(v) : v \in {-1, 0, 9, 31, 32}}]
    \cup [op : {"wait"}, pol : {0, 1, 2}, src : {"gpio", "pin", "irq", "x"}, rel : BOOLEAN,
          arg : {Num(v) : v \in {-1, 0, 7, 15, 16, 31, 32}}]
    \cup [op : {"in"}, src : DOMAIN InCodes \cup {"pc"}, arg : {Num(v) : v \in {0, 1, 8, 31, 32, 33}}]
    \cup [op : {"out"}, dst : DOMAIN OutCodes \cup {"osr"}, arg : {Num(v) : v \in {0, 1, 8, 31, 32, 33}}]
    \cup [op : {"push", "pull"},
          options : {<<>>, <<"block">>, <<"noblock">>, <<"iffull">>, <<"ifempty">>, <<"noblock", "block">>,
                     <<"iffull", "noblock">>, <<"block", "ifempty", "noblock">>}]
    \cup [op : {"mov"}, dst : DOMAIN MovDestCodes \cup {"null"}, src : DOMAIN MovSourceCodes \cup {"pc"},
          mod : {"", "!", "~", "::", "-"}]
    \cup [op : {"irq"}, mode : {"", "set", "nowait", "wait", "clear"}, rel : BOOLEAN,
          arg : {Num(v) : v \in {-1, 0, 7, 15, 16, 31, 32}}]
    \cup [op : {"set"}, dst : DOMAIN SetCodes \cup {"null"}, arg : {Num(v) : v \in {-1, 0, 21, 31, 32}}]

OneInstruction ==
    {<<Plain(Ins(body, <<>>, Num(0)))>> : body \in Bodies}
    \cup {<<SideSet(2, FALSE), Plain(Ins(body, <<Num(3)>>, Num(7)))>> : body \in Bodies}
    \cup {<<Plain([op |-> d]), Plain(Ins([op |-> "nop"], <<>>, Num(1)))>> : d \in Ignored \cup {".other"}}

\* Every way to share the field between side-set and delay
Shared ==
    {<<SideSet(c, opt), Plain(Ins([op |-> "set", dst |-> "y", arg |-> Num(31)], side, Num(delay)))>> :
        c \in 0..6, opt \in BOOLEAN, delay \in -1..32,
        side \in {<<>>} \cup {<<Num(v)>> : v \in {-1, 0, 1, 2, 3, 4, 7, 8, 15, 16, 31, 32}}}

JumpTo(name, plus, side) == Ins([op |-> "jmp", cond |-> "x--", arg |-> E(name, plus)], side, Num(1))

\* Lines that depend on each other, in any order
Forms ==
    {Mark("a", Nothing), Mark("b", Ins([op |-> "nop"], <<>>, Num(0))), Mark("b", [op |-> ".wrap_target"]),
     Plain(JumpTo("a", 0, <<>>)), Plain(JumpTo("b", 1, <<E("a", 0)>>)),
     Plain(Ins([op |-> "set", dst |-> "x", arg |-> E("b", 0)], <<Num(1)>>, E("a", 0))),
     Plain([op |-> ".define", name |-> "a", arg |-> Num(2)]), Plain([op |-> ".define", name |-> "b", arg |-> Num(0)]),
     Plain([op |-> ".wrap_target"]), Plain([op |-> ".wrap"]),
     SideSet(1, FALSE), SideSet(2, TRUE),
     Plain([op |-> ".program"]), Plain([op |-> ".origin", arg |-> E("a", 1)])}

Programs == UNION {[1..n -> Forms] : n \in 1..4}

-----------------------------------------------------------------------------
\* What a source says
Is(source, k, op) == source[k].stmt.op = op
All(source, op) == {k \in DOMAIN source : Is(source, k, op)}
CodeAbove(source, k) == Cardinality({j \in 1..(k - 1) : IsInstruction(source[j])})
Marks(source, name) == {k \in DOMAIN source : source[k].label = <<name>>}
Defines(source, name) == {k \in All(source, ".define") : source[k].stmt.name = name}

\* A name stands for its last .define, or for the instruction that its label precedes.
Known(source, e) == e.name = "" \/ Defines(source, e.name) \cup Marks(source, e.name) # {}

Meant(source, e) ==
    e.plus + (IF e.name = "" THEN 0
              ELSE IF Defines(source, e.name) # {}
                   THEN source[Max(Defines(source, e.name))].stmt.arg.plus
                   ELSE CodeAbove(source, Max(Marks(source, e.name))))

\* The side-set of a program: the last count, and optional once it has been said
Optional(source, k) == \E j \in All(source, ".side_set") : j <= k /\ source[j].stmt.opt
Layout(source) ==
    [count |-> IF All(source, ".side_set") = {} THEN 0 ELSE source[Max(All(source, ".side_set"))].stmt.arg.plus,
     opt |-> Optional(source, Len(source))]

OperandFits(i, v) ==
    CASE i.op = "nop" -> TRUE
      [] i.op = "jmp" -> v \in 0..31
      [] i.op = "wait" -> /\ i.pol \in 0..1 /\ v \in 0..31
                          /\ i.src \in (IF i.rel THEN {"irq"} ELSE {"gpio", "pin", "irq"})
      [] i.op = "in" -> v \in 1..32 /\ i.src # "pc"
      [] i.op = "out" -> v \in 1..32 /\ i.dst # "osr"
      [] i.op = "push" -> ~Contains(i.options, "ifempty")
      [] i.op = "pull" -> ~Contains(i.options, "iffull")
      [] i.op = "mov" -> i.dst # "null" /\ i.src # "pc" /\ i.mod # "-"
      [] i.op = "irq" -> v \in 0..31
      [] i.op = "set" -> v \in 0..31 /\ i.dst # "null"

\* Side and delay in the five bits they share, side given unless it is optional
FieldFits(side, delay, cfg) ==
    /\ delay \in 0..31 /\ (delay + 1) * 2^SideBits(cfg) <= 32
    /\ IF side = <<>> THEN cfg.count = 0 \/ cfg.opt ELSE SideBits(cfg) > 0 /\ side[1] \in 0..(2^cfg.count - 1)

Operand(s) == IF "arg" \in DOMAIN s.body THEN s.body.arg ELSE Num(0)
SideMeant(source, s) == [j \in DOMAIN s.side |-> Meant(source, s.side[j])]

StatementFits(source, s) ==
    /\ \A e \in {Operand(s), s.delay} \cup Range(s.side) : Known(source, e)
    /\ OperandFits(s.body, Meant(source, Operand(s)))
    /\ FieldFits(SideMeant(source, s), Meant(source, s.delay), Layout(source))

\* What a source must keep to be assembled.  The value of an .origin is one that is known
\* above it.
Legal(source) ==
    /\ CodeAbove(source, Len(source) + 1) > 0
    /\ \A name \in {"a", "b"}, k \in DOMAIN source : k \in Marks(source, name) =>
        \A j \in Marks(source, name) \cup Defines(source, name) : j >= k
    /\ \A k \in All(source, ".wrap") : CodeAbove(source, k) > 0
    /\ \A k \in All(source, ".origin") : Known(SubSeq(source, 1, k), source[k].stmt.arg)
    /\ Cardinality(All(source, ".program")) <= 1 /\ All(source, ".other") = {}
    /\ \A k \in All(source, ".side_set") : source[k].stmt.arg.plus + (IF Optional(source, k) THEN 1 ELSE 0) <= 5
    /\ \A k \in DOMAIN source : IsInstruction(source[k]) => StatementFits(source, source[k].stmt)

\* An instruction as the disassembler writes it, v its operand
Written(i, v) ==
    CASE i.op = "nop" -> [op |-> "mov", dst |-> "y", mod |-> "", src |-> "y"]
      [] i.op \in {"jmp", "in", "out", "set"} -> [i EXCEPT !.arg = v]
      [] i.op = "wait" -> [i EXCEPT !.arg = v % 16, !.rel = i.src = "irq" /\ (@ \/ v >= 16)]
      [] i.op \in {"push", "pull"} ->
            [op |-> i.op, cond |-> \E k \in DOMAIN i.options : i.options[k] \in {"iffull", "ifempty"},
             block |-> \A k \in DOMAIN i.options :
                            i.options[k] = "noblock" => \E j \in DOMAIN i.options : j > k /\ i.options[j] = "block"]
      [] i.op = "mov" -> [i EXCEPT !.mod = IF @ = "!" THEN "~" ELSE @]
      [] i.op = "irq" ->
            [op |-> "irq", mode |-> IF i.mode \in {"", "nowait"} THEN "set" ELSE i.mode,
             arg |-> v % 16, rel |-> i.rel \/ v >= 16]

\* The word of a statement, read by the disassembler and by a state machine.  The
\* disassembler leaves the highest bit of a pin's number out.
ReadsAs(source, s, w, cfg) ==
    LET v == Meant(source, Operand(s))
        side == SideMeant(source, s)
        delay == Meant(source, s.delay)
    IN  /\ Disassemble(w, cfg) = [body |-> Written(s.body, v), side |-> side, delay |-> delay]
        /\ DelayOf(w, cfg) = delay
        /\ SideOf(w, cfg) = IF cfg.count = 0 THEN <<>> ELSE side
        /\ s.op = "wait" /\ s.body.src # "irq" => Bits(w, 0, 5) = v

\* a is what the assembler has made of the source.
AsWritten(source, a) ==
    /\ a.ok = Legal(source)
    /\ a.ok =>
        /\ Len(a.words) = CodeAbove(source, Len(source) + 1)
        /\ [count |-> a.count, opt |-> a.opt] = Layout(source)
        /\ \A k \in DOMAIN source : IsInstruction(source[k]) =>
            ReadsAs(source, source[k].stmt, a.words[CodeAbove(source, k) + 1], Layout(source))
        /\ a.origin = (IF All(source, ".origin") = {} THEN <<>> ELSE
                         LET k == Max(All(source, ".origin"))
                         IN  <<Meant(SubSeq(source, 1, k), source[k].stmt.arg)>>)
        /\ a.target = IF All(source, ".wrap_target") = {} THEN 0 ELSE CodeAbove(source, Max(All(source, ".wrap_target")))
        /\ a.wrap[1] + 1 = CodeAbove(source, IF All(source, ".wrap") = {} THEN Len(source) + 1 ELSE Max(All(source, ".wrap")))
        /\ \A name \in {"a", "b"}, k \in DOMAIN source :
            k \in Marks(source, name) => a.labels[name] = CodeAbove(source, k)
=============================================================================
