----------------------------- MODULE PioProofs -----------------------------
(***************************************************************************)
(* What holds of Pio for every number of state machines, every program and *)
(* every divider: machines that were started together stay together, and   *)
(* TXSTALL means that the TX FIFO is empty, whatever is executed out of    *)
(* band, so that the wait for it is a sound way to wait for a drain.       *)
(*                                                                         *)
(* And what holds of a block that firmware has set up as PioWork says: a   *)
(* ring ends only after it was answered, and a machine that copies words   *)
(* delivers each of them once and in order, whatever else the processor    *)
(* does with the block, for every width of a word and depth of a FIFO.     *)
(***************************************************************************)
EXTENDS PioWork, Numbers, SequenceTheorems, TLAPS

-----------------------------------------------------------------------------
(* Only CTRL and resets enable or disable a machine *)

\* n is m with other fields changed.
Same(n, m) == "enabled" \in DOMAIN n /\ n.enabled = m.enabled

LEMMA SameTrans ==
    ASSUME NEW m, NEW n, NEW o, Same(o, n), Same(n, m)
    PROVE  Same(o, m)
BY DEF Same

LEMMA StepsAreSame ==
    ASSUME NEW m, "enabled" \in DOMAIN m
    PROVE  /\ Same(m, m) /\ Same(Advanced(m), m) /\ Same(Pulled(m), m)
           /\ Same(Emptied(m), m) /\ Same(Pushed(m), m) /\ Same(Refilled(m), m)
           /\ Same(AutoPushed(m), m)
           /\ \A a : Same([m EXCEPT !.pc = a], m)
           /\ \A s : Same([m EXCEPT !.stall = s], m)
           /\ \A n : Same(ShiftedOut(m, n), m)
           /\ \A in, level : Same(ShiftedIn(m, in, level), m)
           /\ \A dst, v, bits : Same(SetReg(m, dst, v, bits), m)
<1>1. Same(m, m) /\ Same(Advanced(m), m) /\ Same(Pulled(m), m) /\ Same(Emptied(m), m)
  BY DEF Same, Advanced, Pulled, Emptied
<1>2. Same(Pushed(m), m)
  BY DEF Same, Pushed, Emptied
<1>3. Same(Refilled(m), m)
  BY <1>1 DEF Refilled
<1>4. (\A a : Same([m EXCEPT !.pc = a], m)) /\ (\A s : Same([m EXCEPT !.stall = s], m))
  BY DEF Same
<1>5. Same(AutoPushed(m), m)
  BY <1>1, <1>2, <1>4 DEF AutoPushed
<1>6. \A n : Same(ShiftedOut(m, n), m)
  BY <1>3 DEF Same, ShiftedOut
<1>7. \A in, level : Same(ShiftedIn(m, in, level), m)
  BY DEF Same, ShiftedIn
<1>8. \A dst, v, bits : Same(SetReg(m, dst, v, bits), m)
  BY DEF Same, SetReg
<1>9. QED
  BY <1>1, <1>2, <1>3, <1>4, <1>5, <1>6, <1>7, <1>8

LEMMA ResultsAreSame ==
    ASSUME NEW m, "enabled" \in DOMAIN m, NEW n, Same(n, m), NEW f
    PROVE  /\ Same(Retired(n, f).m, m) /\ Same(Stuck(n, f).m, m)
           /\ \A a : Same(Jumped(n, f, a).m, m)
<1>1. "enabled" \in DOMAIN n
  BY DEF Same
<1>2. Same(Advanced(n), m)
  BY <1>1, StepsAreSame, SameTrans
<1>3. \A a : Same([n EXCEPT !.pc = a % Size], m)
  BY <1>1, StepsAreSame, SameTrans
<1>4. QED
  BY <1>2, <1>3 DEF Retired, Stuck, Jumped, Result

\* No instruction changes whether the machine is enabled.
LEMMA PlainIsSame ==
    ASSUME NEW m, "enabled" \in DOMAIN m, NEW f, NEW i, NEW in, NEW level
    PROVE  Same(Plain(m, f, i, in, level).m, m)
<1>. USE StepsAreSame, ResultsAreSame
<1>1. Same(Jmp(m, f, in, level).m, m)
  <2>. DEFINE n == [m EXCEPT !.x = IF in.cond = "x--" THEN (@ - 1) % PowerOfTwo[Width] ELSE @,
                             !.y = IF in.cond = "y--" THEN (@ - 1) % PowerOfTwo[Width] ELSE @]
  <2>1. Same(n, m)
    BY DEF Same
  <2>2. Same(Jumped(n, f, in.to).m, m) /\ Same(Retired(n, f).m, m)
    <3>. HIDE DEF n
    <3>. QED  BY <2>1
  <2>3. QED
    BY <2>2 DEF Jmp
<1>2. \A dst, v, bits : Same(Retired(SetReg(m, dst, v, bits), f).m, m)
  OBVIOUS
<1>3. Same(In(m, f, in, level).m, m)
  <2>. DEFINE s == ShiftedIn(m, in, level)
  <2>1. Same(s, m) /\ "enabled" \in DOMAIN s
    BY DEF Same
  <2>2. Same(AutoPushed(s), m)
    BY <2>1, SameTrans
  <2>3. QED
    BY <2>2 DEF In
<1>4. Same(Push(m, f, in).m, m)
  BY DEF Push
<1>5. Same(Pull(m, f, in).m, m)
  <2>1. Same([m EXCEPT !.osr = m.x, !.out = 0], m)
    BY DEF Same
  <2>2. QED
    BY <2>1 DEF Pull
<1>6. Same(Wait(m, f, i, in, level).m, m)
  BY DEF Wait
<1>7. Same(Irq(m, f, i, in).m, m)
  <2>. DEFINE r == [m EXCEPT !.raised = IF @ THEN @ ELSE in.wait]
  <2>1. Same(r, m) /\ Same([r EXCEPT !.raised = FALSE], m)
    BY DEF Same
  <2>. HIDE DEF r
  <2>2. \A g : Same(Stuck(r, g).m, m) /\ Same(Retired([r EXCEPT !.raised = FALSE], g).m, m)
                /\ Same(Retired(m, g).m, m)
    BY <2>1
  <2>3. QED
    BY <2>2 DEF Irq, r
<1>8. \A v : Same(Jumped(m, f, v).m, m)
  OBVIOUS
<1>9. Same(Stuck([m EXCEPT !.stall = "autopull"], f).m, m)
  OBVIOUS
<1>10. \A n, v, dst, bits : /\ Same(Jumped(ShiftedOut(m, n), f, v).m, m)
                            /\ Same(Retired(SetReg(ShiftedOut(m, n), dst, v, bits), f).m, m)
  <2>. TAKE n, v, dst, bits
  <2>1. Same(ShiftedOut(m, n), m) /\ "enabled" \in DOMAIN ShiftedOut(m, n)
    BY DEF Same
  <2>2. Same(SetReg(ShiftedOut(m, n), dst, v, bits), m)
    BY <2>1, SameTrans
  <2>3. QED
    BY <2>1, <2>2
<1>11. Same(Retired(m, f).m, m)
  OBVIOUS
<1>12. QED
  BY <1>1, <1>2, <1>3, <1>4, <1>5, <1>6, <1>7, <1>8, <1>9, <1>10, <1>11 DEF Plain

LEMMA ExecIsSame ==
    ASSUME NEW m, "enabled" \in DOMAIN m, NEW f, NEW i, NEW in, NEW level
    PROVE  Same(Exec(m, f, i, in, level).m, m)
<1>1. ASSUME NEW n, Same(n, m), NEW v
      PROVE  Same(Inject(n, f, i, v, level).m, m)
  <2>. DEFINE c == [n EXCEPT !.cur = Decode[v]]
  <2>1. Same(c, m) /\ "enabled" \in DOMAIN c
    BY <1>1 DEF Same
  <2>2. Same(Plain(c, f, i, Decode[v], level).m, c)
    <3>. HIDE DEF c
    <3>. QED  BY <2>1, PlainIsSame
  <2>3. Same(Plain(c, f, i, Decode[v], level).m, m)
    BY <2>1, <2>2, SameTrans
  <2>4. QED
    BY <2>3 DEF Inject
<1>2. Same(Plain(m, f, i, in, level).m, m)
  BY PlainIsSame
<1>3. \A v : Same(Inject(m, f, i, v, level).m, m)
  BY <1>1, StepsAreSame
<1>4. \A v : Same(Inject(ShiftedOut(m, in.bits), f, i, v, level).m, m)
  BY <1>1, StepsAreSame
<1>5. Same(Stuck([m EXCEPT !.stall = "autopull"], f).m, m)
  BY StepsAreSame, ResultsAreSame
<1>6. QED
  BY <1>2, <1>3, <1>4, <1>5 DEF Exec

\* What a turn does to the machine whose turn it is
LEMMA FetchedIsSame ==
    ASSUME NEW m, "enabled" \in DOMAIN m
    PROVE  Same(Fetched(m), m)
<1>1. \A n, c : Same(n, m) => Same([n EXCEPT !.cur = c], m)
  BY DEF Same
<1>2. Same([Pulled(m) EXCEPT !.stall = "instr"], m)
  <2>1. Same(Pulled(m), m)
    BY StepsAreSame
  <2>2. QED
    BY <2>1 DEF Same
<1>3. Same([Refilled(m) EXCEPT !.cur = prog[m.pc]], m)
  BY <1>1, StepsAreSame
<1>4. Same(m, m)
  BY StepsAreSame
<1>5. QED
  BY <1>2, <1>3, <1>4 DEF Fetched

-----------------------------------------------------------------------------
(* Dividers that were restarted together stay in step.  InPhase looks at    *)
(* the accumulators between two cycles only.  In the middle of a cycle some *)
(* machines have had their turns and others have not: what is equal is the  *)
(* value an accumulator will have at the end of the cycle.                  *)

Advance(a, d) == IF a + Unit >= d THEN a + Unit - d ELSE a + Unit
AtEnd(i) == IF i < turn THEN acc[i] ELSE Advance(acc[i], div[i])

Shape ==
    /\ DOMAIN sm = Sms /\ \A i \in Sms : "enabled" \in DOMAIN sm[i]
    /\ acc \in [Sms -> Int] /\ div \in [Sms -> Int]
    /\ turn \in 0 .. NumSm
    /\ phased \subseteq Sms /\ ctrl \in ControlType

PhaseInv ==
    /\ Shape
    /\ \A i \in phased : sm[i].enabled
    /\ \A i, j \in phased : div[i] = div[j] => AtEnd(i) = AtEnd(j)

LEMMA PhaseImpliesInPhase == PhaseInv => InPhase
<1>1. SUFFICES ASSUME PhaseInv, turn = NumSm, NEW i \in phased, NEW j \in phased,
                      div[i] = div[j]
               PROVE  acc[i] = acc[j]
  BY DEF InPhase
<1>2. i < turn /\ j < turn
  BY <1>1, PioAssumption DEF PhaseInv, Shape, Sms
<1>3. QED
  BY <1>1, <1>2 DEF PhaseInv, AtEnd

\* A turn of machine k in which the divider is advanced as PioBlock::tick does
LEMMA TurnKeepsPhase ==
    ASSUME PhaseInv, NEW k \in Sms, turn = k, turn' = k + 1,
           UNCHANGED <<div, phased, ctrl>>,
           DOMAIN sm' = Sms, \A j \in Sms \ {k} : sm'[j] = sm[j], Same(sm'[k], sm[k]),
           acc' \in [Sms -> Int], \A j \in Sms \ {k} : acc'[j] = acc[j],
           sm[k].enabled => acc'[k] = Advance(acc[k], div[k])
    PROVE  PhaseInv'
<1>1. Shape'
  BY PioAssumption DEF PhaseInv, Shape, Same, Sms
<1>2. \A i \in phased' : sm'[i].enabled
  BY DEF PhaseInv, Shape, Same
<1>3. ASSUME NEW i \in phased
      PROVE  AtEnd(i)' = AtEnd(i)
  <2>1. CASE i = k
    <3>1. AtEnd(i) = Advance(acc[k], div[k])
      BY <2>1, PioAssumption DEF AtEnd, Sms
    <3>2. AtEnd(i)' = acc'[k]
      BY <2>1, PioAssumption DEF AtEnd, Sms
    <3>3. QED
      BY <2>1, <3>1, <3>2 DEF PhaseInv
  <2>2. CASE i # k
    <3>1. i \in Sms /\ acc'[i] = acc[i] /\ div'[i] = div[i]
      BY <2>2 DEF PhaseInv, Shape
    <3>2. (i < turn') <=> (i < turn)
      BY <2>2, <3>1, PioAssumption DEF Sms
    <3>3. QED
      BY <3>1, <3>2 DEF AtEnd, Advance
  <2>3. QED
    BY <2>1, <2>2
<1>4. \A i, j \in phased' : div'[i] = div'[j] => AtEnd(i)' = AtEnd(j)'
  BY <1>3 DEF PhaseInv
<1>5. QED
  BY <1>1, <1>2, <1>4 DEF PhaseInv

LEMMA EndTurnKeepsPhase ==
    ASSUME PhaseInv, NEW k \in Sms, Active(k), NEW m, Same(m, sm[k]), NEW stalled,
           EndTurn(k, m, stalled)
    PROVE  PhaseInv'
<1>1. turn = k /\ turn' = k + 1 /\ UNCHANGED <<div, phased, ctrl>>
  BY DEF Active, EndTurn, block
<1>2. DOMAIN sm' = Sms /\ (\A j \in Sms \ {k} : sm'[j] = sm[j]) /\ sm'[k] = m
  BY DEF EndTurn, PhaseInv, Shape
<1>3. /\ acc' \in [Sms -> Int] /\ \A j \in Sms \ {k} : acc'[j] = acc[j]
      /\ acc'[k] = acc[k] + Unit - div[k]
  BY PioAssumption DEF EndTurn, PhaseInv, Shape
<1>4. acc'[k] = Advance(acc[k], div[k])
  BY <1>3 DEF Active, Due, Advance
<1>5. QED
  BY <1>1, <1>2, <1>3, <1>4, TurnKeepsPhase

LEMMA TickKeepsPhase ==
    ASSUME PhaseInv, Tick
    PROVE  PhaseInv'
<1>1. PICK k \in Sms : Skip(k) \/ DelaySlot(k) \/ RetryPush(k) \/ AwaitWord(k) \/ Execute(k)
  BY DEF Tick
<1>2. "enabled" \in DOMAIN sm[k]
  BY DEF PhaseInv, Shape
<1>3. CASE Skip(k)
  <2>1. turn = k /\ turn' = k + 1 /\ UNCHANGED <<div, phased, ctrl, sm>>
    BY <1>3 DEF Skip, block
  <2>2. acc' \in [Sms -> Int] /\ \A j \in Sms \ {k} : acc'[j] = acc[j]
    BY <1>3, PioAssumption DEF Skip, PhaseInv, Shape
  <2>3. sm[k].enabled => acc'[k] = Advance(acc[k], div[k])
    BY <1>3 DEF Skip, Due, Advance, PhaseInv, Shape
  <2>4. Same(sm'[k], sm[k])
    BY <1>2, <2>1 DEF Same
  <2>5. QED
    BY <2>1, <2>2, <2>3, <2>4, TurnKeepsPhase DEF PhaseInv, Shape
<1>4. CASE DelaySlot(k)
  <2>1. Same([sm[k] EXCEPT !.delay = @ - 1], sm[k])
    BY <1>2 DEF Same
  <2>2. QED
    BY <1>4, <2>1, EndTurnKeepsPhase DEF DelaySlot
<1>5. CASE RetryPush(k)
  <2>. DEFINE n == Advanced(Pushed(sm[k]))
  <2>1. Same(n, sm[k])
    <3>1. Same(Pushed(sm[k]), sm[k])
      BY <1>2, StepsAreSame
    <3>2. QED
      BY <3>1, StepsAreSame, SameTrans DEF Same
  <2>2. Same([n EXCEPT !.stall = "none", !.delay = sm[k].cur.delay], sm[k])
    <3>. HIDE DEF n
    <3>. QED  BY <2>1 DEF Same
  <2>3. Same(sm[k], sm[k])
    BY <1>2, StepsAreSame
  <2>4. QED
    BY <1>5, <2>2, <2>3, EndTurnKeepsPhase DEF RetryPush
<1>6. CASE AwaitWord(k)
  BY <1>2, <1>6, StepsAreSame, EndTurnKeepsPhase DEF AwaitWord
<1>7. CASE Execute(k)
  <2>. DEFINE m == Fetched(sm[k])
              r(level) == Exec(m, irq, k, m.cur, level)
  <2>1. PICK level \in Levels :
           \/ EndTurn(k, [r(level).m EXCEPT !.stall = "none", !.delay = r(level).m.cur.delay], FALSE)
           \/ EndTurn(k, [r(level).m EXCEPT !.stall = IF @ = "none" THEN "instr" ELSE @], TRUE)
    BY <1>7, Zenon DEF Execute
  <2>2. Same(m, sm[k]) /\ "enabled" \in DOMAIN m
    BY <1>2, FetchedIsSame DEF Same
  <2>3. Same(r(level).m, sm[k])
    <3>. HIDE DEF m
    <3>. QED  BY <2>2, ExecIsSame, SameTrans
  <2>4. /\ Same([r(level).m EXCEPT !.stall = "none", !.delay = r(level).m.cur.delay], sm[k])
        /\ Same([r(level).m EXCEPT !.stall = IF @ = "none" THEN "instr" ELSE @], sm[k])
    <3>. HIDE DEF r
    <3>. QED  BY <2>3 DEF Same
  <2>5. Active(k)
    BY <1>7 DEF Execute
  <2>6. QED
    <3>. HIDE DEF r
    <3>. QED  BY <2>1, <2>4, <2>5, EndTurnKeepsPhase
<1>8. QED
  BY <1>1, <1>3, <1>4, <1>5, <1>6, <1>7

\* An access that leaves the dividers alone and stops no machine
LEMMA AccessKeepsPhase ==
    ASSUME PhaseInv, Access, UNCHANGED <<div, acc, phased, ctrl>>,
           DOMAIN sm' = Sms, \A i \in Sms : Same(sm'[i], sm[i])
    PROVE  PhaseInv'
<1>1. Shape'
  BY PioAssumption DEF PhaseInv, Shape, Same, Access
<1>2. \A i \in phased' : sm'[i].enabled
  BY DEF PhaseInv, Shape, Same
<1>3. ASSUME NEW i \in phased
      PROVE  AtEnd(i) = acc[i] /\ AtEnd(i)' = Advance(acc[i], div[i])
  <2>1. i \in Sms /\ turn = NumSm /\ turn' = 0
    BY DEF PhaseInv, Shape, Access
  <2>2. i < turn /\ ~(i < turn')
    BY <2>1, PioAssumption DEF Sms
  <2>3. QED
    BY <2>2 DEF AtEnd, Advance
<1>4. \A i, j \in phased' : div'[i] = div'[j] => AtEnd(i)' = AtEnd(j)'
  BY <1>3 DEF PhaseInv
<1>5. QED
  BY <1>1, <1>2, <1>4 DEF PhaseInv

LEMMA ControlIsTyped ==
    ASSUME ctrl \in ControlType, NEW alias, NEW value \in ControlType
    PROVE  ControlValue(alias, value) \in ControlType
<1>1. DOMAIN ctrl = {"enable", "restart", "clkdiv"}
  BY DEF ControlType
<1>2. ASSUME NEW k \in {"enable", "restart", "clkdiv"}
      PROVE  ControlValue(alias, value)[k] \in SUBSET Sms
  BY <1>1, <1>2 DEF ControlValue, ControlType
<1>3. QED
  BY <1>1, <1>2 DEF ControlValue, ControlType

LEMMA WriteCtrlKeepsPhase ==
    ASSUME PhaseInv, NEW alias, NEW value \in Controls, WriteCtrl(alias, value)
    PROVE  PhaseInv'
<1>. DEFINE v == ControlValue(alias, value)
<1>1. v \in ControlType
  BY PioAssumption, ControlIsTyped DEF PhaseInv, Shape
<1>2. /\ Access /\ ctrl' = v /\ div' = div /\ phased' = InStep(v)
      /\ sm' = [i \in Sms |->
                    LET m == [sm[i] EXCEPT !.enabled = i \in v.enable]
                    IN IF i \in v.restart THEN Restarted(m) ELSE m]
      /\ acc' = [i \in Sms |-> IF i \in v.clkdiv THEN 0 ELSE acc[i]]
  BY DEF WriteCtrl
<1>. HIDE DEF v
<1>3. phased' \subseteq v.enable
  BY <1>2 DEF InStep
<1>4. v.enable \subseteq Sms
  BY <1>1 DEF ControlType
<1>5. ASSUME NEW i \in Sms
      PROVE  "enabled" \in DOMAIN sm'[i] /\ (i \in v.enable => sm'[i].enabled)
  <2>. DEFINE m == [sm[i] EXCEPT !.enabled = i \in v.enable]
  <2>1. "enabled" \in DOMAIN m /\ m.enabled = (i \in v.enable)
    BY DEF PhaseInv, Shape
  <2>2. Same(Restarted(m), m)
    <3>. HIDE DEF m
    <3>. QED  BY <2>1 DEF Same, Restarted
  <2>3. sm'[i] = IF i \in v.restart THEN Restarted(m) ELSE m
    BY <1>2
  <2>4. QED
    <3>. HIDE DEF m
    <3>. QED  BY <2>1, <2>2, <2>3 DEF Same
<1>6. Shape'
  <2>1. DOMAIN sm' = Sms
    BY <1>2
  <2>2. acc' \in [Sms -> Int] /\ div' \in [Sms -> Int]
    BY <1>2 DEF PhaseInv, Shape
  <2>3. turn' \in 0 .. NumSm
    BY <1>2, PioAssumption DEF Access
  <2>4. QED
    BY <1>1, <1>2, <1>3, <1>4, <1>5, <2>1, <2>2, <2>3 DEF Shape
<1>7. \A i \in phased' : sm'[i].enabled
  BY <1>3, <1>4, <1>5
<1>8. ASSUME NEW i \in phased', NEW j \in phased', div'[i] = div'[j]
      PROVE  AtEnd(i)' = AtEnd(j)'
  <2>1. i \in Sms /\ j \in Sms
    BY <1>3, <1>4
  <2>2. acc'[i] = acc'[j]
    <3>1. CASE v.clkdiv # {}
      BY <1>2, <2>1, <3>1 DEF InStep
    <3>2. CASE v.clkdiv = {}
      <4>1. i \in phased /\ j \in phased /\ acc'[i] = acc[i] /\ acc'[j] = acc[j]
        BY <1>2, <2>1, <3>2 DEF InStep
      <4>2. acc[i] = acc[j]
        BY <1>2, <1>8, <4>1, PhaseImpliesInPhase DEF InPhase, Access
      <4>3. QED
        BY <4>1, <4>2
    <3>3. QED
      BY <3>1, <3>2
  <2>3. ~(i < turn') /\ ~(j < turn')
    BY <1>2, <2>1, PioAssumption DEF Access, Sms
  <2>4. AtEnd(i)' = Advance(acc'[i], div'[i]) /\ AtEnd(j)' = Advance(acc'[j], div'[j])
    BY <2>3 DEF AtEnd, Advance
  <2>5. QED
    BY <1>8, <2>2, <2>4 DEF Advance
<1>9. QED
  BY <1>6, <1>7, <1>8 DEF PhaseInv

LEMMA WriteClkdivKeepsPhase ==
    ASSUME PhaseInv, NEW k \in Sms, NEW d \in Dividers, WriteClkdiv(k, d)
    PROVE  PhaseInv'
<1>1. /\ turn = NumSm /\ turn' = 0 /\ sm' = sm /\ ctrl' = ctrl /\ phased' = phased \ {k}
      /\ div' = [div EXCEPT ![k] = d] /\ acc' = [acc EXCEPT ![k] = 0]
  BY DEF WriteClkdiv, Access
<1>2. Shape'
  BY <1>1, PioAssumption DEF PhaseInv, Shape
<1>3. \A i \in phased' : sm'[i].enabled
  BY <1>1 DEF PhaseInv
<1>4. ASSUME NEW i \in phased'
      PROVE  /\ i \in phased /\ div'[i] = div[i]
             /\ AtEnd(i) = acc[i] /\ AtEnd(i)' = Advance(acc[i], div[i])
  <2>1. i \in phased /\ i \in Sms /\ i # k
    BY <1>1 DEF PhaseInv, Shape
  <2>2. div'[i] = div[i] /\ acc'[i] = acc[i]
    BY <1>1, <2>1 DEF PhaseInv, Shape
  <2>3. i < turn /\ ~(i < turn')
    BY <1>1, <2>1, PioAssumption DEF Sms
  <2>4. QED
    BY <2>1, <2>2, <2>3 DEF AtEnd, Advance
<1>5. \A i, j \in phased' : div'[i] = div'[j] => AtEnd(i)' = AtEnd(j)'
  BY <1>4 DEF PhaseInv
<1>6. QED
  BY <1>2, <1>3, <1>5 DEF PhaseInv

LEMMA RegisterKeepsPhase ==
    ASSUME PhaseInv, RegisterAccess
    PROVE  PhaseInv'
<1>1. \A i \in Sms : "enabled" \in DOMAIN sm[i] /\ Same(sm[i], sm[i])
  BY StepsAreSame DEF PhaseInv, Shape
<1>2. DOMAIN sm = Sms
  BY DEF PhaseInv, Shape
<1>3. ASSUME NEW k \in Sms, NEW m, Same(m, sm[k]), sm' = [sm EXCEPT ![k] = m],
             Access, UNCHANGED block, UNCHANGED acc
      PROVE  PhaseInv'
  <2>1. DOMAIN sm' = Sms /\ \A i \in Sms : Same(sm'[i], sm[i])
    BY <1>1, <1>2, <1>3
  <2>2. QED
    BY <1>3, <2>1, AccessKeepsPhase DEF block
<1>4. ASSUME UNCHANGED sm, Access, UNCHANGED <<div, acc, phased, ctrl>>
      PROVE  PhaseInv'
  BY <1>1, <1>2, <1>4, AccessKeepsPhase
<1>5. ASSUME NEW i \in Sms, NEW w, WriteTxf(i, w)
      PROVE  PhaseInv'
  <2>1. Same([sm[i] EXCEPT !.tx = Append(@, w)], sm[i])
    BY <1>1 DEF Same
  <2>2. sm' = sm \/ sm' = [sm EXCEPT ![i] = [sm[i] EXCEPT !.tx = Append(@, w)]]
    BY <1>5 DEF WriteTxf
  <2>3. QED
    BY <1>3, <1>4, <1>5, <2>1, <2>2 DEF WriteTxf, block
<1>6. ASSUME NEW i \in Sms, ReadRxf(i)
      PROVE  PhaseInv'
  <2>1. Same([sm[i] EXCEPT !.rx = Tail(@)], sm[i])
    BY <1>1 DEF Same
  <2>2. sm' = sm \/ sm' = [sm EXCEPT ![i] = [sm[i] EXCEPT !.rx = Tail(@)]]
    BY <1>6 DEF ReadRxf
  <2>3. QED
    BY <1>3, <1>4, <1>6, <2>1, <2>2 DEF ReadRxf, block
<1>7. ASSUME NEW v, WriteFdebug(v)
      PROVE  PhaseInv'
  BY <1>4, <1>7 DEF WriteFdebug, block
<1>8. ASSUME NEW S, WriteIrq(S) \/ WriteIrqForce(S)
      PROVE  PhaseInv'
  BY <1>4, <1>8 DEF WriteIrq, WriteIrqForce, block
<1>9. ASSUME NEW i \in Sms, NEW w, WriteExecctrl(i, w)
      PROVE  PhaseInv'
  <2>1. Same([sm[i] EXCEPT !.wrap = w], sm[i])
    BY <1>1 DEF Same
  <2>2. QED
    BY <1>3, <1>9, <2>1 DEF WriteExecctrl
<1>10. ASSUME NEW i \in Sms, NEW s, NEW tx, NEW rx, WriteShiftctrl(i, s, tx, rx)
       PROVE  PhaseInv'
  <2>1. Same(Joined([sm[i] EXCEPT !.shift = s], tx, rx), sm[i])
    BY <1>1 DEF Same, Joined
  <2>2. QED
    BY <1>3, <1>10, <2>1 DEF WriteShiftctrl
<1>11. ASSUME NEW a, NEW in, WriteInstrMem(a, in)
       PROVE  PhaseInv'
  BY <1>4, <1>11 DEF WriteInstrMem
<1>12. ASSUME NEW i \in Sms, NEW in, NEW level, WriteInstr(i, in, level)
       PROVE  PhaseInv'
  <2>. DEFINE r == Exec(sm[i], irq, i, in, level)
              m == [r.m EXCEPT !.pc = IF in.op = "JMP" /\ r.ok THEN @ ELSE sm[i].pc,
                               !.stall = IF r.ok THEN @ ELSE "none"]
  <2>1. Same(r.m, sm[i])
    BY <1>1, ExecIsSame
  <2>2. Same(m, sm[i])
    <3>. HIDE DEF r
    <3>. QED  BY <2>1 DEF Same
  <2>3. sm' = [sm EXCEPT ![i] = m] /\ Access /\ UNCHANGED block /\ UNCHANGED acc
    BY <1>12 DEF WriteInstr
  <2>4. QED
    <3>. HIDE DEF m
    <3>. QED  BY <1>3, <2>2, <2>3
<1>13. QED
  BY <1>5, <1>6, <1>7, <1>8, <1>9, <1>10, <1>11, <1>12, WriteCtrlKeepsPhase,
     WriteClkdivKeepsPhase DEF RegisterAccess

\* Machines whose dividers are equal and were restarted by one write advance
\* in the same cycles (write_ctrl, set_clkdiv and PioBlock::tick), however many
\* machines there are, whatever they execute, and whatever else is written.
THEOREM InPhaseHolds == Spec => []InPhase
<1>1. Init => PhaseInv
  <2>1. ASSUME Init
        PROVE  PhaseInv
    <3>1. PICK s \in [Sms -> Shifts], w \in [Sms -> Wraps], x \in [Sms -> Word] :
             sm = [i \in Sms |-> Restarted([Fresh EXCEPT !.shift = s[i], !.wrap = w[i],
                                                          !.x = x[i]])]
      BY <2>1 DEF Init
    <3>2. ASSUME NEW i \in Sms
          PROVE  "enabled" \in DOMAIN sm[i]
      <4>. DEFINE m == [Fresh EXCEPT !.shift = s[i], !.wrap = w[i], !.x = x[i]]
      <4>1. "enabled" \in DOMAIN m
        BY DEF Fresh
      <4>2. sm[i] = Restarted(m)
        BY <3>1
      <4>3. QED
        <5>. HIDE DEF m
        <5>. QED  BY <4>1, <4>2 DEF Restarted
    <3>3. DOMAIN sm = Sms /\ \A i \in Sms : "enabled" \in DOMAIN sm[i]
      BY <3>1, <3>2
    <3>. DEFINE Started == /\ div \in [Sms -> Dividers] /\ acc = [i \in Sms |-> 0]
                           /\ turn = NumSm /\ phased = {}
    <3>4. Started
      BY <2>1, Zenon DEF Init
    <3>5. acc \in [Sms -> Int] /\ div \in [Sms -> Int] /\ turn \in 0 .. NumSm /\ phased = {}
      <4>1. NumSm \in Nat /\ \A d \in Dividers : d \in Int
        BY PioAssumption
      <4>2. div \in [Sms -> Int]
        <5>1. \A i \in Sms : div[i] \in Int
          BY <3>4, <4>1
        <5>2. QED
          BY <3>4, <5>1
      <4>3. QED
        BY <3>4, <4>1, <4>2
    <3>6. ctrl \in ControlType
      BY <2>1 DEF Init, NoControl, ControlType
    <3>7. QED
      BY <3>3, <3>4, <3>5, <3>6 DEF PhaseInv, Shape
  <2>2. QED
    BY <2>1
<1>2. PhaseInv /\ [Next]_vars => PhaseInv'
  <2>1. ASSUME PhaseInv, NoAccess
        PROVE  PhaseInv'
    BY <2>1, StepsAreSame, AccessKeepsPhase DEF NoAccess, block, PhaseInv, Shape
  <2>2. ASSUME PhaseInv, Reset
        PROVE  PhaseInv'
    <3>1. \A i \in Sms : "enabled" \in DOMAIN sm'[i]
      BY <2>2 DEF Reset, Fresh
    <3>2. /\ DOMAIN sm' = Sms /\ acc' \in [Sms -> Int] /\ div' \in [Sms -> Int]
          /\ turn' \in 0 .. NumSm /\ phased' = {} /\ ctrl' \in ControlType
      BY <2>2, PioAssumption DEF Reset, Access, NoControl, ControlType
    <3>3. QED
      BY <3>1, <3>2 DEF PhaseInv, Shape
  <2>3. ASSUME PhaseInv, UNCHANGED vars
        PROVE  PhaseInv'
    BY <2>3 DEF vars, PhaseInv, Shape, AtEnd, Advance
  <2>4. QED
    BY <2>1, <2>2, <2>3, TickKeepsPhase, RegisterKeepsPhase DEF Next
<1>3. PhaseInv => InPhase
  BY PhaseImpliesInPhase
<1>4. QED
  BY <1>1, <1>2, <1>3, PTL DEF Spec

-----------------------------------------------------------------------------
(* A machine fills its TX FIFO at no instruction *)

Fields(m) == {"tx", "stall", "cur"} \subseteq DOMAIN m

\* n is m with other fields changed, or with words taken from its TX FIFO.
Keeps(n, m) == Fields(n) /\ n.cur = m.cur /\ (TxEmpty(m) => TxEmpty(n))

\* n is m with its stall unchanged as well.
Stays(n, m) == Keeps(n, m) /\ n.stall = m.stall

LEMMA StepsStay ==
    ASSUME NEW m, Fields(m)
    PROVE  /\ Stays(m, m) /\ Stays(Advanced(m), m) /\ Stays(Emptied(m), m)
           /\ Stays(Pushed(m), m) /\ Stays(Refilled(m), m)
           /\ ~TxEmpty(m) => Stays(Pulled(m), m)
           /\ \A a : Stays([m EXCEPT !.pc = a], m)
           /\ \A b : Stays([m EXCEPT !.raised = b], m)
           /\ \A n : Stays(ShiftedOut(m, n), m)
           /\ \A in, level : Stays(ShiftedIn(m, in, level), m)
           /\ \A dst, v, bits : Stays(SetReg(m, dst, v, bits), m)
<1>. USE DEF Stays, Keeps, Fields, TxEmpty
<1>1. Stays(m, m) /\ Stays(Advanced(m), m) /\ Stays(Emptied(m), m)
  BY DEF Advanced, Emptied
<1>2. Stays(Pushed(m), m)
  BY DEF Pushed, Emptied
<1>3. ~TxEmpty(m) => Stays(Pulled(m), m)
  BY DEF Pulled
<1>4. Stays(Refilled(m), m)
  BY <1>1, <1>3 DEF Refilled
<1>5. (\A a : Stays([m EXCEPT !.pc = a], m)) /\ (\A b : Stays([m EXCEPT !.raised = b], m))
  OBVIOUS
<1>6. \A n : Stays(ShiftedOut(m, n), m)
  BY <1>4 DEF ShiftedOut
<1>7. \A in, level : Stays(ShiftedIn(m, in, level), m)
  BY DEF ShiftedIn
<1>8. \A dst, v, bits : Stays(SetReg(m, dst, v, bits), m)
  BY DEF SetReg
<1>9. QED
  BY <1>1, <1>2, <1>3, <1>4, <1>5, <1>6, <1>7, <1>8

LEMMA StaysTrans ==
    ASSUME NEW m, NEW n, NEW o, Stays(o, n), Stays(n, m)
    PROVE  Stays(o, m)
BY DEF Stays, Keeps

\* What an instruction does to m, when it does not wait for the TX FIFO
Undemanding(r, m) ==
    Keeps(r.m, m) /\ (r.ok \in BOOLEAN) /\ (~r.ok => r.m.stall \in {m.stall, "autopush"})

LEMMA ResultsAreUndemanding ==
    ASSUME NEW m, Fields(m), NEW n, Stays(n, m), NEW f
    PROVE  /\ Undemanding(Retired(n, f), m) /\ Undemanding(Stuck(n, f), m)
           /\ \A a : Undemanding(Jumped(n, f, a), m)
           /\ Retired(n, f).ok /\ \A a : Jumped(n, f, a).ok
<1>1. Fields(n)
  BY DEF Stays, Keeps
<1>2. Stays(Advanced(n), m)
  BY <1>1, StepsStay, StaysTrans
<1>3. \A a : Stays([n EXCEPT !.pc = a % Size], m)
  BY <1>1, StepsStay, StaysTrans
<1>4. QED
  BY <1>2, <1>3 DEF Retired, Stuck, Jumped, Result, Undemanding, Stays

\* What an instruction does to m: it takes words from the TX FIFO only, and if
\* it waits for one, by a PULL or an autopull, then the FIFO is empty.
Effect(r, m, in) ==
    /\ Keeps(r.m, m)
    /\ ~r.ok /\ m.stall # "autopull" /\ (in.op = "PULL" \/ r.m.stall = "autopull")
           => TxEmpty(r.m)

LEMMA PlainEffect ==
    ASSUME NEW m, Fields(m), NEW f, NEW i, NEW in, NEW level
    PROVE  Effect(Plain(m, f, i, in, level), m, in)
<1>. USE StepsStay, ResultsAreUndemanding
<1>1. Undemanding(Jmp(m, f, in, level), m)
  <2>. DEFINE n == [m EXCEPT !.x = IF in.cond = "x--" THEN (@ - 1) % PowerOfTwo[Width] ELSE @,
                             !.y = IF in.cond = "y--" THEN (@ - 1) % PowerOfTwo[Width] ELSE @]
  <2>1. Stays(n, m)
    BY DEF Stays, Keeps, Fields, TxEmpty
  <2>2. Undemanding(Jumped(n, f, in.to), m) /\ Undemanding(Retired(n, f), m)
    <3>. HIDE DEF n
    <3>. QED  BY <2>1
  <2>3. QED
    BY <2>2 DEF Jmp
<1>2. \A dst, v, bits : Undemanding(Retired(SetReg(m, dst, v, bits), f), m)
  OBVIOUS
<1>3. Undemanding(In(m, f, in, level), m)
  <2>. DEFINE s == ShiftedIn(m, in, level)
  <2>1. Stays(s, m) /\ Fields(s)
    BY DEF Stays, Keeps
  <2>. HIDE DEF s
  <2>2. Stays(Pushed(s), m)
    BY <2>1, StaysTrans
  <2>3. Undemanding(Retired(s, f), m) /\ Undemanding(Retired(Pushed(s), f), m)
    BY <2>1, <2>2
  <2>. DEFINE h == [s EXCEPT !.stall = "autopush"]
  <2>4. Keeps(h, m) /\ h.stall = "autopush"
    BY <2>1 DEF Stays, Keeps, Fields, TxEmpty
  <2>. HIDE DEF h
  <2>5. Undemanding(Stuck(h, f), m)
    BY <2>4 DEF Undemanding, Stuck, Result
  <2>6. Stuck(s, f).m = s /\ Undemanding(Stuck(s, f), m) /\ Undemanding(Stuck(Pushed(s), f), m)
    BY <2>1, <2>2 DEF Stuck, Result
  <2>7. AutoPushed(s) \in {s, Pushed(s), h}
    BY DEF AutoPushed, h
  <2>8. In(m, f, in, level) = IF AutoPushed(s).stall = "autopush" THEN Stuck(AutoPushed(s), f)
                              ELSE Retired(AutoPushed(s), f)
    BY DEF In, s
  <2>9. QED
    BY <2>3, <2>4, <2>5, <2>6, <2>7, <2>8
<1>4. Undemanding(Push(m, f, in), m)
  BY DEF Push
<1>5. Effect(Pull(m, f, in), m, in)
  <2>1. Stays([m EXCEPT !.osr = m.x, !.out = 0], m)
    BY DEF Stays, Keeps, Fields, TxEmpty
  <2>2. CASE TxEmpty(m)
    BY <2>1, <2>2 DEF Pull, Effect, Undemanding, Keeps, Stuck, Result
  <2>3. CASE ~TxEmpty(m)
    BY <2>3 DEF Pull, Effect, Undemanding
  <2>4. QED
    BY <2>2, <2>3
<1>6. Undemanding(Wait(m, f, i, in, level), m)
  BY DEF Wait
<1>7. Undemanding(Irq(m, f, i, in), m)
  <2>. DEFINE r == [m EXCEPT !.raised = IF @ THEN @ ELSE in.wait]
  <2>1. Stays(r, m) /\ Stays([r EXCEPT !.raised = FALSE], m)
    BY DEF Stays, Keeps, Fields, TxEmpty
  <2>. HIDE DEF r
  <2>2. \A g : /\ Undemanding(Stuck(r, g), m) /\ Undemanding(Retired(m, g), m)
               /\ Undemanding(Retired([r EXCEPT !.raised = FALSE], g), m)
    BY <2>1
  <2>3. QED
    BY <2>2 DEF Irq, r
<1>8. \A v : Undemanding(Jumped(m, f, v), m)
  OBVIOUS
<1>9. Starved(m) => Effect(Stuck([m EXCEPT !.stall = "autopull"], f), m, in)
  BY DEF Effect, Keeps, Fields, Stuck, Result, Starved, TxEmpty
<1>10. \A n, v, dst, bits : /\ Undemanding(Jumped(ShiftedOut(m, n), f, v), m)
                            /\ Undemanding(Retired(SetReg(ShiftedOut(m, n), dst, v, bits), f), m)
  <2>. TAKE n, v, dst, bits
  <2>1. Stays(ShiftedOut(m, n), m) /\ Fields(ShiftedOut(m, n))
    BY DEF Stays, Keeps
  <2>2. Stays(SetReg(ShiftedOut(m, n), dst, v, bits), m)
    BY <2>1, StaysTrans
  <2>3. QED
    BY <2>1, <2>2
<1>11. Undemanding(Retired(m, f), m)
  OBVIOUS
<1>12. ASSUME NEW r, Undemanding(r, m), in.op # "PULL"
       PROVE  Effect(r, m, in)
  BY <1>12 DEF Undemanding, Effect
<1>13. CASE in.op = "PULL"
  BY <1>5, <1>13 DEF Plain
<1>14. CASE in.op = "OUT"
  BY <1>9, <1>10, <1>12, <1>14 DEF Plain
<1>15. CASE in.op \notin {"PULL", "OUT"}
  BY <1>1, <1>2, <1>3, <1>4, <1>6, <1>7, <1>8, <1>11, <1>12, <1>15 DEF Plain
<1>16. QED
  BY <1>13, <1>14, <1>15

\* OUT EXEC and MOV EXEC put the injected instruction into cur: what waits for
\* a word is then the instruction in cur, as if it had been fetched.
WaitsWhenEmpty(r) == r.m.cur.op = "PULL" \/ r.m.stall = "autopull" => TxEmpty(r.m)

LEMMA InjectEffect ==
    ASSUME NEW m, Fields(m), NEW n, Stays(n, m), NEW f, NEW i, NEW v, NEW level
    PROVE  LET r == Inject(n, f, i, v, level)
           IN /\ Fields(r.m) /\ (TxEmpty(m) => TxEmpty(r.m))
              /\ ~r.ok /\ m.stall # "autopull" => WaitsWhenEmpty(r)
<1>. DEFINE c == [n EXCEPT !.cur = Decode[v]]
            r == Plain(c, f, i, Decode[v], level)
<1>1. Fields(c) /\ c.stall = m.stall /\ c.cur = Decode[v] /\ (TxEmpty(m) => TxEmpty(c))
  BY DEF Stays, Keeps, Fields, TxEmpty
<1>. HIDE DEF c
<1>2. Effect(r, c, Decode[v])
  BY <1>1, PlainEffect
<1>3. Inject(n, f, i, v, level) = r
  BY DEF Inject, c
<1>. HIDE DEF r
<1>4. QED
  BY <1>1, <1>2, <1>3 DEF Effect, Keeps, WaitsWhenEmpty

LEMMA ExecEffect ==
    ASSUME NEW m, Fields(m), NEW f, NEW i, NEW in, NEW level
    PROVE  LET r == Exec(m, f, i, in, level)
           IN /\ Fields(r.m) /\ (TxEmpty(m) => TxEmpty(r.m))
              /\ ~r.ok /\ m.stall # "autopull" /\ m.cur = in => WaitsWhenEmpty(r)
<1>1. CASE ~Injects(in)
  <2>. DEFINE r == Plain(m, f, i, in, level)
  <2>1. Effect(r, m, in)
    BY PlainEffect
  <2>2. Exec(m, f, i, in, level) = r
    BY <1>1 DEF Exec
  <2>. HIDE DEF r
  <2>3. QED
    BY <2>1, <2>2 DEF Effect, Keeps, WaitsWhenEmpty
<1>2. CASE Injects(in) /\ in.op = "MOV"
  <2>1. Stays(m, m)
    BY StepsStay
  <2>2. Exec(m, f, i, in, level) = Inject(m, f, i, Moved(m, in, level), level)
    BY <1>2 DEF Exec
  <2>3. QED
    BY <2>1, <2>2, InjectEffect
<1>3. CASE Injects(in) /\ in.op # "MOV" /\ Starved(m)
  <2>. DEFINE n == [m EXCEPT !.stall = "autopull"]
  <2>1. Fields(n) /\ TxEmpty(n)
    BY <1>3 DEF Fields, Starved, TxEmpty
  <2>2. Exec(m, f, i, in, level).m = n
    BY <1>3 DEF Exec, Stuck, Result
  <2>3. QED
    BY <2>1, <2>2 DEF WaitsWhenEmpty
<1>4. CASE Injects(in) /\ in.op # "MOV" /\ ~Starved(m)
  <2>1. Stays(ShiftedOut(m, in.bits), m)
    BY StepsStay
  <2>2. Exec(m, f, i, in, level)
            = Inject(ShiftedOut(m, in.bits), f, i, OutValue(m, in.bits), level)
    BY <1>4 DEF Exec
  <2>3. QED
    BY <2>1, <2>2, InjectEffect
<1>5. QED
  BY <1>1, <1>2, <1>3, <1>4

LEMMA FetchedEffect ==
    ASSUME NEW m, Fields(m), ~(m.stall = "autopull" /\ TxEmpty(m))
    PROVE  LET n == Fetched(m)
           IN Fields(n) /\ n.stall # "autopull" /\ (TxEmpty(m) => TxEmpty(n))
<1>1. CASE m.stall = "autopull"
  <2>1. Fields(Pulled(m))
    BY <1>1, StepsStay DEF Stays, Keeps
  <2>2. Fetched(m) = [Pulled(m) EXCEPT !.stall = "instr"]
    BY <1>1 DEF Fetched
  <2>3. QED
    BY <1>1, <2>1, <2>2 DEF Fields
<1>2. CASE m.stall = "instr"
  BY <1>2 DEF Fetched
<1>3. CASE m.stall \notin {"autopull", "instr"}
  <2>. DEFINE n == Refilled(m)
  <2>1. Stays(n, m)
    BY StepsStay
  <2>2. Fetched(m) = [n EXCEPT !.cur = prog[m.pc]]
    BY <1>3 DEF Fetched
  <2>. HIDE DEF n
  <2>3. QED
    BY <1>3, <2>1, <2>2 DEF Stays, Keeps, Fields, TxEmpty
<1>4. QED
  BY <1>1, <1>2, <1>3

-----------------------------------------------------------------------------
(* The invariant is StallMeansDrained itself; what is asked for and noted   *)
(* together was noted after the last word was written.                      *)

StallInv ==
    /\ DOMAIN sm = Sms /\ \A i \in Sms : Fields(sm[i])
    /\ "txstall" \in DOMAIN fdebug /\ asked \subseteq Sms
    /\ StallMeansDrained

\* A turn in which TXSTALL is noted only when the TX FIFO is empty
LEMMA EndTurnKeepsStall ==
    ASSUME StallInv, NEW k \in Sms, NEW m, NEW stalled, EndTurn(k, m, stalled),
           Fields(m), TxEmpty(sm[k]) => TxEmpty(m), stalled /\ WaitsForTx(m) => TxEmpty(m)
    PROVE  StallInv'
<1>1. DOMAIN sm' = Sms /\ sm'[k] = m /\ \A i \in Sms \ {k} : sm'[i] = sm[i]
  BY DEF EndTurn, StallInv
<1>2. asked' = asked /\ "txstall" \in DOMAIN fdebug'
  BY DEF EndTurn, StallInv
<1>3. fdebug'.txstall = IF stalled /\ WaitsForTx(m) THEN fdebug.txstall \cup {k}
                        ELSE fdebug.txstall
  BY DEF EndTurn, StallInv
<1>4. ASSUME NEW i \in asked' \cap fdebug'.txstall
      PROVE  TxEmpty(sm'[i])
  BY <1>1, <1>2, <1>3 DEF StallInv, StallMeansDrained
<1>5. QED
  BY <1>1, <1>2, <1>4 DEF StallInv, StallMeansDrained

\* An access that fills no TX FIFO and notes nothing
LEMMA AccessKeepsStall ==
    ASSUME StallInv, DOMAIN sm' = Sms,
           \A i \in Sms : Fields(sm'[i]) /\ (TxEmpty(sm[i]) => TxEmpty(sm'[i])),
           "txstall" \in DOMAIN fdebug', asked' \subseteq Sms,
           asked' \cap fdebug'.txstall \subseteq asked \cap fdebug.txstall
    PROVE  StallInv'
BY DEF StallInv, StallMeansDrained

LEMMA TickKeepsStall ==
    ASSUME StallInv, Tick
    PROVE  StallInv'
<1>1. PICK k \in Sms : Skip(k) \/ DelaySlot(k) \/ RetryPush(k) \/ AwaitWord(k) \/ Execute(k)
  BY DEF Tick
<1>2. Fields(sm[k])
  BY DEF StallInv
<1>3. CASE Skip(k)
  BY <1>3 DEF Skip, StallInv, StallMeansDrained
<1>4. CASE DelaySlot(k)
  <2>. DEFINE m == [sm[k] EXCEPT !.delay = @ - 1]
  <2>1. Fields(m) /\ (TxEmpty(sm[k]) => TxEmpty(m))
    BY <1>2 DEF Fields, TxEmpty
  <2>2. EndTurn(k, m, FALSE)
    BY <1>4 DEF DelaySlot
  <2>. HIDE DEF m
  <2>3. QED
    BY <2>1, <2>2, EndTurnKeepsStall
<1>5. CASE RetryPush(k)
  <2>. DEFINE n == Advanced(Pushed(sm[k]))
              m == [n EXCEPT !.stall = "none", !.delay = sm[k].cur.delay]
  <2>1. Stays(n, sm[k])
    <3>1. Stays(Pushed(sm[k]), sm[k])
      BY <1>2, StepsStay
    <3>2. Fields(Pushed(sm[k]))
      BY <3>1 DEF Stays, Keeps
    <3>3. QED
      BY <3>1, <3>2, StepsStay, StaysTrans
  <2>2. EndTurn(k, sm[k], TRUE) \/ EndTurn(k, m, FALSE)
    BY <1>5 DEF RetryPush
  <2>. HIDE DEF n
  <2>3. Fields(m) /\ (TxEmpty(sm[k]) => TxEmpty(m))
    BY <2>1 DEF Stays, Keeps, Fields, TxEmpty
  <2>4. ~WaitsForTx(sm[k])
    BY <1>5 DEF RetryPush, WaitsForTx
  <2>. HIDE DEF m
  <2>5. QED
    BY <1>2, <2>2, <2>3, <2>4, EndTurnKeepsStall
<1>6. CASE AwaitWord(k)
  BY <1>2, <1>6, EndTurnKeepsStall DEF AwaitWord
<1>7. CASE Execute(k)
  <2>. DEFINE m == Fetched(sm[k])
              r(level) == Exec(m, irq, k, m.cur, level)
              done(level) == [r(level).m EXCEPT !.stall = "none", !.delay = r(level).m.cur.delay]
              stuck(level) == [r(level).m EXCEPT !.stall = IF @ = "none" THEN "instr" ELSE @]
  <2>1. PICK level \in Levels :
           IF r(level).ok THEN EndTurn(k, done(level), FALSE) ELSE EndTurn(k, stuck(level), TRUE)
    BY <1>7, Zenon DEF Execute
  <2>2. Fields(m) /\ m.stall # "autopull" /\ (TxEmpty(sm[k]) => TxEmpty(m))
    BY <1>2, <1>7, FetchedEffect DEF Execute
  <2>. HIDE DEF m
  <2>3. /\ Fields(r(level).m) /\ (TxEmpty(sm[k]) => TxEmpty(r(level).m))
        /\ ~r(level).ok => WaitsWhenEmpty(r(level))
    BY <2>2, ExecEffect
  <2>. HIDE DEF r
  <2>4. Fields(done(level)) /\ (TxEmpty(sm[k]) => TxEmpty(done(level)))
    BY <2>3 DEF Fields, TxEmpty
  <2>5. /\ Fields(stuck(level)) /\ (TxEmpty(sm[k]) => TxEmpty(stuck(level)))
        /\ ~r(level).ok /\ WaitsForTx(stuck(level)) => TxEmpty(stuck(level))
    BY <2>3 DEF Fields, TxEmpty, WaitsForTx, WaitsWhenEmpty
  <2>. HIDE DEF done, stuck
  <2>6. QED
    BY <2>1, <2>4, <2>5, EndTurnKeepsStall
<1>8. QED
  BY <1>1, <1>3, <1>4, <1>5, <1>6, <1>7

\* The one access that fills a TX FIFO is no longer waited for afterwards.
LEMMA WriteTxfKeepsStall ==
    ASSUME StallInv, NEW k \in Sms, NEW w, WriteTxf(k, w)
    PROVE  StallInv'
<1>1. DOMAIN sm' = Sms /\ \A i \in Sms \ {k} : sm'[i] = sm[i]
  BY DEF WriteTxf, StallInv
<1>2. Fields(sm'[k])
  <2>. DEFINE m == [sm[k] EXCEPT !.tx = Append(@, w)]
  <2>1. sm'[k] = sm[k] \/ sm'[k] = m
    BY DEF WriteTxf, StallInv
  <2>2. QED
    BY <2>1 DEF StallInv, Fields
<1>3. fdebug'.txstall = fdebug.txstall /\ "txstall" \in DOMAIN fdebug'
  BY DEF WriteTxf, StallInv
<1>4. asked' = asked \ {k}
  BY DEF WriteTxf
<1>5. QED
  BY <1>1, <1>2, <1>3, <1>4 DEF StallInv, StallMeansDrained

LEMMA WriteCtrlKeepsStall ==
    ASSUME StallInv, NEW alias, NEW value, WriteCtrl(alias, value)
    PROVE  StallInv'
<1>. DEFINE v == ControlValue(alias, value)
            m(i) == [sm[i] EXCEPT !.enabled = i \in v.enable]
<1>1. DOMAIN sm' = Sms /\ \A i \in Sms : sm'[i] \in {m(i), Restarted(m(i))}
  BY DEF WriteCtrl
<1>2. ASSUME NEW i \in Sms
      PROVE  /\ Fields(m(i)) /\ (TxEmpty(sm[i]) => TxEmpty(m(i)))
             /\ Fields(Restarted(m(i))) /\ (TxEmpty(sm[i]) => TxEmpty(Restarted(m(i))))
  <2>1. Fields(m(i)) /\ (TxEmpty(sm[i]) => TxEmpty(m(i)))
    BY DEF StallInv, Fields, TxEmpty
  <2>. HIDE DEF m
  <2>2. QED
    BY <2>1 DEF Restarted, Fields, TxEmpty
<1>. HIDE DEF m
<1>3. \A i \in Sms : Fields(sm'[i]) /\ (TxEmpty(sm[i]) => TxEmpty(sm'[i]))
  BY <1>1, <1>2
<1>4. asked' = asked /\ fdebug' = fdebug
  BY DEF WriteCtrl
<1>5. QED
  BY <1>1, <1>3, <1>4, AccessKeepsStall DEF StallInv

LEMMA RegisterKeepsStall ==
    ASSUME StallInv, RegisterAccess
    PROVE  StallInv'
<1>1. DOMAIN sm = Sms /\ \A i \in Sms : Fields(sm[i])
  BY DEF StallInv
<1>2. ASSUME NEW k \in Sms, NEW m, Fields(m), TxEmpty(sm[k]) => TxEmpty(m),
             sm' = [sm EXCEPT ![k] = m], asked' = asked, fdebug'.txstall = fdebug.txstall,
             "txstall" \in DOMAIN fdebug'
      PROVE  StallInv'
  <2>1. /\ DOMAIN sm' = Sms
        /\ \A i \in Sms : Fields(sm'[i]) /\ (TxEmpty(sm[i]) => TxEmpty(sm'[i]))
    BY <1>1, <1>2
  <2>2. QED
    BY <1>2, <2>1, AccessKeepsStall DEF StallInv
<1>3. ASSUME UNCHANGED <<sm, asked, fdebug>>
      PROVE  StallInv'
  BY <1>3 DEF StallInv, StallMeansDrained
<1>4. ASSUME NEW k \in Sms, ReadRxf(k)
      PROVE  StallInv'
  <2>. DEFINE m == [sm[k] EXCEPT !.rx = Tail(@)]
  <2>1. Fields(m) /\ (TxEmpty(sm[k]) => TxEmpty(m))
    BY <1>1 DEF Fields, TxEmpty
  <2>2. sm' = sm \/ sm' = [sm EXCEPT ![k] = m]
    BY <1>4 DEF ReadRxf
  <2>. HIDE DEF m
  <2>3. asked' = asked /\ fdebug'.txstall = fdebug.txstall /\ "txstall" \in DOMAIN fdebug'
    BY <1>4 DEF ReadRxf, StallInv
  <2>4. CASE sm' = sm
    BY <1>1, <2>3, <2>4, AccessKeepsStall DEF StallInv
  <2>5. QED
    BY <1>2, <2>1, <2>2, <2>3, <2>4
<1>5. ASSUME NEW v \in [DOMAIN fdebug -> SUBSET Sms], WriteFdebug(v)
      PROVE  StallInv'
  <2>1. /\ "txstall" \in DOMAIN fdebug' /\ fdebug'.txstall = fdebug.txstall \ v.txstall
        /\ asked' = asked \cup v.txstall /\ v.txstall \subseteq Sms /\ sm' = sm
    BY <1>5 DEF WriteFdebug, StallInv
  <2>2. QED
    BY <1>1, <2>1, AccessKeepsStall DEF StallInv
<1>6. ASSUME NEW S, WriteIrq(S) \/ WriteIrqForce(S)
      PROVE  StallInv'
  BY <1>3, <1>6 DEF WriteIrq, WriteIrqForce
<1>7. ASSUME NEW k \in Sms, NEW d, WriteClkdiv(k, d)
      PROVE  StallInv'
  BY <1>3, <1>7 DEF WriteClkdiv
<1>8. ASSUME NEW k \in Sms, NEW w, WriteExecctrl(k, w)
      PROVE  StallInv'
  <2>1. /\ Fields([sm[k] EXCEPT !.wrap = w])
        /\ TxEmpty(sm[k]) => TxEmpty([sm[k] EXCEPT !.wrap = w])
    BY <1>1 DEF Fields, TxEmpty
  <2>2. QED
    BY <1>2, <1>8, <2>1 DEF WriteExecctrl, StallInv
<1>9. ASSUME NEW k \in Sms, NEW s, NEW tx, NEW rx, WriteShiftctrl(k, s, tx, rx)
      PROVE  StallInv'
  <2>. DEFINE m == Joined([sm[k] EXCEPT !.shift = s], tx, rx)
  <2>1. Fields(m) /\ TxEmpty(m)
    BY <1>1 DEF Joined, Fields, TxEmpty
  <2>. HIDE DEF m
  <2>2. sm' = [sm EXCEPT ![k] = m] /\ UNCHANGED <<asked, fdebug>>
    BY <1>9 DEF WriteShiftctrl, m
  <2>3. QED
    BY <1>2, <2>1, <2>2 DEF StallInv
<1>10. ASSUME NEW a, NEW in, WriteInstrMem(a, in)
       PROVE  StallInv'
  BY <1>3, <1>10 DEF WriteInstrMem
<1>11. ASSUME NEW k \in Sms, NEW in, NEW level, WriteInstr(k, in, level)
       PROVE  StallInv'
  <2>. DEFINE r == Exec(sm[k], irq, k, in, level)
              m == [r.m EXCEPT !.pc = IF in.op = "JMP" /\ r.ok THEN @ ELSE sm[k].pc,
                               !.stall = IF r.ok THEN @ ELSE "none"]
  <2>1. Fields(r.m) /\ (TxEmpty(sm[k]) => TxEmpty(r.m))
    BY <1>1, ExecEffect
  <2>2. sm' = [sm EXCEPT ![k] = m] /\ UNCHANGED <<asked, fdebug>>
    BY <1>11 DEF WriteInstr
  <2>. HIDE DEF r
  <2>3. Fields(m) /\ (TxEmpty(sm[k]) => TxEmpty(m))
    BY <2>1 DEF Fields, TxEmpty
  <2>. HIDE DEF m
  <2>4. QED
    BY <1>2, <2>2, <2>3 DEF StallInv
<1>12. QED
  BY <1>4, <1>5, <1>6, <1>7, <1>8, <1>9, <1>10, <1>11, WriteTxfKeepsStall,
     WriteCtrlKeepsStall DEF RegisterAccess

\* When firmware has cleared TXSTALL of a machine after the last word and sees
\* it set again, the machine has taken every word (poll_fdebug and write_txf in
\* pio_registers.cpp): in any program, for PULL, autopull and what OUT EXEC and
\* MOV EXEC inject, and whatever is restarted, joined or forced meanwhile.
THEOREM StallMeansDrainedHolds == Spec => []StallMeansDrained
<1>1. Init => StallInv
  <2>1. ASSUME Init
        PROVE  StallInv
    <3>1. PICK s \in [Sms -> Shifts], w \in [Sms -> Wraps], x \in [Sms -> Word] :
             sm = [i \in Sms |-> Restarted([Fresh EXCEPT !.shift = s[i], !.wrap = w[i],
                                                          !.x = x[i]])]
      BY <2>1 DEF Init
    <3>2. ASSUME NEW i \in Sms
          PROVE  Fields(sm[i])
      <4>. DEFINE m == [Fresh EXCEPT !.shift = s[i], !.wrap = w[i], !.x = x[i]]
      <4>1. Fields(m)
        BY DEF Fresh, Fields
      <4>2. sm[i] = Restarted(m)
        BY <3>1
      <4>3. QED
        <5>. HIDE DEF m
        <5>. QED  BY <4>1, <4>2 DEF Restarted, Fields
    <3>3. DOMAIN sm = Sms
      BY <3>1
    <3>4. asked = {} /\ fdebug = NoEvents
      BY <2>1, Zenon DEF Init
    <3>5. QED
      BY <3>2, <3>3, <3>4 DEF StallInv, StallMeansDrained, NoEvents
  <2>2. QED
    BY <2>1
<1>2. StallInv /\ [Next]_vars => StallInv'
  <2>1. ASSUME StallInv, NoAccess
        PROVE  StallInv'
    BY <2>1 DEF NoAccess, StallInv, StallMeansDrained
  <2>2. ASSUME StallInv, Reset
        PROVE  StallInv'
    <3>1. sm' = [i \in Sms |-> Fresh] /\ asked' = {} /\ fdebug' = NoEvents
      BY <2>2 DEF Reset
    <3>2. Fields(Fresh)
      BY DEF Fresh, Fields
    <3>3. QED
      BY <3>1, <3>2 DEF StallInv, StallMeansDrained, NoEvents
  <2>3. ASSUME StallInv, UNCHANGED vars
        PROVE  StallInv'
    BY <2>3 DEF vars, StallInv, StallMeansDrained
  <2>4. QED
    BY <2>1, <2>2, <2>3, TickKeepsStall, RegisterKeepsStall DEF Next
<1>3. StallInv => StallMeansDrained
  BY DEF StallInv
<1>4. QED
  BY <1>1, <1>2, <1>3, PTL DEF Spec

-----------------------------------------------------------------------------
(* The rendezvous *)

\* After(r): the machine at the end of the turn in which it executed
After(r) ==
    IF r.ok THEN [r.m EXCEPT !.stall = "none", !.delay = r.m.cur.delay]
    ELSE [r.m EXCEPT !.stall = IF @ = "none" THEN "instr" ELSE @]

LEMMA ExecuteIs ==
    ASSUME NEW i \in Sms, Execute(i)
    PROVE  \E level \in Levels :
              LET m == Fetched(sm[i])
                  r == Exec(m, irq, i, m.cur, level)
              IN /\ EndTurn(i, After(r), ~r.ok)
                 /\ irq' = r.irq /\ met' = Met(i, r)
<1>. DEFINE m == Fetched(sm[i])
            r(level) == Exec(m, irq, i, m.cur, level)
<1>1. PICK level \in Levels :
         /\ IF r(level).ok
            THEN EndTurn(i, [r(level).m EXCEPT !.stall = "none", !.delay = r(level).m.cur.delay], FALSE)
            ELSE EndTurn(i, [r(level).m EXCEPT !.stall = IF @ = "none" THEN "instr" ELSE @], TRUE)
         /\ irq' = r(level).irq /\ met' = Met(i, r(level))
  BY Zenon DEF Execute
<1>2. EndTurn(i, After(r(level)), ~r(level).ok)
  <2>. HIDE DEF r, m
  <2>1. CASE r(level).ok
    <3>1. EndTurn(i, After(r(level)), FALSE)
      BY <1>1, <2>1 DEF After
    <3>2. (~r(level).ok) = FALSE
      BY <2>1
    <3>. QED
      BY <3>1, <3>2, <2>1 DEF EndTurn
  <2>2. CASE ~r(level).ok
    <3>1. EndTurn(i, After(r(level)), TRUE)
      BY <1>1, <2>2 DEF After
    <3>. QED
      BY <3>1, <2>2 DEF EndTurn
  <2>. QED
    BY <2>1, <2>2
<1>. QED
  BY <1>1, <1>2

\* n is m as far as programs go, but for what it waits for.
Alike(n, m) ==
    /\ DOMAIN n = DOMAIN m
    /\ n.pc = m.pc /\ n.x = m.x /\ n.osr = m.osr /\ n.isr = m.isr /\ n.out = m.out /\ n.in = m.in
    /\ n.raised = m.raised /\ n.cur = m.cur /\ n.tx = m.tx /\ n.rx = m.rx /\ n.rxDepth = m.rxDepth
    /\ n.shift = m.shift /\ n.wrap = m.wrap

LEMMA RetiredIs ==
    ASSUME NEW n, DOMAIN n = DOMAIN Fresh, NEW f
    PROVE  /\ Alike(After(Retired(n, f)), Advanced(n)) /\ After(Retired(n, f)).stall = "none"
           /\ Retired(n, f).m = Advanced(n) /\ Retired(n, f).irq = f /\ Retired(n, f).ok
<1>. DEFINE a == Advanced(n)
<1>1. Retired(n, f).m = a /\ Retired(n, f).irq = f /\ Retired(n, f).ok
  BY DEF Retired, Result
<1>2. DOMAIN a = DOMAIN Fresh
  BY DEF Advanced
<1>. HIDE DEF a
<1>3. After(Retired(n, f)) = [a EXCEPT !.stall = "none", !.delay = a.cur.delay]
  BY <1>1 DEF After
<1>4. /\ Alike([a EXCEPT !.stall = "none", !.delay = a.cur.delay], a)
      /\ [a EXCEPT !.stall = "none", !.delay = a.cur.delay].stall = "none"
  BY <1>2 DEF Alike, Fresh
<1>5. Alike(After(Retired(n, f)), a) /\ After(Retired(n, f)).stall = "none"
  BY <1>3, <1>4
<1>. QED
  BY <1>1, <1>5 DEF a

LEMMA JumpedIs ==
    ASSUME NEW n, DOMAIN n = DOMAIN Fresh, NEW f, NEW to
    PROVE  /\ Alike(After(Jumped(n, f, to)), [n EXCEPT !.pc = to % Size])
           /\ After(Jumped(n, f, to)).stall = "none"
           /\ Jumped(n, f, to).m = [n EXCEPT !.pc = to % Size] /\ Jumped(n, f, to).irq = f
           /\ Jumped(n, f, to).ok
<1>. DEFINE a == [n EXCEPT !.pc = to % Size]
<1>1. Jumped(n, f, to).m = a /\ Jumped(n, f, to).irq = f /\ Jumped(n, f, to).ok
  BY DEF Jumped, Result
<1>2. DOMAIN a = DOMAIN Fresh
  OBVIOUS
<1>. HIDE DEF a
<1>3. After(Jumped(n, f, to)) = [a EXCEPT !.stall = "none", !.delay = a.cur.delay]
  BY <1>1 DEF After
<1>4. /\ Alike([a EXCEPT !.stall = "none", !.delay = a.cur.delay], a)
      /\ [a EXCEPT !.stall = "none", !.delay = a.cur.delay].stall = "none"
  BY <1>2 DEF Alike, Fresh
<1>5. Alike(After(Jumped(n, f, to)), a) /\ After(Jumped(n, f, to)).stall = "none"
  BY <1>3, <1>4
<1>. QED
  BY <1>1, <1>5 DEF a

LEMMA StuckIs ==
    ASSUME NEW n, DOMAIN n = DOMAIN Fresh, NEW f
    PROVE  /\ Alike(After(Stuck(n, f)), n)
           /\ After(Stuck(n, f)).stall = IF n.stall = "none" THEN "instr" ELSE n.stall
           /\ Stuck(n, f).m = n /\ Stuck(n, f).irq = f /\ ~Stuck(n, f).ok
<1>1. Stuck(n, f).m = n /\ Stuck(n, f).irq = f /\ ~Stuck(n, f).ok
  BY DEF Stuck, Result
<1>2. After(Stuck(n, f)) = [n EXCEPT !.stall = IF @ = "none" THEN "instr" ELSE @]
  BY <1>1 DEF After
<1>3. /\ Alike([n EXCEPT !.stall = IF @ = "none" THEN "instr" ELSE @], n)
      /\ [n EXCEPT !.stall = IF @ = "none" THEN "instr" ELSE @].stall
            = IF n.stall = "none" THEN "instr" ELSE n.stall
  BY DEF Alike, Fresh
<1>. QED
  BY <1>1, <1>2, <1>3

\* m has been set up and not started.
IsSetUp(m, s, w, x) ==
    /\ DOMAIN m = DOMAIN Fresh /\ m.pc = w.bottom /\ m.x = x /\ m.osr = 0 /\ m.isr = 0
    /\ m.out = Width /\ m.in = 0 /\ m.stall = "none" /\ m.raised = FALSE /\ m.cur = Nop
    /\ m.tx = <<>> /\ m.rx = <<>> /\ m.shift = s /\ m.wrap = w

LEMMA SetUpIs ==
    ASSUME NEW s, NEW w, NEW x
    PROVE  IsSetUp(SetUp(s, w, x), s, w, x)
<1>. DEFINE f == [Fresh EXCEPT !.shift = s, !.wrap = w, !.x = x]
            m == Restarted(f)
<1>1. /\ DOMAIN f = DOMAIN Fresh /\ f.shift = s /\ f.wrap = w /\ f.x = x
      /\ f.cur = Nop /\ f.tx = <<>> /\ f.rx = <<>>
  BY DEF Fresh
<1>. HIDE DEF f
<1>2. IsSetUp(m, s, w, x)
  BY <1>1 DEF Restarted, Fresh, IsSetUp
<1>3. SetUp(s, w, x) = m
  BY DEF SetUp, f
<1>. HIDE DEF m
<1>. QED
  BY <1>2, <1>3

Last == NumSm - 1

\* A machine that has only one instruction
Attends(m, a, in) ==
    /\ m.pc = a /\ m.wrap = Wrap(a, a)
    /\ m.stall \in {"none", "instr"} /\ (m.stall = "instr" => m.cur = in)

\* Any machine of the block: it executes the same program.
Passes(m) ==
    /\ DOMAIN m = DOMAIN Fresh
    /\ m.pc \in Addrs /\ m.wrap.bottom \in Addrs
    /\ m.stall \in {"none", "instr"} /\ m.cur \in {Ring, Answer, Nop} /\ m.raised \in BOOLEAN

\* The flag of the first machine is raised while its ring is not answered.
RingState ==
    /\ prog = Loaded(Bell) /\ DOMAIN sm = Sms
    /\ Attends(sm[0], 0, Ring) /\ Attends(sm[Last], 1, Answer)
    /\ \A i \in Sms : Passes(sm[i])
    /\ \/ met = 0 /\ (sm[0].raised <=> 0 \in irq)
       \/ met = 1 /\ sm[0].raised /\ 0 \notin irq

RingInv ==
    /\ DOMAIN duty = Sms
    /\ \A i \in Sms : (duty[i] = "rings" => i = 0) /\ (duty[i] = "answers" => i = Last)
    /\ Rings => RingState

LEMMA RingBegins == WorkInit => RingInv
<1>. SUFFICES ASSUME WorkInit PROVE RingInv
  OBVIOUS
<1>0. NumSm \in Nat /\ NumSm > 1 /\ Size \in Nat /\ Size > 3
  BY PioAssumption, WorkAssumption
<1>a. 0 \in Addrs /\ 1 \in Addrs /\ TRUE \in BOOLEAN /\ FALSE \in BOOLEAN
  BY <1>0 DEF Addrs
<1>1. CASE SetToRing
  <2>1. 0 \in Sms /\ Last \in Sms /\ 0 # Last
    BY <1>0 DEF Sms, Last
  <2>2. DOMAIN duty = Sms /\ \A i \in Sms : (duty[i] = "rings" => i = 0) /\ (duty[i] = "answers" => i = Last)
    BY <1>1 DEF SetToRing, Last
  <2>3. prog = Loaded(Bell) /\ DOMAIN sm = Sms
    BY <1>1 DEF SetToRing
  <2>4. sm[0] = SetUp(ShiftDefault, Wrap(0, 0), 0) /\ sm[Last] = SetUp(ShiftDefault, Wrap(1, 1), 0)
    BY <1>1, <2>1 DEF SetToRing, Last
  <2>5. \A i \in Sms : sm[i] \in {sm[0], sm[Last], Fresh}
    BY <1>1, <2>1, <2>4 DEF SetToRing, Last
  <2>6. /\ Attends(SetUp(ShiftDefault, Wrap(0, 0), 0), 0, Ring) /\ Passes(SetUp(ShiftDefault, Wrap(0, 0), 0))
        /\ ~SetUp(ShiftDefault, Wrap(0, 0), 0).raised
    <3>. DEFINE m == SetUp(ShiftDefault, Wrap(0, 0), 0)
    <3>1. Wrap(0, 0).bottom = 0
      BY DEF Wrap
    <3>2. IsSetUp(m, ShiftDefault, Wrap(0, 0), 0)
      BY SetUpIs
    <3>. HIDE DEF m
    <3>3. Attends(m, 0, IF 0 = 0 THEN Ring ELSE Answer) /\ Passes(m) /\ ~m.raised
      BY <1>a, <3>1, <3>2 DEF Attends, Passes, IsSetUp
    <3>. QED  BY <3>3 DEF m
  <2>7. Attends(SetUp(ShiftDefault, Wrap(1, 1), 0), 1, Answer) /\ Passes(SetUp(ShiftDefault, Wrap(1, 1), 0))
    <3>. DEFINE m == SetUp(ShiftDefault, Wrap(1, 1), 0)
    <3>1. Wrap(1, 1).bottom = 1
      BY DEF Wrap
    <3>2. IsSetUp(m, ShiftDefault, Wrap(1, 1), 0)
      BY SetUpIs
    <3>. HIDE DEF m
    <3>3. Attends(m, 1, IF 1 = 0 THEN Ring ELSE Answer) /\ Passes(m) /\ ~m.raised
      BY <1>a, <3>1, <3>2 DEF Attends, Passes, IsSetUp
    <3>. QED  BY <3>3 DEF m
  <2>8. Passes(Fresh)
    BY <1>0 DEF Fresh, Passes, WrapDefault, Addrs
  <2>9. met = 0 /\ irq = {}
    BY DEF WorkInit, Stopped
  <2>10. \A i \in Sms : Passes(sm[i])
    BY <2>4, <2>5, <2>6, <2>7, <2>8, Zenon
  <2>. QED
    BY <2>2, <2>3, <2>4, <2>6, <2>7, <2>9, <2>10 DEF RingInv, RingState
<1>2. CASE \E c \in CopyingPrograms, S \in SUBSET Sms : SetToCopy(c, S)
  <2>1. DOMAIN duty = Sms /\ \A i \in Sms : duty[i] \in {"copies", "any"}
    BY <1>2 DEF SetToCopy
  <2>. QED
    BY <2>1 DEF RingInv, Rings
<1>. QED
  BY <1>1, <1>2 DEF WorkInit

LEMMA RingMeans == RingInv => Rendezvous
BY DEF RingInv, RingState, Rendezvous

-----------------------------------------------------------------------------
\* The flags of the two instructions: each machine rings its own flag and
\* answers that of the next one.
LEMMA BellFlags ==
    ASSUME NEW k \in Sms
    PROVE  Flag(k, Ring) = k /\ Flag(k, Answer) = IF k = Last THEN 0 ELSE k + 1
<1>0. NumSm \in Nat /\ NumSm > 1 /\ k \in 0..(NumSm - 1)
  BY PioAssumption, WorkAssumption DEF Sms
<1>1. 0 \div NumSm = 0 /\ 1 \div NumSm = 0 /\ 0 % NumSm = 0 /\ 1 % NumSm = 1
  <2>1. (0 * NumSm + 0) \div NumSm = 0 /\ (0 * NumSm + 0) % NumSm = 0
    BY <1>0, QuotientIs, Residue, 0 \in 0..(NumSm - 1), 0 \in Int, NumSm \in Nat \ {0}
  <2>2. (0 * NumSm + 1) \div NumSm = 0 /\ (0 * NumSm + 1) % NumSm = 1
    BY <1>0, QuotientIs, Residue, 1 \in 0..(NumSm - 1), 0 \in Int, NumSm \in Nat \ {0}
  <2>3. 0 * NumSm + 0 = 0 /\ 0 * NumSm + 1 = 1
    BY <1>0
  <2>. QED
    BY <2>1, <2>2, <2>3
<1>2. k % NumSm = k
  <2>1. (0 * NumSm + k) % NumSm = k
    BY <1>0, Residue, 0 \in Int, NumSm \in Nat \ {0}
  <2>. QED
    BY <1>0, <2>1
<1>3. (1 + k) % NumSm = IF k = Last THEN 0 ELSE k + 1
  <2>1. CASE k = Last
    <3>1. (1 * NumSm + 0) % NumSm = 0
      BY <1>0, Residue, 0 \in 0..(NumSm - 1), 1 \in Int, NumSm \in Nat \ {0}
    <3>2. 1 * NumSm + 0 = 1 + k
      BY <1>0, <2>1 DEF Last
    <3>. QED
      BY <2>1, <3>1, <3>2
  <2>2. CASE k # Last
    <3>1. k + 1 \in 0..(NumSm - 1)
      BY <1>0, <2>2 DEF Last
    <3>2. (0 * NumSm + (k + 1)) % NumSm = k + 1
      BY <1>0, <3>1, Residue, 0 \in Int, NumSm \in Nat \ {0}
    <3>3. 0 * NumSm + (k + 1) = 1 + k
      BY <1>0
    <3>. QED
      BY <2>2, <3>2, <3>3
  <2>. QED
    BY <2>1, <2>2
<1>4. 0 * NumSm = 0 /\ 0 + k = k /\ \A n \in Nat : 0 + n = n
  BY <1>0
<1>5. Flag(k, Ring) = 0 * NumSm + ((0 + k) % NumSm)
  BY <1>1 DEF Flag, Ring
<1>6. Flag(k, Answer) = 0 * NumSm + ((1 + k) % NumSm)
  BY <1>1 DEF Flag, Answer
<1>. QED
  BY <1>0, <1>2, <1>3, <1>4, <1>5, <1>6

\* n is m as far as the bell goes.
Minds(n, m) ==
    /\ DOMAIN n = DOMAIN m /\ n.pc = m.pc /\ n.wrap = m.wrap
    /\ n.stall = m.stall /\ n.cur = m.cur /\ n.raised = m.raised

\* What machine m becomes in its turn, and the flags, with each instruction
NopTurned(r, n, m, f) ==
    /\ DOMAIN n = DOMAIN Fresh /\ n.pc = 0 /\ n.wrap = m.wrap
    /\ n.stall = "none" /\ n.cur = Nop /\ n.raised = m.raised
    /\ r.irq = f
RingTurned(r, n, m, f, k) ==
    /\ DOMAIN n = DOMAIN Fresh /\ n.wrap = m.wrap /\ n.cur = Ring /\ r.m.cur = Ring
    /\ r.ok <=> m.raised /\ k \notin f
    /\ r.irq = IF m.raised THEN f ELSE f \cup {k}
    /\ IF r.ok THEN n.pc = Advanced(m).pc /\ n.stall = "none" /\ n.raised = FALSE
       ELSE n.pc = m.pc /\ n.stall = "instr" /\ n.raised = TRUE
AnswerTurned(r, n, m, f, k) ==
    /\ DOMAIN n = DOMAIN Fresh /\ n.wrap = m.wrap /\ n.cur = Answer /\ r.m.cur = Answer
    /\ n.raised = m.raised
    /\ r.ok <=> k \in f
    /\ r.irq = f \ {k}
    /\ IF r.ok THEN n.pc = Advanced(m).pc /\ n.stall = "none"
       ELSE n.pc = m.pc /\ n.stall = "instr"

LEMMA NopTurn ==
    ASSUME NEW m, DOMAIN m = DOMAIN Fresh, m.cur = Nop, NEW f, NEW k, NEW level
    PROVE  NopTurned(Exec(m, f, k, Nop, level), After(Exec(m, f, k, Nop, level)), m, f)
<1>. DEFINE n == [m EXCEPT !.x = m.x, !.y = m.y]
            j == [n EXCEPT !.pc = 0]
<1>1. Exec(m, f, k, Nop, level) = Plain(m, f, k, Nop, level)
  BY DEF Exec, Injects, Nop
<1>2. Plain(m, f, k, Nop, level) = Jmp(m, f, Nop, level)
  BY DEF Plain, Nop
<1>3. Jmp(m, f, Nop, level) = Jumped(n, f, 0)
  BY DEF Jmp, Nop, Taken
<1>4. 0 % Size = 0
  BY PioAssumption, Residue, 0 * Size + 0 = 0, 0 \in 0..(Size - 1), 0 \in Int
<1>5. DOMAIN n = DOMAIN Fresh
  OBVIOUS
<1>6. /\ Alike(After(Jumped(n, f, 0)), j) /\ After(Jumped(n, f, 0)).stall = "none"
      /\ Jumped(n, f, 0).m = j /\ Jumped(n, f, 0).irq = f
  <2>. HIDE DEF n
  <2>. QED  BY <1>4, <1>5, JumpedIs
<1>7. /\ DOMAIN j = DOMAIN Fresh /\ j.pc = 0 /\ j.wrap = m.wrap
      /\ j.cur = Nop /\ j.raised = m.raised
  BY DEF Fresh
<1>. HIDE DEF j, n
<1>8. Exec(m, f, k, Nop, level) = Jumped(n, f, 0)
  BY <1>1, <1>2, <1>3
<1>. QED
  BY <1>6, <1>7, <1>8 DEF Alike, NopTurned

LEMMA RingTurn ==
    ASSUME NEW m, DOMAIN m = DOMAIN Fresh, m.cur = Ring, NEW f, NEW k \in Sms, NEW level,
           m.raised \in BOOLEAN, m.stall \in {"none", "instr"}
    PROVE  RingTurned(Exec(m, f, k, Ring, level), After(Exec(m, f, k, Ring, level)), m, f, k)
<1>. DEFINE g == IF m.raised THEN f ELSE f \cup {k}
            w == [m EXCEPT !.raised = TRUE]
            d == [w EXCEPT !.raised = FALSE]
<1>1. Exec(m, f, k, Ring, level) = Plain(m, f, k, Ring, level)
  BY DEF Exec, Injects, Ring
<1>2. Plain(m, f, k, Ring, level) = Irq(m, f, k, Ring)
  BY DEF Plain, Ring
<1>3. [m EXCEPT !.raised = IF @ THEN @ ELSE Ring.wait] = w
  BY DEF Ring, Fresh
<1>4. Irq(m, f, k, Ring) = IF k \in g THEN Stuck(w, g) ELSE Retired(d, g)
  <2>1. ~Ring.clear /\ Ring.wait
    BY DEF Ring
  <2>2. Flag(k, Ring) = k
    BY BellFlags
  <2>. QED
    BY <1>3, <2>1, <2>2 DEF Irq
<1>5. k \in g <=> ~(m.raised /\ k \notin f)
  OBVIOUS
<1>6. DOMAIN w = DOMAIN Fresh /\ w.wrap = m.wrap /\ w.cur = Ring /\ w.raised = TRUE /\ w.stall = m.stall /\ w.pc = m.pc
  BY DEF Fresh
<1>7. DOMAIN d = DOMAIN Fresh /\ d.wrap = m.wrap /\ d.cur = Ring /\ d.raised = FALSE /\ d.pc = m.pc
  BY DEF Fresh
<1>. HIDE DEF w, d, g
<1>8. CASE k \in g
  <2>1. Exec(m, f, k, Ring, level) = Stuck(w, g)
    BY <1>1, <1>2, <1>4, <1>8
  <2>2. /\ Alike(After(Stuck(w, g)), w) /\ After(Stuck(w, g)).stall = "instr"
        /\ Stuck(w, g).m = w /\ Stuck(w, g).irq = g /\ ~Stuck(w, g).ok
    BY <1>6, StuckIs
  <2>. QED
    BY <1>5, <1>6, <1>8, <2>1, <2>2 DEF Alike, g, RingTurned
<1>9. CASE k \notin g
  <2>1. Exec(m, f, k, Ring, level) = Retired(d, g)
    BY <1>1, <1>2, <1>4, <1>9
  <2>2. /\ DOMAIN Advanced(d) = DOMAIN Fresh /\ Advanced(d).wrap = m.wrap /\ Advanced(d).cur = Ring
        /\ Advanced(d).raised = FALSE /\ Advanced(d).pc = Advanced(m).pc
    BY <1>7 DEF Advanced, Fresh
  <2>3. /\ Alike(After(Retired(d, g)), Advanced(d)) /\ After(Retired(d, g)).stall = "none"
        /\ Retired(d, g).m = Advanced(d) /\ Retired(d, g).irq = g /\ Retired(d, g).ok
    BY <1>7, RetiredIs
  <2>. QED
    BY <1>5, <1>9, <2>1, <2>2, <2>3 DEF Alike, g, RingTurned
<1>. QED
  BY <1>8, <1>9

LEMMA AnswerTurn ==
    ASSUME NEW m, DOMAIN m = DOMAIN Fresh, m.cur = Answer, NEW f, NEW k \in Sms, NEW level,
           m.stall \in {"none", "instr"}
    PROVE  AnswerTurned(Exec(m, f, k, Answer, level), After(Exec(m, f, k, Answer, level)), m, f,
                        Flag(k, Answer))
<1>. DEFINE flag == Flag(k, Answer)
<1>1. Exec(m, f, k, Answer, level) = Plain(m, f, k, Answer, level)
  BY DEF Exec, Injects, Answer
<1>2. Plain(m, f, k, Answer, level) = Wait(m, f, k, Answer, level)
  BY DEF Plain, Answer
<1>3. Flag(k, Answer) = flag
  OBVIOUS
<1>4. Answer.src = "irq" /\ Answer.high = TRUE
  BY DEF Answer
<1>5. Wait(m, f, k, Answer, level) = IF flag \in f THEN Retired(m, f \ {flag}) ELSE Stuck(m, f)
  BY <1>3, <1>4 DEF Wait
<1>. HIDE DEF flag
<1>6. CASE flag \in f
  <2>. DEFINE g == f \ {flag}
  <2>1. Exec(m, f, k, Answer, level) = Retired(m, g)
    BY <1>1, <1>2, <1>5, <1>6
  <2>2. /\ DOMAIN Advanced(m) = DOMAIN Fresh /\ Advanced(m).wrap = m.wrap /\ Advanced(m).cur = Answer
        /\ Advanced(m).raised = m.raised
    BY DEF Advanced, Fresh
  <2>3. /\ Alike(After(Retired(m, g)), Advanced(m)) /\ After(Retired(m, g)).stall = "none"
        /\ Retired(m, g).m = Advanced(m) /\ Retired(m, g).irq = g /\ Retired(m, g).ok
    <3>. HIDE DEF g
    <3>. QED  BY RetiredIs
  <2>. QED
    BY <1>6, <2>1, <2>2, <2>3 DEF Alike, flag, AnswerTurned
<1>7. CASE flag \notin f
  <2>1. Exec(m, f, k, Answer, level) = Stuck(m, f)
    BY <1>1, <1>2, <1>5, <1>7
  <2>2. /\ Alike(After(Stuck(m, f)), m) /\ After(Stuck(m, f)).stall = "instr"
        /\ Stuck(m, f).m = m /\ Stuck(m, f).irq = f /\ ~Stuck(m, f).ok
    BY StuckIs
  <2>3. f \ {flag} = f
    BY <1>7
  <2>. QED
    BY <1>7, <2>1, <2>2, <2>3 DEF Alike, flag, AnswerTurned
<1>. QED
  BY <1>6, <1>7

\* What the bell's program holds
LEMMA BellIs ==
    ASSUME prog = Loaded(Bell), NEW a \in Addrs
    PROVE  prog[a] = IF a = 0 THEN Ring ELSE IF a = 1 THEN Answer ELSE Nop
<1>1. prog[a] = IF a < 4 THEN Bell[a + 1] ELSE Nop
  BY DEF Loaded
<1>2. Bell[1] = Ring /\ Bell[2] = Answer /\ Bell[3] = Nop /\ Bell[4] = Nop
  BY DEF Bell
<1>3. a \in Int /\ (a < 4 => a = 0 \/ a = 1 \/ a = 2 \/ a = 3) /\ (a = 0 \/ a = 1 => a < 4)
  BY PioAssumption DEF Addrs
<1>4. 0 + 1 = 1 /\ 1 + 1 = 2 /\ 2 + 1 = 3 /\ 3 + 1 = 4
  OBVIOUS
<1>. QED
  BY <1>1, <1>2, <1>3, <1>4

\* Machine m with the instruction that it executes in its turn
LEMMA BellFetched ==
    ASSUME prog = Loaded(Bell), NEW m, Passes(m)
    PROVE  LET n == Fetched(m)
           IN /\ Passes(n) /\ n.pc = m.pc /\ n.wrap = m.wrap /\ n.raised = m.raised /\ n.stall = m.stall
              /\ n.cur = IF m.stall = "instr" THEN m.cur ELSE prog[m.pc]
<1>1. CASE m.stall = "instr"
  <2>1. Fetched(m) = m
    BY <1>1 DEF Fetched
  <2>. QED
    BY <1>1, <2>1
<1>2. CASE m.stall = "none"
  <2>. DEFINE q == Refilled(m)
              n == [q EXCEPT !.cur = prog[m.pc]]
  <2>1. Fetched(m) = n
    BY <1>2 DEF Fetched
  <2>2. Minds(q, m)
    BY DEF Refilled, Pulled, Minds, Passes, Fresh
  <2>. HIDE DEF q
  <2>3. /\ DOMAIN n = DOMAIN Fresh /\ n.pc = m.pc /\ n.wrap = m.wrap /\ n.raised = m.raised
        /\ n.stall = m.stall /\ n.cur = prog[m.pc]
    BY <2>2 DEF Minds, Passes, Fresh
  <2>. HIDE DEF n
  <2>4. prog[m.pc] \in {Ring, Answer, Nop}
    BY BellIs DEF Passes
  <2>5. Passes(n)
    BY <2>3, <2>4 DEF Passes
  <2>. QED
    BY <1>2, <2>1, <2>3, <2>5
<1>. QED
  BY <1>1, <1>2 DEF Passes

\* Nothing but the program counter, the stall and the ring of a machine changes
\* in its turn; its program counter stays in the memory.
LEMMA NextAddress ==
    ASSUME NEW m, DOMAIN m = DOMAIN Fresh, m.pc \in Addrs, m.wrap.bottom \in Addrs
    PROVE  /\ Advanced(m).pc \in Addrs
           /\ m.pc = m.wrap.top => Advanced(m).pc = m.wrap.bottom
           /\ m.pc # m.wrap.top /\ m.pc + 1 \in Addrs => Advanced(m).pc = m.pc + 1
<1>1. Advanced(m).pc = IF m.pc = m.wrap.top THEN m.wrap.bottom ELSE (m.pc + 1) % Size
  BY DEF Advanced, Fresh
<1>2. (m.pc + 1) % Size \in Addrs
  BY PioAssumption, Quotient, m.pc + 1 \in Int DEF Addrs
<1>3. m.pc + 1 \in Addrs => (m.pc + 1) % Size = m.pc + 1
  <2>. SUFFICES ASSUME m.pc + 1 \in Addrs PROVE (m.pc + 1) % Size = m.pc + 1
    OBVIOUS
  <2>1. m.pc + 1 \in 0..(Size - 1) /\ m.pc + 1 \in Int
    BY PioAssumption DEF Addrs
  <2>2. (0 * Size + (m.pc + 1)) % Size = m.pc + 1
    BY <2>1, PioAssumption, Residue, 0 \in Int
  <2>. QED
    BY <2>1, <2>2, PioAssumption
<1>. QED
  BY <1>1, <1>2, <1>3

LEMMA RingsAre ==
    ASSUME RingInv, Rings
    PROVE  /\ RingState /\ duty[0] = "rings" /\ duty[Last] = "answers" /\ 0 \in Sms /\ Last \in Sms /\ 0 # Last
           /\ \A k \in Sms : k # 0 /\ k # Last => duty[k] \notin {"rings", "answers"}
<1>1. PICK i, j \in Sms : duty[i] = "rings" /\ duty[j] = "answers"
  BY DEF Rings
<1>2. i = 0 /\ j = Last
  BY <1>1 DEF RingInv
<1>3. \A k \in Sms : k # 0 /\ k # Last => duty[k] \notin {"rings", "answers"}
  BY DEF RingInv
<1>. QED
  BY <1>1, <1>2, <1>3 DEF RingInv

LEMMA BellExecute ==
    ASSUME RingInv, Rings, NEW k \in Sms, Execute(k)
    PROVE  RingInv'
<1>. DEFINE m == Fetched(sm[k])
            r(level) == Exec(m, irq, k, m.cur, level)
<1>1. PICK level \in Levels :
         /\ EndTurn(k, After(r(level)), ~r(level).ok)
         /\ irq' = r(level).irq /\ met' = Met(k, r(level))
  BY ExecuteIs
<1>. DEFINE s == r(level)
            n == After(s)
<1>2. sm' = [sm EXCEPT ![k] = n] /\ prog' = prog /\ duty' = duty /\ irq' = s.irq /\ met' = Met(k, s)
  BY <1>1 DEF EndTurn, block
<1>3. /\ RingState /\ duty[0] = "rings" /\ duty[Last] = "answers" /\ 0 \in Sms /\ Last \in Sms /\ 0 # Last
      /\ \A i \in Sms : i # 0 /\ i # Last => duty[i] \notin {"rings", "answers"}
  BY RingsAre
<1>4. Passes(sm[k]) /\ prog = Loaded(Bell) /\ DOMAIN sm = Sms
  BY <1>3 DEF RingState
<1>5. /\ Passes(m) /\ m.pc = sm[k].pc /\ m.wrap = sm[k].wrap /\ m.raised = sm[k].raised
      /\ m.stall = sm[k].stall
      /\ m.cur = IF sm[k].stall = "instr" THEN sm[k].cur ELSE prog[sm[k].pc]
  BY <1>4, BellFetched
<1>6. sm'[k] = n /\ \A i \in Sms \ {k} : sm'[i] = sm[i]
  BY <1>2, <1>4
<1>7. DOMAIN sm' = Sms
  BY <1>2, <1>4
<1>8. 0 \in Addrs /\ 1 \in Addrs
  BY PioAssumption, WorkAssumption DEF Addrs
<1>9. prog[0] = Ring /\ prog[1] = Answer
  BY <1>4, <1>8, BellIs, 0 # 1
<1>10. Passes(sm[0]) /\ Passes(sm[Last])
  BY <1>3 DEF RingState
<1>11. SUFFICES RingState'
  BY <1>2 DEF RingInv, Rings
<1>12. /\ Ring.op = "IRQ" /\ Answer.op = "WAIT" /\ Nop.op = "JMP"
  BY DEF Ring, Answer, Nop
<1>13. m.pc = m.wrap.top => Advanced(m).pc = m.wrap.bottom
  <2>. HIDE DEF m
  <2>. QED  BY <1>5, NextAddress DEF Passes
<1>14. Advanced(m).pc \in Addrs
  <2>. HIDE DEF m
  <2>. QED  BY <1>5, NextAddress DEF Passes
<1>15. CASE k = 0
  <2>1. m.cur = Ring /\ m.pc = 0 /\ m.wrap = Wrap(0, 0)
    BY <1>3, <1>5, <1>9, <1>15 DEF RingState, Attends
  <2>2. RingTurned(s, n, m, irq, 0)
    <3>. HIDE DEF m
    <3>. QED  BY <1>5, <1>15, <2>1, RingTurn DEF Passes
  <2>. HIDE DEF m, n, s
  <2>3. met' = IF s.ok THEN met - 1 ELSE met
    BY <1>2, <1>3, <1>12, <1>15, <2>2 DEF Met, RingTurned
  <2>4. Attends(n, 0, Ring) /\ Passes(n)
    <3>1. Wrap(0, 0).top = 0 /\ Wrap(0, 0).bottom = 0
      BY DEF Wrap
    <3>2. n.pc = 0 /\ n.wrap = Wrap(0, 0) /\ n.cur = Ring /\ n.stall \in {"none", "instr"}
      BY <1>13, <2>1, <2>2, <3>1 DEF RingTurned
    <3>3. DOMAIN n = DOMAIN Fresh /\ n.raised \in BOOLEAN
      BY <2>2 DEF RingTurned
    <3>. QED
      BY <1>8, <3>1, <3>2, <3>3 DEF Attends, Passes
  <2>5. \/ met' = 0 /\ (n.raised <=> 0 \in irq')
        \/ met' = 1 /\ n.raised /\ 0 \notin irq'
    BY <1>2, <1>3, <1>5, <1>15, <2>2, <2>3 DEF RingState, RingTurned
  <2>. QED
    BY <1>2, <1>3, <1>6, <1>7, <1>15, <2>4, <2>5 DEF RingState
<1>16. CASE k = Last
  <2>1. m.cur = Answer /\ m.pc = 1 /\ m.wrap = Wrap(1, 1)
    BY <1>3, <1>5, <1>9, <1>16 DEF RingState, Attends
  <2>2. AnswerTurned(s, n, m, irq, 0)
    <3>. HIDE DEF m
    <3>1. AnswerTurned(s, n, m, irq, Flag(k, Answer))
      BY <1>5, <2>1, AnswerTurn DEF Passes
    <3>. QED  BY <1>16, <3>1, BellFlags
  <2>. HIDE DEF m, n, s
  <2>3. met' = IF s.ok THEN met + 1 ELSE met
    BY <1>2, <1>3, <1>12, <1>16, <2>2 DEF Met, AnswerTurned
  <2>4. Attends(n, 1, Answer) /\ Passes(n)
    BY <1>5, <1>8, <1>13, <1>14, <2>1, <2>2 DEF AnswerTurned, Attends, Passes, Wrap
  <2>5. \/ met' = 0 /\ (sm[0].raised <=> 0 \in irq')
        \/ met' = 1 /\ sm[0].raised /\ 0 \notin irq'
    BY <1>2, <1>3, <2>2, <2>3 DEF RingState, AnswerTurned
  <2>. QED
    BY <1>2, <1>3, <1>6, <1>7, <1>16, <2>4, <2>5 DEF RingState
<1>17. CASE k # 0 /\ k # Last
  <2>1. /\ Passes(n) /\ (0 \in s.irq <=> 0 \in irq)
    <3>1. CASE m.cur = Ring
      <4>1. RingTurned(s, n, m, irq, k)
        <5>. HIDE DEF m
        <5>. QED  BY <1>5, <3>1, RingTurn DEF Passes
      <4>. HIDE DEF m, n, s
      <4>. QED
        BY <1>5, <1>14, <1>17, <4>1 DEF Passes, RingTurned
    <3>2. CASE m.cur = Answer
      <4>1. AnswerTurned(s, n, m, irq, k + 1)
        <5>. HIDE DEF m
        <5>1. AnswerTurned(s, n, m, irq, Flag(k, Answer))
          BY <1>5, <3>2, AnswerTurn DEF Passes
        <5>. QED  BY <1>17, <5>1, BellFlags
      <4>2. k + 1 # 0
        BY PioAssumption DEF Sms
      <4>. HIDE DEF m, n, s
      <4>. QED
        BY <1>5, <1>14, <4>1, <4>2 DEF Passes, AnswerTurned
    <3>3. CASE m.cur = Nop
      <4>1. NopTurned(s, n, m, irq)
        <5>. HIDE DEF m
        <5>. QED  BY <1>5, <3>3, NopTurn DEF Passes
      <4>. HIDE DEF m, n, s
      <4>. QED
        BY <1>5, <1>8, <4>1 DEF Passes, NopTurned
    <3>. QED
      BY <1>5, <3>1, <3>2, <3>3 DEF Passes
  <2>2. met' = met
    <3>. HIDE DEF s
    <3>. QED  BY <1>2, <1>3, <1>17 DEF Met
  <2>. HIDE DEF m, n, s
  <2>. QED
    BY <1>2, <1>3, <1>6, <1>7, <1>17, <2>1, <2>2 DEF RingState
<1>. QED
  BY <1>15, <1>16, <1>17

LEMMA BellTick ==
    ASSUME RingInv, Rings, Tick
    PROVE  RingInv'
<1>1. PICK k \in Sms : Skip(k) \/ DelaySlot(k) \/ RetryPush(k) \/ AwaitWord(k) \/ Execute(k)
  BY DEF Tick
<1>2. RingState
  BY RingsAre
<1>3. Passes(sm[k])
  BY <1>2 DEF RingState
<1>4. CASE Skip(k)
  BY <1>4 DEF Skip, block, RingInv, Rings, RingState
<1>5. CASE DelaySlot(k)
  <2>. DEFINE n == [sm[k] EXCEPT !.delay = @ - 1]
  <2>1. sm' = [sm EXCEPT ![k] = n] /\ prog' = prog /\ duty' = duty /\ irq' = irq /\ met' = met
    BY <1>5 DEF DelaySlot, EndTurn, block
  <2>2. Minds(n, sm[k])
    BY DEF Minds
  <2>. HIDE DEF n
  <2>. QED
    BY <1>2, <1>3, <2>1, <2>2 DEF RingInv, Rings, RingState, Attends, Passes, Minds
<1>6. CASE RetryPush(k)
  BY <1>3, <1>6 DEF RetryPush, Passes
<1>7. CASE AwaitWord(k)
  BY <1>3, <1>7 DEF AwaitWord, Passes
<1>8. CASE Execute(k)
  BY <1>8, BellExecute
<1>. QED
  BY <1>1, <1>4, <1>5, <1>6, <1>7, <1>8

\* What WriteInstr makes of machine m, when r is the result of its instruction
Forced(r, m, in) ==
    [r.m EXCEPT !.pc = IF in.op = "JMP" /\ r.ok THEN @ ELSE m.pc,
                !.stall = IF r.ok THEN @ ELSE "none"]

LeftAlone(n, m) ==
    Alike(n, m) /\ n.stall = m.stall /\ n.enabled = m.enabled /\ n.txDepth = m.txDepth

\* A forced instruction that is polite leaves the machine alone.
LEMMA PoliteIs ==
    ASSUME NEW m, DOMAIN m = DOMAIN Fresh, NEW f, NEW i, NEW in, Polite(in), NEW level
    PROVE  LeftAlone(Forced(Exec(m, f, i, in, level), m, in), m) /\ Exec(m, f, i, in, level).irq = f
<1>. DEFINE q == SetReg(m, in.dst, in.data, 0)
            a == Advanced(q)
            r == Exec(m, f, i, in, level)
            n == Forced(r, m, in)
<1>1. in.op = "SET" /\ in.dst \notin {"x", "isr", "osr"}
  BY DEF Polite
<1>2. r = Plain(m, f, i, in, level)
  BY <1>1 DEF Exec, Injects
<1>3. Plain(m, f, i, in, level) = Retired(q, f)
  BY <1>1 DEF Plain
<1>4. q = m \/ q = [m EXCEPT !.y = in.data]
  BY <1>1 DEF SetReg
<1>5. Alike(q, m) /\ q.stall = m.stall /\ q.enabled = m.enabled /\ q.txDepth = m.txDepth
  <2>1. CASE q = m
    BY <2>1 DEF Alike
  <2>2. CASE q = [m EXCEPT !.y = in.data]
    <3>. HIDE DEF q
    <3>. QED  BY <2>2 DEF Alike
  <2>. QED
    BY <1>4, <2>1, <2>2
<1>. HIDE DEF q
<1>6. r.m = a /\ r.irq = f /\ r.ok
  <2>. HIDE DEF r
  <2>1. DOMAIN q = DOMAIN Fresh
    BY <1>5 DEF Alike
  <2>2. Retired(q, f).m = a /\ Retired(q, f).irq = f /\ Retired(q, f).ok
    BY <2>1, RetiredIs
  <2>. QED
    BY <1>2, <1>3, <2>2
<1>. DEFINE b == [a EXCEPT !.pc = m.pc]
<1>7. n = [a EXCEPT !.pc = m.pc, !.stall = a.stall]
  <2>. HIDE DEF r, a
  <2>. QED  BY <1>1, <1>6 DEF Forced
<1>8. LeftAlone(n, m)
  <2>. HIDE DEF n
  <2>. QED  BY <1>5, <1>7 DEF LeftAlone, Alike, Advanced, Fresh
<1>. QED
  BY <1>6, <1>8

LEMMA DisturbSpares ==
    ASSUME RingInv, NEW S, Disturb(S), Rings'
    PROVE  Rings /\ met' = met /\ 0 \notin S /\ Last \notin S /\ duty[0] = "rings" /\ duty[Last] = "answers"
           /\ 0 \in Sms /\ Last \in Sms
<1>1. PICK i, j \in Sms : duty'[i] = "rings" /\ duty'[j] = "answers"
  BY DEF Rings
<1>2. \A k \in Sms : duty'[k] = IF k \in S THEN "any" ELSE duty[k]
  BY DEF Disturb
<1>3. i \notin S /\ j \notin S /\ duty[i] = "rings" /\ duty[j] = "answers"
  BY <1>1, <1>2
<1>4. i = 0 /\ j = Last
  BY <1>3 DEF RingInv
<1>5. \A k \in S : k \in Sms => duty[k] \notin {"rings", "answers"}
  BY <1>3, <1>4 DEF RingInv
<1>6. Rings
  BY <1>1, <1>3 DEF Rings
<1>7. met' = met
  BY <1>5 DEF Disturb, RingInv
<1>. QED
  BY <1>1, <1>3, <1>4, <1>6, <1>7

\* An access that leaves the machines of the bell alone
LEMMA BellAccess ==
    ASSUME RingInv, NEW S, Disturb(S) \/ UNCHANGED <<duty, met>>,
           Rings' => /\ prog' = prog /\ (0 \in irq' <=> 0 \in irq) /\ DOMAIN sm' = Sms
                     /\ \A i \in Sms : Minds(sm'[i], sm[i]) \/ (i \in S /\ Disturb(S))
                     /\ RingState => \A i \in Sms : Passes(sm'[i])
    PROVE  RingInv'
<1>1. DOMAIN duty' = Sms /\ \A i \in Sms : (duty'[i] = "rings" => i = 0) /\ (duty'[i] = "answers" => i = Last)
  BY DEF RingInv, Disturb
<1>2. ASSUME Rings'
      PROVE  RingState'
  <2>1. Rings /\ met' = met /\ (Disturb(S) => 0 \notin S /\ Last \notin S)
    BY <1>2, DisturbSpares DEF Rings
  <2>2. RingState /\ 0 \in Sms /\ Last \in Sms
    BY <2>1, RingsAre
  <2>3. Minds(sm'[0], sm[0]) /\ Minds(sm'[Last], sm[Last])
    BY <1>2, <2>1, <2>2
  <2>4. Attends(sm'[0], 0, Ring) /\ Attends(sm'[Last], 1, Answer) /\ sm'[0].raised = sm[0].raised
    BY <2>2, <2>3 DEF RingState, Attends, Minds
  <2>. QED
    BY <1>2, <2>1, <2>2, <2>4 DEF RingState
<1>. QED
  BY <1>1, <1>2 DEF RingInv

LEMMA MindsPasses ==
    ASSUME NEW m, NEW n, Minds(n, m), Passes(m)
    PROVE  Passes(n)
BY DEF Minds, Passes

LEMMA BellWriteCtrl ==
    ASSUME RingInv, NEW alias, NEW value, WriteCtrl(alias, value)
    PROVE  RingInv'
<1>. DEFINE v == ControlValue(alias, value)
            n(i) == LET m == [sm[i] EXCEPT !.enabled = i \in v.enable]
                    IN IF i \in v.restart THEN Restarted(m) ELSE m
<1>1. sm' = [i \in Sms |-> n(i)] /\ Disturb(v.restart) /\ prog' = prog /\ irq' = irq
  BY Zenon DEF WriteCtrl
<1>. HIDE DEF v
<1>2. ASSUME NEW i \in Sms, i \notin v.restart
      PROVE  Minds(sm'[i], sm[i])
  <2>. DEFINE m == [sm[i] EXCEPT !.enabled = i \in v.enable]
  <2>1. sm'[i] = m
    BY <1>1, <1>2
  <2>2. Minds(m, sm[i])
    BY DEF Minds
  <2>. QED
    BY <2>1, <2>2
<1>3. ASSUME RingState, NEW i \in Sms
      PROVE  Passes(sm'[i])
  <2>1. Passes(sm[i])
    BY <1>3 DEF RingState
  <2>2. CASE i \notin v.restart
    BY <1>2, <2>1, <2>2, MindsPasses
  <2>3. CASE i \in v.restart
    <3>. DEFINE m == [sm[i] EXCEPT !.enabled = i \in v.enable]
    <3>1. sm'[i] = Restarted(m)
      BY <1>1, <2>3
    <3>2. Passes(m)
      BY <2>1 DEF Passes
    <3>. HIDE DEF m
    <3>3. Passes(Restarted(m))
      BY <3>2 DEF Restarted, Passes, Fresh
    <3>. QED
      BY <3>1, <3>3
  <2>. QED
    BY <2>2, <2>3
<1>4. DOMAIN sm' = Sms
  BY <1>1
<1>. QED
  BY <1>1, <1>2, <1>3, <1>4, BellAccess

\* An access after which every machine goes on as before
LEMMA BellHarmlessAccess ==
    ASSUME RingInv, UNCHANGED <<duty, met>> \/ \E S : Disturb(S), prog' = prog, irq' = irq,
           DOMAIN sm = Sms => DOMAIN sm' = Sms,
           RingState => \A i \in Sms : Minds(sm'[i], sm[i])
    PROVE  RingInv'
<1>1. CASE UNCHANGED <<duty, met>>
  <2>1. Rings' => Rings
    BY <1>1 DEF Rings
  <2>2. RingState => \A i \in Sms : Passes(sm'[i])
    BY MindsPasses DEF RingState
  <2>3. Rings' => RingState /\ DOMAIN sm = Sms
    BY <2>1 DEF RingInv, RingState
  <2>4. /\ Disturb({}) \/ UNCHANGED <<duty, met>>
        /\ RingState => \A i \in Sms : Minds(sm'[i], sm[i]) \/ (i \in {} /\ Disturb({}))
    BY <1>1
  <2>. QED
    BY <2>2, <2>3, <2>4, BellAccess
<1>2. ASSUME NEW S, Disturb(S)
      PROVE  RingInv'
  <2>1. Rings' => Rings
    BY <1>2, DisturbSpares
  <2>2. RingState => \A i \in Sms : Passes(sm'[i])
    BY MindsPasses DEF RingState
  <2>3. Rings' => RingState /\ DOMAIN sm = Sms
    BY <2>1 DEF RingInv, RingState
  <2>. QED
    BY <1>2, <2>2, <2>3, BellAccess
<1>. QED
  BY <1>1, <1>2

LEMMA BellRegisters ==
    ASSUME RingInv, RegisterAccess
    PROVE  RingInv'
<1>0. /\ \A i \in Sms : Minds(sm[i], sm[i])
      /\ \A m : RingState => \A i \in Sms : DOMAIN sm[i] = DOMAIN Fresh
  BY DEF Minds, RingState, Passes
<1>1. ASSUME NEW i \in Sms, NEW w \in Words, WriteTxf(i, w) PROVE RingInv'
  <2>. DEFINE n == [sm[i] EXCEPT !.tx = Append(@, w)]
  <2>1. sm' = sm \/ sm' = [sm EXCEPT ![i] = n]
    BY <1>1 DEF WriteTxf
  <2>2. Minds(n, sm[i])
    BY DEF Minds
  <2>. HIDE DEF n
  <2>3. DOMAIN sm' = DOMAIN sm /\ (DOMAIN sm = Sms => \A j \in Sms : Minds(sm'[j], sm[j]))
    BY <1>0, <2>1, <2>2
  <2>4. UNCHANGED <<duty, met, prog, irq>>
    BY <1>1 DEF WriteTxf, block
  <2>. QED
    BY <2>3, <2>4, BellHarmlessAccess DEF RingState
<1>2. ASSUME NEW i \in Sms, ReadRxf(i) PROVE RingInv'
  <2>. DEFINE n == [sm[i] EXCEPT !.rx = Tail(@)]
  <2>1. sm' = sm \/ sm' = [sm EXCEPT ![i] = n]
    BY <1>2 DEF ReadRxf
  <2>2. Minds(n, sm[i])
    BY DEF Minds
  <2>. HIDE DEF n
  <2>3. DOMAIN sm' = DOMAIN sm /\ (DOMAIN sm = Sms => \A j \in Sms : Minds(sm'[j], sm[j]))
    BY <1>0, <2>1, <2>2
  <2>4. UNCHANGED <<duty, met, prog, irq>>
    BY <1>2 DEF ReadRxf, block
  <2>. QED
    BY <2>3, <2>4, BellHarmlessAccess DEF RingState
<1>3. ASSUME NEW v, WriteFdebug(v) PROVE RingInv'
  <2>1. UNCHANGED <<duty, met, prog, irq, sm>>
    BY <1>3 DEF WriteFdebug, block
  <2>. QED
    BY <1>0, <2>1, BellHarmlessAccess
<1>4. ASSUME NEW S, WriteIrq(S) \/ WriteIrqForce(S) PROVE RingInv'
  <2>. DEFINE others == {i \in Sms : duty[i] # "copies"}
  <2>1. PICK D : /\ Disturb(D) /\ (irq' = irq \/ D = others)
    <3>1. CASE WriteIrq(S)
      <4>1. Disturb(IF S \cap irq = {} THEN {} ELSE others) /\ irq' = irq \ S
        BY <3>1, Zenon DEF WriteIrq
      <4>2. S \cap irq = {} => irq \ S = irq
        OBVIOUS
      <4>. QED
        BY <4>1, <4>2
    <3>2. CASE WriteIrqForce(S)
      <4>1. Disturb(IF S \subseteq irq THEN {} ELSE others) /\ irq' = irq \cup S
        BY <3>2, Zenon DEF WriteIrqForce
      <4>2. S \subseteq irq => irq \cup S = irq
        OBVIOUS
      <4>. QED
        BY <4>1, <4>2
    <3>. QED
      BY <1>4, <3>1, <3>2
  <2>2. prog' = prog /\ sm' = sm
    BY <1>4 DEF WriteIrq, WriteIrqForce, block
  <2>3. ASSUME Rings' PROVE irq' = irq /\ DOMAIN sm = Sms
    <3>1. 0 \notin D /\ duty[0] = "rings" /\ 0 \in Sms /\ Rings
      BY <2>1, <2>3, DisturbSpares
    <3>2. D # others
      BY <3>1
    <3>. QED
      BY <2>1, <3>1, <3>2 DEF RingInv, RingState
  <2>4. RingState => \A i \in Sms : Passes(sm'[i])
    BY <2>2 DEF RingState
  <2>. QED
    <3>. HIDE DEF others
    <3>. QED  BY <1>0, <2>1, <2>2, <2>3, <2>4, BellAccess
<1>5. ASSUME NEW alias, NEW v, WriteCtrl(alias, v) PROVE RingInv'
  BY <1>5, BellWriteCtrl
<1>6. ASSUME NEW i \in Sms, NEW d, WriteClkdiv(i, d) PROVE RingInv'
  <2>1. UNCHANGED <<duty, met, prog, irq, sm>>
    BY <1>6 DEF WriteClkdiv
  <2>. QED
    BY <1>0, <2>1, BellHarmlessAccess
<1>7. ASSUME NEW i \in Sms, NEW w \in Wraps, WriteExecctrl(i, w) PROVE RingInv'
  <2>. DEFINE n == [sm[i] EXCEPT !.wrap = w]
  <2>1. sm' = [sm EXCEPT ![i] = n] /\ Disturb({i}) /\ prog' = prog /\ irq' = irq
    BY <1>7 DEF WriteExecctrl, block
  <2>2. Passes(sm[i]) => Passes(n)
    BY WorkAssumption DEF Passes, Fresh
  <2>. HIDE DEF n
  <2>3. RingState => DOMAIN sm' = Sms /\ \A j \in Sms : Passes(sm'[j]) /\ (Minds(sm'[j], sm[j]) \/ j \in {i})
    BY <1>0, <2>1, <2>2 DEF RingState
  <2>4. Rings' => RingState
    BY <2>1, DisturbSpares DEF RingInv
  <2>. QED
    BY <2>1, <2>3, <2>4, BellAccess
<1>8. ASSUME NEW i \in Sms, NEW s, NEW tx, NEW rx, WriteShiftctrl(i, s, tx, rx) PROVE RingInv'
  <2>. DEFINE q == [sm[i] EXCEPT !.shift = s]
              n == Joined(q, tx, rx)
  <2>1. sm' = [sm EXCEPT ![i] = n] /\ Disturb({i}) /\ prog' = prog /\ irq' = irq
    BY <1>8 DEF WriteShiftctrl, block
  <2>2. Minds(n, sm[i])
    BY DEF Minds, Joined
  <2>. HIDE DEF n
  <2>3. DOMAIN sm' = DOMAIN sm /\ (DOMAIN sm = Sms => \A j \in Sms : Minds(sm'[j], sm[j]))
    BY <1>0, <2>1, <2>2
  <2>. QED
    BY <2>1, <2>3, BellHarmlessAccess DEF RingState
<1>9. ASSUME NEW a, NEW in, WriteInstrMem(a, in) PROVE RingInv'
  <2>1. Disturb(Sms)
    BY <1>9 DEF WriteInstrMem
  <2>2. ~Rings'
    BY <2>1, DisturbSpares
  <2>. QED
    BY <2>1, <2>2, BellAccess
<1>10. ASSUME NEW i \in Sms, NEW in, NEW level, WriteInstr(i, in, level) PROVE RingInv'
  <2>. DEFINE r == Exec(sm[i], irq, i, in, level)
              n == Forced(r, sm[i], in)
              D == IF in \in Harmless THEN {} ELSE {i} \cup {j \in Sms : duty[j] # "copies"}
  <2>1. sm' = [sm EXCEPT ![i] = n] /\ irq' = r.irq /\ Disturb(D) /\ prog' = prog
    BY <1>10, Zenon DEF WriteInstr, block, Forced
  <2>2. CASE in \in Harmless
    <3>1. ASSUME Rings' PROVE RingState /\ irq' = irq /\ DOMAIN sm' = Sms /\ \A j \in Sms : Minds(sm'[j], sm[j])
      <4>1. RingState
        <5>. HIDE DEF D
        <5>. QED  BY <2>1, <3>1, DisturbSpares DEF RingInv
      <4>2. DOMAIN sm[i] = DOMAIN Fresh /\ Polite(in) /\ DOMAIN sm = Sms
        BY <2>2, <4>1, WorkAssumption DEF RingState, Passes
      <4>3. LeftAlone(n, sm[i]) /\ r.irq = irq
        BY <4>2, PoliteIs
      <4>. HIDE DEF n, r
      <4>4. Minds(n, sm[i])
        BY <4>3 DEF Minds, Alike, LeftAlone
      <4>. QED
        BY <1>0, <2>1, <4>1, <4>2, <4>3, <4>4
    <3>2. RingState /\ (\A j \in Sms : Minds(sm'[j], sm[j])) => \A j \in Sms : Passes(sm'[j])
      BY MindsPasses DEF RingState
    <3>. QED
      <4>. HIDE DEF D
      <4>. QED  BY <2>1, <3>1, <3>2, BellAccess
  <2>3. CASE in \notin Harmless
    <3>1. D = {i} \cup {j \in Sms : duty[j] # "copies"}
      BY <2>3
    <3>. HIDE DEF D
    <3>2. ~Rings'
      <4>1. SUFFICES ASSUME Rings' PROVE FALSE
        OBVIOUS
      <4>2. 0 \notin D /\ duty[0] = "rings" /\ 0 \in Sms
        BY <2>1, <4>1, DisturbSpares
      <4>. QED
        BY <3>1, <4>2
    <3>. QED
      BY <2>1, <3>2, BellAccess
  <2>. QED
    BY <2>2, <2>3
<1>. QED
  BY <1>1, <1>2, <1>3, <1>4, <1>5, <1>6, <1>7, <1>8, <1>9, <1>10 DEF RegisterAccess

LEMMA BellStep ==
    ASSUME RingInv, [Next]_vars
    PROVE  RingInv'
<1>0. \A i \in Sms : Minds(sm[i], sm[i])
  BY DEF Minds
<1>1. CASE Tick
  <2>1. CASE Rings
    BY <1>1, <2>1, BellTick
  <2>2. CASE ~Rings
    <3>1. duty' = duty
      BY <1>1, ExecuteIs DEF Tick, Skip, DelaySlot, RetryPush, AwaitWord, EndTurn
    <3>. QED
      BY <2>2, <3>1 DEF RingInv, Rings
  <2>. QED
    BY <2>1, <2>2
<1>2. CASE NoAccess
  <2>1. UNCHANGED <<duty, met, prog, irq, sm>>
    BY <1>2 DEF NoAccess, block
  <2>. QED
    BY <1>0, <2>1, BellHarmlessAccess
<1>3. CASE RegisterAccess
  BY <1>3, BellRegisters
<1>4. CASE Reset
  <2>1. Disturb(Sms)
    BY <1>4 DEF Reset
  <2>2. ~Rings'
    BY <2>1, DisturbSpares
  <2>. QED
    BY <2>1, <2>2, BellAccess
<1>5. CASE UNCHANGED vars
  <2>1. UNCHANGED <<duty, met, prog, irq, sm>>
    BY <1>5 DEF vars
  <2>. QED
    BY <1>0, <2>1, BellHarmlessAccess
<1>. QED
  BY <1>1, <1>2, <1>3, <1>4, <1>5 DEF Next

\* A ring ends only after it was answered, and no ring is answered twice,
\* whatever the other machines do and the processor writes, until it interferes
\* with the two machines, their flags or their program.
THEOREM RendezvousHolds == WorkSpec => []Rendezvous
<1>1. WorkInit => RingInv
  BY RingBegins
<1>2. RingInv /\ [Next]_vars => RingInv'
  BY BellStep
<1>3. RingInv => Rendezvous
  BY RingMeans
<1>4. QED
  BY <1>1, <1>2, <1>3, PTL DEF WorkSpec

-----------------------------------------------------------------------------
(* The words on their way through a copying machine *)

\* The words d are in the RX FIFO, in the shift registers and in the TX FIFO,
\* in this order.
Flow(d, rx, u, tx) ==
    rx \in Seq(Word) /\ u \in Seq(Word) /\ tx \in Seq(Word) /\ d = (rx \o u) \o tx

LEMMA FlowBegins == Flow(<<>>, <<>>, <<>>, <<>>)
BY EmptySeq, ConcatEmptySeq DEF Flow

LEMMA FlowIsSeq ==
    ASSUME NEW d, NEW rx, NEW u, NEW tx, Flow(d, rx, u, tx)
    PROVE  d \in Seq(Word) /\ rx \o u \in Seq(Word)
BY ConcatProperties DEF Flow

LEMMA OneWord ==
    ASSUME NEW S, NEW w \in S
    PROVE  <<w>> \in Seq(S) /\ Len(<<w>>) = 1 /\ Append(<<>>, w) = <<w>>
OBVIOUS

\* A word leaves the TX FIFO for the shift registers.
LEMMA FlowTakes ==
    ASSUME NEW d, NEW rx, NEW u, NEW tx, Flow(d, rx, u, tx), tx # <<>>
    PROVE  Head(tx) \in Word /\ Flow(d, rx, u \o <<Head(tx)>>, Tail(tx))
<1>. DEFINE h == Head(tx)
            t == Tail(tx)
<1>1. rx \in Seq(Word) /\ u \in Seq(Word) /\ h \in Word /\ t \in Seq(Word)
  BY HeadTailProperties DEF Flow
<1>2. <<h>> \in Seq(Word)
  BY <1>1, OneWord
<1>3. tx = <<h>> \o t
  <2>1. <<h>> \o t \in Seq(Word) /\ Len(<<h>>) = 1
    BY <1>1, <1>2, ConcatProperties
  <2>2. Len(<<h>> \o t) = 1 + Len(t) /\ \A i \in 1 .. 1 + Len(t) :
           (<<h>> \o t)[i] = IF i <= 1 THEN <<h>>[i] ELSE t[i - 1]
    BY <1>1, <1>2, <2>1, ConcatProperties
  <2>3. Len(t) = Len(tx) - 1 /\ (\A i \in 1 .. Len(t) : t[i] = tx[i + 1]) /\ Len(tx) \in Nat /\ tx \in Seq(Word)
    BY HeadTailProperties, LenProperties DEF Flow
  <2>4. h = tx[1]
    OBVIOUS
  <2>. HIDE DEF h, t
  <2>5. \A i \in 1 .. Len(tx) : tx[i] = (<<h>> \o t)[i]
    <3>. SUFFICES ASSUME NEW i \in 1 .. Len(tx) PROVE tx[i] = (<<h>> \o t)[i]
      OBVIOUS
    <3>1. i \in 1 .. 1 + Len(t)
      BY <2>3
    <3>2. CASE i = 1
      BY <2>2, <2>4, <3>1, <3>2
    <3>3. CASE i # 1
      <4>1. i - 1 \in 1 .. Len(t) /\ (i - 1) + 1 = i /\ ~(i <= 1)
        BY <2>3, <3>3
      <4>. QED
        BY <2>2, <2>3, <3>1, <4>1
    <3>. QED
      BY <3>2, <3>3
  <2>6. Len(tx) = Len(<<h>> \o t)
    BY <2>2, <2>3
  <2>. QED
    BY <2>1, <2>3, <2>5, <2>6, SeqEqual
<1>. HIDE DEF h, t
<1>4. u \o <<h>> \in Seq(Word) /\ rx \o u \in Seq(Word)
  BY <1>1, <1>2, ConcatProperties
<1>5. (rx \o u) \o (<<h>> \o t) = ((rx \o u) \o <<h>>) \o t
  BY <1>1, <1>2, <1>4, ConcatAssociative
<1>6. (rx \o u) \o <<h>> = rx \o (u \o <<h>>)
  BY <1>1, <1>2, ConcatAssociative
<1>7. Flow(d, rx, u \o <<h>>, t)
  BY <1>1, <1>3, <1>4, <1>5, <1>6 DEF Flow
<1>. QED
  BY <1>1, <1>7 DEF h, t

\* The oldest word in the shift registers goes to the RX FIFO.
LEMMA FlowGives ==
    ASSUME NEW d, NEW rx, NEW w, NEW v \in Seq(Word), NEW tx, w \in Word, Flow(d, rx, <<w>> \o v, tx)
    PROVE  Flow(d, Append(rx, w), v, tx)
<1>1. <<w>> \in Seq(Word) /\ rx \in Seq(Word) /\ tx \in Seq(Word)
  BY OneWord DEF Flow
<1>2. Append(rx, w) = rx \o <<w>> /\ Append(rx, w) \in Seq(Word)
  BY <1>1, AppendIsConcat, AppendProperties
<1>3. (rx \o <<w>>) \o v = rx \o (<<w>> \o v)
  BY <1>1, ConcatAssociative
<1>. QED
  BY <1>1, <1>2, <1>3 DEF Flow

\* The shift registers hold at most two words.
LEMMA TwoWords ==
    ASSUME NEW w \in Word, NEW v \in Word
    PROVE  /\ <<>> \o <<w>> = <<w>> /\ <<w>> \o <<>> = <<w>> /\ <<w>> \o <<v>> = <<w, v>>
           /\ <<w>> \in Seq(Word) /\ <<>> \in Seq(Word)
<1>1. <<w>> \in Seq(Word) /\ <<v>> \in Seq(Word) /\ <<>> \in Seq(Word)
  BY OneWord, EmptySeq
<1>2. Append(<<w>>, v) = <<w, v>>
  <2>1. /\ Append(<<w>>, v) \in Seq(Word) /\ Len(Append(<<w>>, v)) = 2
        /\ Append(<<w>>, v)[1] = w /\ Append(<<w>>, v)[2] = v
    <3>1. /\ Append(<<w>>, v) \in Seq(Word) /\ Len(Append(<<w>>, v)) = Len(<<w>>) + 1
          /\ \A i \in 1 .. Len(<<w>>) : Append(<<w>>, v)[i] = <<w>>[i]
          /\ Append(<<w>>, v)[Len(<<w>>) + 1] = v
      BY <1>1, AppendProperties
    <3>2. Len(<<w>>) = 1 /\ <<w>>[1] = w
      OBVIOUS
    <3>. QED
      BY <3>1, <3>2
  <2>2. <<w, v>> \in Seq(Word) /\ Len(<<w, v>>) = 2 /\ <<w, v>>[1] = w /\ <<w, v>>[2] = v
    OBVIOUS
  <2>3. \A i \in 1 .. 2 : i = 1 \/ i = 2
    OBVIOUS
  <2>4. \A i \in 1 .. 2 : Append(<<w>>, v)[i] = <<w, v>>[i]
    BY <2>1, <2>2, <2>3
  <2>. QED
    BY <2>1, <2>2, <2>4, SeqEqual
<1>3. Append(<<w>>, v) = <<w>> \o <<v>>
  BY <1>1, AppendIsConcat
<1>. QED
  BY <1>1, <1>2, <1>3, ConcatEmptySeq

LEMMA FlowTakesFirst ==
    ASSUME NEW d, NEW rx, NEW tx, Flow(d, rx, <<>>, tx), tx # <<>>
    PROVE  Head(tx) \in Word /\ Flow(d, rx, <<Head(tx)>>, Tail(tx))
<1>1. Head(tx) \in Word /\ Flow(d, rx, <<>> \o <<Head(tx)>>, Tail(tx))
  BY FlowTakes
<1>. QED
  BY <1>1, TwoWords

LEMMA FlowTakesSecond ==
    ASSUME NEW d, NEW rx, NEW w, NEW tx, Flow(d, rx, <<w>>, tx), tx # <<>>
    PROVE  Head(tx) \in Word /\ Flow(d, rx, <<w, Head(tx)>>, Tail(tx))
<1>1. Head(tx) \in Word /\ Flow(d, rx, <<w>> \o <<Head(tx)>>, Tail(tx))
  BY FlowTakes
<1>2. w \in Word
  BY DEF Flow
<1>3. <<w>> \o <<Head(tx)>> = <<w, Head(tx)>>
  BY <1>1, <1>2, TwoWords
<1>. QED
  BY <1>1, <1>3

LEMMA FlowGivesOnly ==
    ASSUME NEW d, NEW rx, NEW w, NEW tx, Flow(d, rx, <<w>>, tx)
    PROVE  w \in Word /\ Flow(d, Append(rx, w), <<>>, tx)
<1>1. w \in Word
  BY DEF Flow
<1>2. Flow(d, rx, <<w>> \o <<>>, tx) /\ <<>> \in Seq(Word)
  BY <1>1, TwoWords
<1>. QED
  BY <1>1, <1>2, FlowGives

LEMMA FlowGivesFirst ==
    ASSUME NEW d, NEW rx, NEW w, NEW v, NEW tx, Flow(d, rx, <<w, v>>, tx)
    PROVE  w \in Word /\ v \in Word /\ Flow(d, Append(rx, w), <<v>>, tx)
<1>1. w \in Word /\ v \in Word
  <2>1. <<w, v>>[1] = w /\ <<w, v>>[2] = v /\ Len(<<w, v>>) = 2
    OBVIOUS
  <2>2. <<w, v>>[1] \in Word /\ <<w, v>>[2] \in Word
    BY <2>1, ElementOfSeq DEF Flow
  <2>. QED
    BY <2>1, <2>2
<1>2. Flow(d, rx, <<w>> \o <<v>>, tx) /\ <<v>> \in Seq(Word)
  BY <1>1, TwoWords
<1>. QED
  BY <1>1, <1>2, FlowGives

\* The processor gives a word.
LEMMA FlowGrows ==
    ASSUME NEW d, NEW rx, NEW u, NEW tx, Flow(d, rx, u, tx), NEW w \in Word
    PROVE  Flow(Append(d, w), rx, u, Append(tx, w))
<1>1. <<w>> \in Seq(Word) /\ rx \o u \in Seq(Word) /\ tx \in Seq(Word) /\ d \in Seq(Word)
  BY OneWord, FlowIsSeq DEF Flow
<1>2. Append(tx, w) = tx \o <<w>> /\ Append(tx, w) \in Seq(Word)
  BY <1>1, AppendIsConcat, AppendProperties
<1>3. Append(d, w) = d \o <<w>>
  BY <1>1, AppendIsConcat
<1>4. ((rx \o u) \o tx) \o <<w>> = (rx \o u) \o (tx \o <<w>>)
  <2>1. \A s, t, v \in Seq(Word) : (s \o t) \o v = s \o (t \o v)
    BY ConcatAssociative
  <2>. QED
    BY <1>1, <2>1, Zenon
<1>. QED
  BY <1>2, <1>3, <1>4 DEF Flow

\* The processor reads a word.
LEMMA FlowShrinks ==
    ASSUME NEW d, NEW rx, NEW u, NEW tx, Flow(d, rx, u, tx), rx # <<>>
    PROVE  d # <<>> /\ Flow(Tail(d), Tail(rx), u, tx)
<1>1. rx \in Seq(Word) /\ u \in Seq(Word) /\ tx \in Seq(Word) /\ rx \o u \in Seq(Word) /\ d \in Seq(Word)
  BY FlowIsSeq DEF Flow
<1>2. ASSUME NEW s \in Seq(Word), NEW t \in Seq(Word), s # <<>>
      PROVE  s \o t # <<>> /\ Tail(s \o t) = Tail(s) \o t
  <2>1. Len(s) \in Nat \ {0} /\ Len(t) \in Nat
    BY <1>2, EmptySeq, LenProperties
  <2>2. /\ s \o t \in Seq(Word) /\ Len(s \o t) = Len(s) + Len(t)
        /\ \A i \in 1 .. Len(s) + Len(t) : (s \o t)[i] = IF i <= Len(s) THEN s[i] ELSE t[i - Len(s)]
    BY ConcatProperties
  <2>3. s \o t # <<>>
    BY <2>1, <2>2, EmptySeq
  <2>4. /\ Tail(s) \in Seq(Word) /\ Len(Tail(s)) = Len(s) - 1
        /\ \A i \in 1 .. Len(Tail(s)) : Tail(s)[i] = s[i + 1]
    BY <1>2, HeadTailProperties
  <2>5. /\ Tail(s \o t) \in Seq(Word) /\ Len(Tail(s \o t)) = Len(s \o t) - 1
        /\ \A i \in 1 .. Len(Tail(s \o t)) : Tail(s \o t)[i] = (s \o t)[i + 1]
    BY <2>2, <2>3, HeadTailProperties
  <2>6. /\ Tail(s) \o t \in Seq(Word) /\ Len(Tail(s) \o t) = Len(Tail(s)) + Len(t)
        /\ \A i \in 1 .. Len(Tail(s)) + Len(t) :
              (Tail(s) \o t)[i] = IF i <= Len(Tail(s)) THEN Tail(s)[i] ELSE t[i - Len(Tail(s))]
    BY <2>4, ConcatProperties
  <2>. DEFINE a == Tail(s)
              b == Tail(s \o t)
              c == Tail(s) \o t
              e == s \o t
  <2>7. \A i \in 1 .. Len(b) : b[i] = c[i]
    <3>. SUFFICES ASSUME NEW i \in 1 .. Len(b) PROVE b[i] = c[i]
      OBVIOUS
    <3>. HIDE DEF a, b, c, e
    <3>1. b[i] = e[i + 1] /\ i + 1 \in 1 .. Len(s) + Len(t) /\ i \in 1 .. Len(a) + Len(t)
      BY <2>1, <2>2, <2>4, <2>5 DEF a, b, e
    <3>2. CASE i <= Len(a)
      BY <2>1, <2>2, <2>4, <2>6, <3>1, <3>2 DEF a, c, e
    <3>3. CASE ~(i <= Len(a))
      <4>1. ~(i + 1 <= Len(s)) /\ (i + 1) - Len(s) = i - Len(a)
        BY <2>1, <2>4, <3>3 DEF a
      <4>. QED
        BY <2>2, <2>6, <3>1, <3>3, <4>1 DEF a, c, e
    <3>. QED
      BY <3>2, <3>3
  <2>8. Len(b) = Len(c)
    BY <2>1, <2>2, <2>4, <2>5, <2>6
  <2>9. b = c
    <3>. HIDE DEF b, c
    <3>1. b \in Seq(Word) /\ c \in Seq(Word)
      BY <2>5, <2>6 DEF b, c
    <3>. QED  BY <2>7, <2>8, <3>1, SeqEqual
  <2>. QED
    BY <2>3, <2>9
<1>3. rx \o u # <<>> /\ Tail(rx \o u) = Tail(rx) \o u
  BY <1>1, <1>2
<1>4. (rx \o u) \o tx # <<>> /\ Tail((rx \o u) \o tx) = Tail(rx \o u) \o tx
  BY <1>1, <1>2, <1>3
<1>5. Tail(rx) \in Seq(Word)
  BY <1>1, HeadTailProperties
<1>. QED
  BY <1>1, <1>3, <1>4, <1>5 DEF Flow

\* The words that are read next are those that were given first.
LEMMA FlowMeans ==
    ASSUME NEW d, NEW rx, NEW u, NEW tx, Flow(d, rx, u, tx)
    PROVE  IsPrefixOf(rx, d) /\ (u = <<>> /\ tx = <<>> => rx = d)
<1>. DEFINE n == Len(rx)
<1>1. rx \in Seq(Word) /\ u \in Seq(Word) /\ tx \in Seq(Word) /\ u \o tx \in Seq(Word) /\ d \in Seq(Word)
  BY FlowIsSeq, ConcatProperties DEF Flow
<1>2. d = rx \o (u \o tx)
  BY <1>1, ConcatAssociative DEF Flow
<1>3. n \in Nat /\ Len(u \o tx) \in Nat /\ Len(d) = n + Len(u \o tx)
      /\ \A i \in 1 .. n : d[i] = rx[i]
  <2>1. Len(rx) \in Nat /\ Len(u \o tx) \in Nat
    BY <1>1, LenProperties
  <2>2. /\ Len(d) = Len(rx) + Len(u \o tx)
        /\ \A i \in 1 .. Len(rx) + Len(u \o tx) : d[i] = IF i <= Len(rx) THEN rx[i] ELSE (u \o tx)[i - Len(rx)]
    BY <1>1, <1>2, ConcatProperties
  <2>. QED
    BY <2>1, <2>2
<1>4. SubSeq(d, 1, n) \in Seq(Word) /\ Len(SubSeq(d, 1, n)) = n /\ \A i \in 1 .. n : SubSeq(d, 1, n)[i] = d[i]
  <2>1. \A i \in 1 .. n : d[i] \in Word
    <3>. HIDE DEF n
    <3>1. \A i \in 1 .. n : i \in 1 .. Len(d)
      BY <1>3
    <3>. QED  BY <1>1, <3>1, ElementOfSeq
  <2>. HIDE DEF n
  <2>2. /\ SubSeq(d, 1, n) \in Seq(Word)
        /\ Len(SubSeq(d, 1, n)) = IF 1 <= n THEN n - 1 + 1 ELSE 0
        /\ \A i \in 1 .. n - 1 + 1 : SubSeq(d, 1, n)[i] = d[1 + i - 1]
    BY <1>3, <2>1, SubSeqProperties, 1 \in Int, n \in Int
  <2>. QED
    BY <1>3, <2>2
<1>5. rx = SubSeq(d, 1, n)
  <2>1. \A i \in 1 .. Len(rx) : rx[i] = SubSeq(d, 1, n)[i]
    BY <1>3, <1>4
  <2>2. Len(rx) = Len(SubSeq(d, 1, n))
    BY <1>4
  <2>. QED
    BY <1>1, <1>4, <2>1, <2>2, SeqEqual
<1>6. n <= Len(d)
  BY <1>3
<1>7. ASSUME u = <<>>, tx = <<>>
      PROVE  rx = d
  BY <1>1, <1>7, ConcatEmptySeq DEF Flow
<1>. QED
  BY <1>5, <1>6, <1>7 DEF IsPrefixOf

-----------------------------------------------------------------------------
(* A word that is shifted through the registers bit by bit *)

\* The first k bits of the word w are in the ISR, and the others in the OSR.
HalfRight(isr, osr, k, w) ==
    \E r \in 0 .. PowerOfTwo[k] - 1 :
        /\ w = osr * PowerOfTwo[k] + r /\ isr = r * PowerOfTwo[Width - k]
        /\ osr \in 0 .. PowerOfTwo[Width - k] - 1
HalfLeft(isr, osr, k, w) ==
    \E r \in 0 .. PowerOfTwo[Width - k] - 1 :
        /\ w = isr * PowerOfTwo[Width - k] + r /\ osr = r * PowerOfTwo[k]
        /\ isr \in 0 .. PowerOfTwo[k] - 1
Half(right, isr, osr, k, w) ==
    w \in Word /\ IF right THEN HalfRight(isr, osr, k, w) ELSE HalfLeft(isr, osr, k, w)

\* The bit between them is in X.
SplitRight(isr, osr, x, k, w) ==
    \E r \in 0 .. PowerOfTwo[k] - 1 :
        /\ w = osr * PowerOfTwo[k + 1] + (x * PowerOfTwo[k] + r)
        /\ isr = r * PowerOfTwo[Width - k] /\ x \in {0, 1}
        /\ osr \in 0 .. PowerOfTwo[Width - (k + 1)] - 1
SplitLeft(isr, osr, x, k, w) ==
    \E r \in 0 .. PowerOfTwo[Width - (k + 1)] - 1 :
        /\ w = isr * PowerOfTwo[Width - k] + (x * PowerOfTwo[Width - (k + 1)] + r)
        /\ osr = r * PowerOfTwo[k + 1] /\ x \in {0, 1}
        /\ isr \in 0 .. PowerOfTwo[k] - 1
Split(right, isr, osr, x, k, w) ==
    w \in Word /\ IF right THEN SplitRight(isr, osr, x, k, w) ELSE SplitLeft(isr, osr, x, k, w)

\* OUT X, 1 and IN X, 1
FirstBit(right, osr) == IF right THEN osr % PowerOfTwo[1] ELSE osr \div PowerOfTwo[Width - 1]
Without(right, osr) ==
    IF right THEN osr \div PowerOfTwo[1] ELSE (osr * PowerOfTwo[1]) % PowerOfTwo[Width]
WithBit(right, isr, x) ==
    IF right THEN (isr \div PowerOfTwo[1]) + (x % PowerOfTwo[1]) * PowerOfTwo[Width - 1]
    ELSE (isr * PowerOfTwo[1] + (x % PowerOfTwo[1])) % PowerOfTwo[Width]

\* With k bits of a word out of Width shifted
LEMMA ShiftPowers ==
    ASSUME NEW k \in 0 .. Width - 1
    PROVE  \E p \in Nat \ {0}, q \in Nat \ {0} :
              /\ PowerOfTwo[k] = p /\ PowerOfTwo[Width - (k + 1)] = q /\ PowerOfTwo[1] = 2
              /\ PowerOfTwo[k + 1] = 2 * p /\ PowerOfTwo[Width - k] = 2 * q
              /\ PowerOfTwo[Width] = 2 * (p * q) /\ PowerOfTwo[Width - 1] = p * q /\ p * q \in Nat \ {0}
<1>1. Width \in Nat \ {0}
  BY PioAssumption
<1>2. \E p \in Nat \ {0}, q \in Nat \ {0} : Around(Width, k, p, q)
  BY <1>1, PowersAround
<1>. QED
  BY <1>2, Zenon DEF Around

\* A word that was just taken
LEMMA HalfBegins ==
    ASSUME NEW right \in BOOLEAN, NEW w \in Word
    PROVE  Half(right, 0, w, 0, w)
<1>1. Width - 0 = Width /\ PowerOfTwo[0] = 1 /\ PowerOfTwo[Width] \in Nat /\ Width \in Nat
  BY PowersOfTwo, PioAssumption
<1>2. w \in 0 .. PowerOfTwo[Width] - 1
  BY DEF Word
<1>3. 0 \in 0 .. 1 - 1 /\ w = w * 1 + 0 /\ 0 = 0 * PowerOfTwo[Width] /\ w = 0 * PowerOfTwo[Width] + w
      /\ w = w * 1
  BY <1>1, <1>2
<1>4. HalfRight(0, w, 0, w)
  BY <1>1, <1>2, <1>3 DEF HalfRight
<1>5. HalfLeft(0, w, 0, w)
  BY <1>1, <1>2, <1>3 DEF HalfLeft
<1>. QED
  BY <1>4, <1>5 DEF Half

\* A word of which every bit has been shifted
LEMMA HalfEnds ==
    ASSUME NEW right \in BOOLEAN, NEW isr, NEW osr, NEW w, Half(right, isr, osr, Width, w)
    PROVE  isr = w
<1>1. Width - Width = 0 /\ PowerOfTwo[0] = 1 /\ PowerOfTwo[Width] \in Nat /\ Width \in Nat
  BY PowersOfTwo, PioAssumption
<1>2. w \in Int
  BY <1>1 DEF Half, Word
<1>3. CASE HalfRight(isr, osr, Width, w)
  <2>1. PICK r \in 0 .. PowerOfTwo[Width] - 1 :
          w = osr * PowerOfTwo[Width] + r /\ isr = r * 1 /\ osr \in 0 .. 1 - 1
    BY <1>1, <1>3 DEF HalfRight
  <2>2. osr = 0 /\ 0 * PowerOfTwo[Width] = 0
    BY <1>1, <2>1
  <2>. QED
    BY <1>1, <2>1, <2>2
<1>4. CASE HalfLeft(isr, osr, Width, w)
  <2>1. PICK r \in 0 .. 1 - 1 : w = isr * 1 + r /\ isr \in 0 .. PowerOfTwo[Width] - 1
    BY <1>1, <1>4 DEF HalfLeft
  <2>. QED
    BY <1>1, <2>1
<1>. QED
  BY <1>3, <1>4 DEF Half

LEMMA OutRight ==
    ASSUME NEW p \in Nat \ {0}, NEW q \in Nat \ {0}, NEW osr \in 0 .. 2 * q - 1, NEW r \in 0 .. p - 1
    PROVE  /\ osr % 2 \in {0, 1} /\ osr \div 2 \in 0 .. q - 1
           /\ osr * p + r = (osr \div 2) * (2 * p) + ((osr % 2) * p + r)
<1>. DEFINE h == osr \div 2
            b == osr % 2
<1>1. h \in Int /\ b \in {0, 1} /\ osr = 2 * h + b
  OBVIOUS
<1>. HIDE DEF h, b
<1>2. h \in 0 .. q - 1
  BY <1>1
<1>3. osr * p = (2 * h) * p + b * p
  BY <1>1
<1>4. (2 * h) * p = h * (2 * p)
  BY <1>1
<1>5. (2 * h) * p \in Int /\ b * p \in Int /\ r \in Int
  BY <1>1
<1>6. osr * p + r = h * (2 * p) + (b * p + r)
  BY <1>3, <1>4, <1>5
<1>. QED
  BY <1>1, <1>2, <1>6 DEF h, b

LEMMA OutLeft ==
    ASSUME NEW p \in Nat \ {0}, NEW q \in Nat \ {0}, NEW r \in 0 .. 2 * q - 1, p * q \in Nat \ {0}
    PROVE  \E x \in {0, 1}, s \in 0 .. q - 1 :
              /\ r = x * q + s /\ (r * p) \div (p * q) = x
              /\ ((r * p) * 2) % (2 * (p * q)) = s * (2 * p)
<1>. DEFINE x == IF r < q THEN 0 ELSE 1
            s == r - x * q
            n == p * q
<1>1. x \in {0, 1} /\ s \in 0 .. q - 1 /\ r = x * q + s
  OBVIOUS
<1>. HIDE DEF x, s
<1>2. r * p = x * n + s * p
  <2>1. r * p = (x * q) * p + s * p
    BY <1>1
  <2>2. (x * q) * p = x * (p * q)
    BY <1>1
  <2>. QED
    BY <2>1, <2>2
<1>3. s * p \in 0 .. n - 1
  <2>1. s * p <= (q - 1) * p /\ s * p >= 0
    BY <1>1
  <2>2. (q - 1) * p = p * q - p
    OBVIOUS
  <2>3. s * p \in Int
    BY <1>1
  <2>. QED
    BY <2>1, <2>2, <2>3
<1>. HIDE DEF n
<1>4. n \in Nat \ {0}
  BY DEF n
<1>5. (r * p) \div n = x
  BY <1>1, <1>2, <1>3, <1>4, QuotientIs, x \in Int
<1>6. ((r * p) * 2) % (2 * n) = (s * p) * 2
  <2>1. (r * p) * 2 = x * (2 * n) + (s * p) * 2
    <3>1. s * p \in Int /\ x * n \in Int
      BY <1>1, <1>3, <1>4
    <3>2. (x * n) * 2 = x * (2 * n)
      BY <1>1, <1>4
    <3>. QED
      BY <1>2, <3>1, <3>2
  <2>2. (s * p) * 2 \in 0 .. 2 * n - 1 /\ 2 * n \in Nat \ {0}
    BY <1>3, <1>4
  <2>. QED
    BY <1>1, <2>1, <2>2, Residue, x \in Int
<1>7. (s * p) * 2 = s * (2 * p)
  BY <1>1
<1>. QED
  BY <1>1, <1>5, <1>6, <1>7 DEF n

LEMMA HalfSplits ==
    ASSUME NEW right \in BOOLEAN, NEW isr, NEW osr, NEW k \in 0 .. Width - 1, NEW w,
           Half(right, isr, osr, k, w)
    PROVE  Split(right, isr, Without(right, osr), FirstBit(right, osr), k, w)
<1>1. PICK p \in Nat \ {0}, q \in Nat \ {0} :
              /\ PowerOfTwo[k] = p /\ PowerOfTwo[Width - (k + 1)] = q /\ PowerOfTwo[1] = 2
              /\ PowerOfTwo[k + 1] = 2 * p /\ PowerOfTwo[Width - k] = 2 * q
              /\ PowerOfTwo[Width] = 2 * (p * q) /\ PowerOfTwo[Width - 1] = p * q /\ p * q \in Nat \ {0}
  BY ShiftPowers
<1>2. CASE right = TRUE
  <2>1. PICK r \in 0 .. p - 1 : w = osr * p + r /\ isr = r * (2 * q) /\ osr \in 0 .. 2 * q - 1
    BY <1>1, <1>2 DEF Half, HalfRight
  <2>2. /\ osr % 2 \in {0, 1} /\ osr \div 2 \in 0 .. q - 1
        /\ w = (osr \div 2) * (2 * p) + ((osr % 2) * p + r)
    BY <2>1, OutRight
  <2>3. SplitRight(isr, osr \div 2, osr % 2, k, w)
    BY <1>1, <2>1, <2>2 DEF SplitRight
  <2>. QED
    BY <1>1, <1>2, <2>3 DEF Half, Split, Without, FirstBit
<1>3. CASE right = FALSE
  <2>1. PICK r \in 0 .. 2 * q - 1 : w = isr * (2 * q) + r /\ osr = r * p /\ isr \in 0 .. p - 1
    BY <1>1, <1>3 DEF Half, HalfLeft
  <2>2. PICK x \in {0, 1}, s \in 0 .. q - 1 :
              /\ r = x * q + s /\ osr \div (p * q) = x /\ (osr * 2) % (2 * (p * q)) = s * (2 * p)
    <3>1. p * q \in Nat \ {0}
      BY <1>1
    <3>2. PICK x \in {0, 1}, s \in 0 .. q - 1 :
              /\ r = x * q + s /\ (r * p) \div (p * q) = x
              /\ ((r * p) * 2) % (2 * (p * q)) = s * (2 * p)
      BY <3>1, OutLeft
    <3>3. osr = r * p
      BY <2>1
    <3>4. osr \div (p * q) = x /\ (osr * 2) % (2 * (p * q)) = s * (2 * p)
      BY <3>2, <3>3, Zenon
    <3>. QED
      BY <3>2, <3>4
  <2>3. SplitLeft(isr, s * (2 * p), x, k, w)
    BY <1>1, <2>1, <2>2 DEF SplitLeft
  <2>4. Without(right, osr) = s * (2 * p) /\ FirstBit(right, osr) = x
    BY <1>1, <1>3, <2>2 DEF Without, FirstBit
  <2>. QED
    BY <1>3, <2>3, <2>4 DEF Half, Split
<1>. QED
  BY <1>2, <1>3

LEMMA InRight ==
    ASSUME NEW p \in Nat \ {0}, NEW q \in Nat \ {0}, NEW r \in 0 .. p - 1, NEW x \in {0, 1}
    PROVE  /\ x * p + r \in 0 .. 2 * p - 1
           /\ ((r * (2 * q)) \div 2) + x * (p * q) = (x * p + r) * q
<1>1. x * p + r \in 0 .. 2 * p - 1
  OBVIOUS
<1>2. (r * (2 * q)) \div 2 = r * q
  <2>1. r * (2 * q) = (r * q) * 2 + 0 /\ r * q \in Int
    OBVIOUS
  <2>2. ((r * q) * 2 + 0) \div 2 = r * q
    BY <2>1, QuotientIs, 2 \in Nat \ {0}, 0 \in 0 .. 2 - 1
  <2>. QED
    BY <2>1, <2>2
<1>3. x * (p * q) = (x * p) * q
  OBVIOUS
<1>4. (x * p + r) * q = (x * p) * q + r * q
  OBVIOUS
<1>5. r * q \in Int /\ (x * p) * q \in Int
  OBVIOUS
<1>. QED
  BY <1>1, <1>2, <1>3, <1>4, <1>5

LEMMA InLeft ==
    ASSUME NEW p \in Nat \ {0}, NEW q \in Nat \ {0}, NEW isr \in 0 .. p - 1, NEW x \in {0, 1},
           NEW r \in 0 .. q - 1
    PROVE  /\ isr * 2 + x \in 0 .. 2 * p - 1
           /\ (isr * 2 + x) % (2 * (p * q)) = isr * 2 + x
           /\ isr * (2 * q) + (x * q + r) = (isr * 2 + x) * q + r
<1>1. isr * 2 + x \in 0 .. 2 * p - 1
  OBVIOUS
<1>2. p <= p * q /\ p * q \in Nat
  OBVIOUS
<1>3. isr * 2 + x \in 0 .. 2 * (p * q) - 1 /\ 2 * (p * q) \in Nat \ {0}
  BY <1>1, <1>2
<1>4. (isr * 2 + x) % (2 * (p * q)) = isr * 2 + x
  <2>1. (0 * (2 * (p * q)) + (isr * 2 + x)) % (2 * (p * q)) = isr * 2 + x
    BY <1>3, Residue, 0 \in Int
  <2>2. 0 * (2 * (p * q)) + (isr * 2 + x) = isr * 2 + x
    BY <1>3
  <2>. QED
    BY <2>1, <2>2
<1>5. (isr * 2 + x) * q = isr * (2 * q) + x * q
  OBVIOUS
<1>6. isr * (2 * q) \in Int /\ x * q \in Int /\ r \in Int
  OBVIOUS
<1>. QED
  BY <1>1, <1>4, <1>5, <1>6

LEMMA SplitJoins ==
    ASSUME NEW right \in BOOLEAN, NEW isr, NEW osr, NEW x, NEW k \in 0 .. Width - 1, NEW w,
           Split(right, isr, osr, x, k, w)
    PROVE  Half(right, WithBit(right, isr, x), osr, k + 1, w)
<1>1. PICK p \in Nat \ {0}, q \in Nat \ {0} :
              /\ PowerOfTwo[k] = p /\ PowerOfTwo[Width - (k + 1)] = q /\ PowerOfTwo[1] = 2
              /\ PowerOfTwo[k + 1] = 2 * p /\ PowerOfTwo[Width - k] = 2 * q
              /\ PowerOfTwo[Width] = 2 * (p * q) /\ PowerOfTwo[Width - 1] = p * q /\ p * q \in Nat \ {0}
  BY ShiftPowers
<1>2. x \in {0, 1} => x % 2 = x
  OBVIOUS
<1>3. CASE right = TRUE
  <2>1. PICK r \in 0 .. p - 1 :
          w = osr * (2 * p) + (x * p + r) /\ isr = r * (2 * q) /\ x \in {0, 1} /\ osr \in 0 .. q - 1
    BY <1>1, <1>3 DEF Split, SplitRight
  <2>2. x * p + r \in 0 .. 2 * p - 1 /\ (isr \div 2) + x * (p * q) = (x * p + r) * q
    BY <2>1, InRight
  <2>3. HalfRight((x * p + r) * q, osr, k + 1, w)
    BY <1>1, <2>1, <2>2 DEF HalfRight
  <2>4. WithBit(right, isr, x) = (x * p + r) * q
    BY <1>1, <1>2, <1>3, <2>1, <2>2 DEF WithBit
  <2>. QED
    BY <1>3, <2>3, <2>4 DEF Split, Half
<1>4. CASE right = FALSE
  <2>1. PICK r \in 0 .. q - 1 :
          w = isr * (2 * q) + (x * q + r) /\ osr = r * (2 * p) /\ x \in {0, 1} /\ isr \in 0 .. p - 1
    BY <1>1, <1>4 DEF Split, SplitLeft
  <2>2. /\ isr * 2 + x \in 0 .. 2 * p - 1 /\ (isr * 2 + x) % (2 * (p * q)) = isr * 2 + x
        /\ w = (isr * 2 + x) * q + r
    BY <2>1, InLeft
  <2>3. HalfLeft(isr * 2 + x, osr, k + 1, w)
    BY <1>1, <2>1, <2>2 DEF HalfLeft
  <2>4. WithBit(right, isr, x) = isr * 2 + x
    BY <1>1, <1>2, <1>4, <2>1, <2>2 DEF WithBit
  <2>. QED
    BY <1>4, <2>3, <2>4 DEF Split, Half
<1>. QED
  BY <1>3, <1>4

\* The last bit completes the word.
LEMMA LastBit ==
    ASSUME NEW right \in BOOLEAN, NEW isr, NEW osr, NEW x, NEW k \in 0 .. Width - 1, k + 1 = Width,
           NEW w, Split(right, isr, osr, x, k, w)
    PROVE  WithBit(right, isr, x) = w
<1>1. Half(right, WithBit(right, isr, x), osr, k + 1, w)
  BY SplitJoins
<1>. QED
  BY <1>1, HalfEnds

-----------------------------------------------------------------------------
(* The turn in which a copying machine executes an instruction *)

\* n holds what m holds.
Held(n, m) ==
    /\ DOMAIN n = DOMAIN Fresh
    /\ n.x = m.x /\ n.osr = m.osr /\ n.isr = m.isr /\ n.out = m.out /\ n.in = m.in
    /\ n.tx = m.tx /\ n.rx = m.rx /\ n.shift = m.shift /\ n.wrap = m.wrap

\* The instruction is over, or it waits; it made z of the machine.
Goes(n, z) == Held(n, z) /\ n.pc = Advanced(z).pc /\ n.stall = "none"
Waits(n, z) ==
    /\ Held(n, z) /\ n.pc = z.pc /\ n.cur = z.cur
    /\ n.stall = IF z.stall = "none" THEN "instr" ELSE z.stall

LEMMA RetiredGoes ==
    ASSUME NEW z, DOMAIN z = DOMAIN Fresh, NEW f
    PROVE  Goes(After(Retired(z, f)), z)
<1>. DEFINE n == After(Retired(z, f))
            a == Advanced(z)
<1>1. Alike(n, a) /\ n.stall = "none"
  BY RetiredIs
<1>2. /\ DOMAIN a = DOMAIN Fresh /\ a.x = z.x /\ a.osr = z.osr /\ a.isr = z.isr /\ a.out = z.out
      /\ a.in = z.in /\ a.tx = z.tx /\ a.rx = z.rx /\ a.shift = z.shift /\ a.wrap = z.wrap
  BY DEF Advanced
<1>. HIDE DEF n, a
<1>3. Held(n, z) /\ n.pc = a.pc
  BY <1>1, <1>2 DEF Alike, Held
<1>. QED
  BY <1>1, <1>3 DEF Goes, n, a

LEMMA StuckWaits ==
    ASSUME NEW z, DOMAIN z = DOMAIN Fresh, NEW f
    PROVE  Waits(After(Stuck(z, f)), z)
<1>. DEFINE n == After(Stuck(z, f))
<1>1. Alike(n, z) /\ n.stall = IF z.stall = "none" THEN "instr" ELSE z.stall
  BY StuckIs
<1>. HIDE DEF n
<1>2. Waits(n, z)
  BY <1>1 DEF Alike, Held, Waits
<1>. QED
  BY <1>2 DEF n

\* p is m with a word taken from the TX FIFO, or given to the RX FIFO.
Took(p, m) ==
    /\ DOMAIN p = DOMAIN Fresh
    /\ p.osr = Head(m.tx) /\ p.tx = Tail(m.tx) /\ p.out = 0
    /\ p.pc = m.pc /\ p.x = m.x /\ p.isr = m.isr /\ p.in = m.in /\ p.rx = m.rx
    /\ p.shift = m.shift /\ p.wrap = m.wrap /\ p.cur = m.cur /\ p.stall = m.stall
Gave(p, m) ==
    /\ DOMAIN p = DOMAIN Fresh
    /\ p.rx = Append(m.rx, m.isr) /\ p.isr = 0 /\ p.in = 0
    /\ p.pc = m.pc /\ p.x = m.x /\ p.osr = m.osr /\ p.out = m.out /\ p.tx = m.tx
    /\ p.shift = m.shift /\ p.wrap = m.wrap /\ p.cur = m.cur /\ p.stall = m.stall

LEMMA PulledTook ==
    ASSUME NEW m, DOMAIN m = DOMAIN Fresh
    PROVE  Took(Pulled(m), m)
<1>. DEFINE p == Pulled(m)
<1>1. p = [m EXCEPT !.osr = Head(m.tx), !.tx = Tail(m.tx), !.out = 0]
  BY DEF Pulled
<1>. HIDE DEF p
<1>2. Took(p, m)
  BY <1>1 DEF Took, Fresh
<1>. QED
  BY <1>2 DEF p

LEMMA PushedGave ==
    ASSUME NEW m, DOMAIN m = DOMAIN Fresh
    PROVE  Gave(Pushed(m), m)
<1>. DEFINE p == Pushed(m)
            e == [m EXCEPT !.rx = Append(@, m.isr)]
<1>1. p = [e EXCEPT !.isr = 0, !.in = 0]
  BY DEF Pushed, Emptied
<1>2. /\ DOMAIN e = DOMAIN Fresh /\ e.rx = Append(m.rx, m.isr) /\ e.pc = m.pc /\ e.x = m.x
      /\ e.osr = m.osr /\ e.out = m.out /\ e.tx = m.tx
      /\ e.shift = m.shift /\ e.wrap = m.wrap /\ e.cur = m.cur /\ e.stall = m.stall
  BY DEF Fresh
<1>. HIDE DEF p, e
<1>3. Gave(p, m)
  BY <1>1, <1>2 DEF Gave, Fresh
<1>. QED
  BY <1>3 DEF p

\* PULL, also when it is injected
LEMMA TakeTurn ==
    ASSUME NEW m, DOMAIN m = DOMAIN Fresh, NEW f, NEW i, NEW level, NEW in \in {Take, TakeSlowly}
    PROVE  LET n == After(Plain(m, f, i, in, level))
           IN IF m.tx = <<>> THEN Waits(n, m) ELSE Goes(n, Pulled(m))
<1>1. in.op = "PULL" /\ in.empty = FALSE /\ in.block = TRUE
  BY DEF Take, TakeSlowly, PullWord
<1>2. Plain(m, f, i, in, level) = Pull(m, f, in)
  BY <1>1 DEF Plain
<1>3. Pull(m, f, in) = IF m.tx = <<>> THEN Stuck(m, f) ELSE Retired(Pulled(m), f)
  BY <1>1 DEF Pull, TxEmpty
<1>4. DOMAIN Pulled(m) = DOMAIN Fresh
  BY PulledTook DEF Took
<1>. QED
  BY <1>2, <1>3, <1>4, RetiredGoes, StuckWaits

LEMMA TakeIfEmptyTurn ==
    ASSUME NEW m, DOMAIN m = DOMAIN Fresh, NEW f, NEW i, NEW level
    PROVE  LET n == After(Plain(m, f, i, TakeIfEmpty, level))
           IN IF ~OsrUsed(m) THEN Goes(n, m)
              ELSE IF m.tx = <<>> THEN Waits(n, m) ELSE Goes(n, Pulled(m))
<1>. DEFINE in == TakeIfEmpty
<1>1. in.op = "PULL" /\ in.empty = TRUE /\ in.block = TRUE
  BY DEF TakeIfEmpty, PullWord
<1>. HIDE DEF in
<1>2. Plain(m, f, i, in, level) = Pull(m, f, in)
  BY <1>1 DEF Plain
<1>3. Pull(m, f, in) = IF ~OsrUsed(m) THEN Retired(m, f)
                       ELSE IF m.tx = <<>> THEN Stuck(m, f) ELSE Retired(Pulled(m), f)
  BY <1>1 DEF Pull, TxEmpty
<1>4. DOMAIN Pulled(m) = DOMAIN Fresh
  BY PulledTook DEF Took
<1>5. LET n == After(Plain(m, f, i, in, level))
      IN IF ~OsrUsed(m) THEN Goes(n, m)
         ELSE IF m.tx = <<>> THEN Waits(n, m) ELSE Goes(n, Pulled(m))
  BY <1>2, <1>3, <1>4, RetiredGoes, StuckWaits
<1>. QED
  BY <1>5 DEF in

LEMMA GiveTurn ==
    ASSUME NEW m, DOMAIN m = DOMAIN Fresh, NEW f, NEW i, NEW level, NEW in,
           in = Give \/ (in = GiveIfFull /\ IsrReady(m))
    PROVE  LET n == After(Plain(m, f, i, in, level))
           IN IF RxFull(m) THEN Waits(n, m) ELSE Goes(n, Pushed(m))
<1>1. in.op = "PUSH" /\ in.block = TRUE /\ (in.full = FALSE \/ IsrReady(m))
  <2>1. CASE in = Give
    BY <2>1 DEF Give, PushWord
  <2>2. CASE in = GiveIfFull /\ IsrReady(m)
    BY <2>2 DEF GiveIfFull, PushWord
  <2>. QED
    BY <2>1, <2>2
<1>2. Plain(m, f, i, in, level) = Push(m, f, in)
  BY <1>1 DEF Plain
<1>3. Push(m, f, in) = IF RxFull(m) THEN Stuck(m, f) ELSE Retired(Pushed(m), f)
  BY <1>1 DEF Push
<1>4. DOMAIN Pushed(m) = DOMAIN Fresh
  BY PushedGave DEF Gave
<1>. QED
  BY <1>2, <1>3, <1>4, RetiredGoes, StuckWaits

LEMMA GiveSkipped ==
    ASSUME NEW m, DOMAIN m = DOMAIN Fresh, NEW f, NEW i, NEW level, ~IsrReady(m)
    PROVE  Goes(After(Plain(m, f, i, GiveIfFull, level)), m)
<1>. DEFINE in == GiveIfFull
<1>1. in.op = "PUSH" /\ in.full = TRUE
  BY DEF GiveIfFull, PushWord
<1>. HIDE DEF in
<1>2. Plain(m, f, i, in, level) = Retired(m, f)
  BY <1>1 DEF Plain, Push
<1>3. Goes(After(Plain(m, f, i, in, level)), m)
  BY <1>2, RetiredGoes
<1>. QED
  BY <1>3 DEF in

LEMMA JumpTurn ==
    ASSUME NEW m, DOMAIN m = DOMAIN Fresh, NEW f, NEW i, NEW level
    PROVE  LET n == After(Plain(m, f, i, Jump(0), level))
           IN Held(n, m) /\ n.pc = 0 /\ n.stall = "none"
<1>. DEFINE p == [m EXCEPT !.x = m.x, !.y = m.y]
            j == [p EXCEPT !.pc = 0]
            n == After(Jumped(p, f, 0))
<1>1. Plain(m, f, i, Jump(0), level) = Jmp(m, f, Jump(0), level)
  BY DEF Plain, Jump
<1>2. Jmp(m, f, Jump(0), level) = Jumped(p, f, 0)
  BY DEF Jmp, Jump, Taken
<1>3. 0 % Size = 0
  BY PioAssumption, Residue, 0 * Size + 0 = 0, 0 \in 0..(Size - 1), 0 \in Int
<1>4. DOMAIN p = DOMAIN Fresh
  OBVIOUS
<1>5. Alike(n, j) /\ n.stall = "none"
  <2>. HIDE DEF p
  <2>. QED  BY <1>3, <1>4, JumpedIs
<1>6. Held(j, m) /\ j.pc = 0
  BY DEF Held, Fresh
<1>. HIDE DEF j, n
<1>7. Held(n, m) /\ n.pc = 0
  BY <1>5, <1>6 DEF Alike, Held
<1>8. n = After(Plain(m, f, i, Jump(0), level))
  BY <1>1, <1>2 DEF n
<1>. QED
  BY <1>5, <1>7, <1>8

\* Only MOV EXEC and OUT EXEC inject.
LEMMA NotInjecting ==
    ASSUME NEW m, NEW f, NEW i, NEW level, NEW in, ~Injects(in)
    PROVE  Exec(m, f, i, in, level) = Plain(m, f, i, in, level)
BY DEF Exec

LEMMA ProgramsInject ==
    /\ \A in \in {Take, TakeSlowly, TakeIfEmpty, Give, GiveIfFull, Jump(0), Nop, Move("isr", "osr"),
                  OutTo("x", 1, 1), OutTo("x", 1, 0), OutTo("isr", Width, 0), InFrom("x", 1)} : ~Injects(in)
    /\ Injects(Move("exec", "x"))
BY DEF Injects, Take, TakeSlowly, TakeIfEmpty, Give, GiveIfFull, Jump, Nop, Move, OutTo, InFrom,
       PullWord, PushWord

\* m with the OSR in the ISR
Copies(z, m) ==
    /\ DOMAIN z = DOMAIN Fresh /\ z.isr = m.osr /\ z.in = 0 /\ z.pc = m.pc
    /\ z.x = m.x /\ z.osr = m.osr /\ z.out = m.out /\ z.tx = m.tx /\ z.rx = m.rx
    /\ z.shift = m.shift /\ z.wrap = m.wrap

LEMMA MoveTurn ==
    ASSUME NEW m, DOMAIN m = DOMAIN Fresh, NEW f, NEW i, NEW level
    PROVE  \E z : Copies(z, m) /\ Goes(After(Plain(m, f, i, Move("isr", "osr"), level)), z)
<1>. DEFINE in == Move("isr", "osr")
            z == [m EXCEPT !.isr = m.osr, !.in = 0]
<1>1. in.op = "MOV" /\ in.dst = "isr" /\ in.src = "osr" /\ in.inv = "none"
  BY DEF Move
<1>. HIDE DEF in
<1>2. Moved(m, in, level) = m.osr
  BY <1>1 DEF Moved, Source
<1>3. Plain(m, f, i, in, level) = Retired(SetReg(m, "isr", m.osr, 0), f)
  BY <1>1, <1>2 DEF Plain
<1>4. SetReg(m, "isr", m.osr, 0) = z
  BY DEF SetReg
<1>5. Copies(z, m)
  BY DEF Copies, Fresh
<1>. HIDE DEF z
<1>6. Goes(After(Plain(m, f, i, in, level)), z)
  BY <1>3, <1>4, <1>5, RetiredGoes DEF Copies
<1>. QED
  BY <1>5, <1>6 DEF in

\* MOV EXEC, X with X = 1 injects a PULL.
LEMMA InjectTurn ==
    ASSUME NEW m, DOMAIN m = DOMAIN Fresh, m.x = 1, NEW f, NEW i, NEW level
    PROVE  LET n == After(Exec(m, f, i, Move("exec", "x"), level))
               q == [m EXCEPT !.cur = TakeSlowly]
           IN /\ Held(q, m) /\ q.pc = m.pc /\ q.cur = TakeSlowly /\ q.stall = m.stall
              /\ IF m.tx = <<>> THEN Waits(n, q) ELSE Goes(n, Pulled(q))
<1>. DEFINE in == Move("exec", "x")
            q == [m EXCEPT !.cur = TakeSlowly]
<1>1. in.op = "MOV" /\ in.dst = "exec" /\ in.src = "x" /\ in.inv = "none"
  BY DEF Move
<1>. HIDE DEF in
<1>2. Moved(m, in, level) = 1
  BY <1>1 DEF Moved, Source
<1>3. Injects(in)
  BY <1>1 DEF Injects
<1>4. Exec(m, f, i, in, level) = Inject(m, f, i, 1, level)
  BY <1>1, <1>2, <1>3 DEF Exec
<1>5. Inject(m, f, i, 1, level) = Plain(q, f, i, TakeSlowly, level)
  BY WorkAssumption DEF Inject
<1>6. DOMAIN q = DOMAIN Fresh /\ Held(q, m) /\ q.pc = m.pc /\ q.cur = TakeSlowly /\ q.stall = m.stall
  BY DEF Held, Fresh
<1>. HIDE DEF q
<1>7. LET n == After(Plain(q, f, i, TakeSlowly, level))
      IN IF q.tx = <<>> THEN Waits(n, q) ELSE Goes(n, Pulled(q))
  BY <1>6, TakeTurn
<1>8. q.tx = m.tx
  BY <1>6 DEF Held
<1>. QED
  BY <1>4, <1>5, <1>6, <1>7, <1>8 DEF in, q

\* Bits are shifted from the OSR to X, or from X to the ISR.
Shifted(count, n) == IF count + n > Width THEN Width ELSE count + n

OutBit(z, m) ==
    /\ DOMAIN z = DOMAIN Fresh /\ z.x = FirstBit(m.shift.outRight, m.osr)
    /\ z.osr = Without(m.shift.outRight, m.osr) /\ z.out = Shifted(m.out, 1)
    /\ z.pc = m.pc /\ z.isr = m.isr /\ z.in = m.in /\ z.tx = m.tx /\ z.rx = m.rx
    /\ z.shift = m.shift /\ z.wrap = m.wrap
InBit(z, m) ==
    /\ DOMAIN z = DOMAIN Fresh /\ z.isr = WithBit(m.shift.inRight, m.isr, m.x)
    /\ z.in = Shifted(m.in, 1)
    /\ z.pc = m.pc /\ z.x = m.x /\ z.osr = m.osr /\ z.out = m.out /\ z.tx = m.tx /\ z.rx = m.rx
    /\ z.shift = m.shift /\ z.wrap = m.wrap /\ z.cur = m.cur /\ z.stall = m.stall
    /\ z.rxDepth = m.rxDepth
\* The whole OSR goes to the ISR.
OutAll(z, m) ==
    /\ DOMAIN z = DOMAIN Fresh /\ z.isr = m.osr % PowerOfTwo[Width] /\ z.in = Width
    /\ z.out = Shifted(m.out, Width)
    /\ z.pc = m.pc /\ z.x = m.x /\ z.tx = m.tx /\ z.rx = m.rx
    /\ z.shift = m.shift /\ z.wrap = m.wrap

LEMMA ShiftedOutIs ==
    ASSUME NEW m, DOMAIN m = DOMAIN Fresh, ~NeedsWord(m), NEW n \in Nat
    PROVE  /\ ShiftedOut(m, n) = [m EXCEPT !.osr = IF m.shift.outRight THEN @ \div PowerOfTwo[n]
                                                   ELSE (@ * PowerOfTwo[n]) % PowerOfTwo[Width],
                                           !.out = Shifted(@, n)]
           /\ OutValue(m, n) = IF m.shift.outRight THEN m.osr % PowerOfTwo[n]
                               ELSE m.osr \div PowerOfTwo[Width - n]
<1>1. Refilled(m) = m
  BY DEF Refilled
<1>2. m.shift = m["shift"]
  OBVIOUS
<1>. QED
  BY <1>1 DEF ShiftedOut, OutValue, Shifted

LEMMA OutTurn ==
    ASSUME NEW m, DOMAIN m = DOMAIN Fresh, NEW f, NEW i, NEW level, NEW d, ~NeedsWord(m)
    PROVE  \E z : OutBit(z, m) /\ Goes(After(Plain(m, f, i, OutTo("x", 1, d), level)), z)
<1>. DEFINE in == OutTo("x", 1, d)
            s == [m EXCEPT !.osr = IF m.shift.outRight THEN @ \div PowerOfTwo[1]
                                   ELSE (@ * PowerOfTwo[1]) % PowerOfTwo[Width],
                           !.out = Shifted(@, 1)]
            v == IF m.shift.outRight THEN m.osr % PowerOfTwo[1] ELSE m.osr \div PowerOfTwo[Width - 1]
            z == [s EXCEPT !.x = v]
<1>1. in.op = "OUT" /\ in.dst = "x" /\ in.bits = 1
  BY DEF OutTo
<1>. HIDE DEF in
<1>2. ShiftedOut(m, 1) = s /\ OutValue(m, 1) = v
  BY ShiftedOutIs, 1 \in Nat
<1>3. ~Starved(m)
  BY DEF Starved
<1>4. /\ DOMAIN s = DOMAIN Fresh /\ s.osr = Without(m.shift.outRight, m.osr) /\ s.out = Shifted(m.out, 1)
      /\ s.pc = m.pc /\ s.isr = m.isr /\ s.in = m.in /\ s.tx = m.tx /\ s.rx = m.rx
      /\ s.shift = m.shift /\ s.wrap = m.wrap
  BY DEF Fresh, Without
<1>5. v = FirstBit(m.shift.outRight, m.osr)
  BY DEF FirstBit
<1>. HIDE DEF s, v
<1>6. Plain(m, f, i, in, level) = Retired(SetReg(s, "x", v, 1), f)
  BY <1>1, <1>2, <1>3 DEF Plain
<1>7. SetReg(s, "x", v, 1) = z
  BY DEF SetReg
<1>8. OutBit(z, m)
  BY <1>4, <1>5 DEF OutBit, Fresh
<1>. HIDE DEF z
<1>9. Goes(After(Plain(m, f, i, in, level)), z)
  BY <1>6, <1>7, <1>8, RetiredGoes DEF OutBit
<1>. QED
  BY <1>8, <1>9 DEF in

LEMMA OutAllTurn ==
    ASSUME NEW m, DOMAIN m = DOMAIN Fresh, NEW f, NEW i, NEW level, ~NeedsWord(m),
           m.shift.outRight = TRUE
    PROVE  \E z : OutAll(z, m) /\ Goes(After(Plain(m, f, i, OutTo("isr", Width, 0), level)), z)
<1>. DEFINE in == OutTo("isr", Width, 0)
            s == [m EXCEPT !.osr = IF m.shift.outRight THEN @ \div PowerOfTwo[Width]
                                   ELSE (@ * PowerOfTwo[Width]) % PowerOfTwo[Width],
                           !.out = Shifted(@, Width)]
            v == m.osr % PowerOfTwo[Width]
            z == [s EXCEPT !.isr = v, !.in = Width]
<1>1. in.op = "OUT" /\ in.dst = "isr" /\ in.bits = Width
  BY DEF OutTo
<1>. HIDE DEF in
<1>2. ShiftedOut(m, Width) = s /\ OutValue(m, Width) = v
  BY ShiftedOutIs, PioAssumption
<1>3. ~Starved(m)
  BY DEF Starved
<1>4. /\ DOMAIN s = DOMAIN Fresh /\ s.out = Shifted(m.out, Width)
      /\ s.pc = m.pc /\ s.x = m.x /\ s.tx = m.tx /\ s.rx = m.rx
      /\ s.shift = m.shift /\ s.wrap = m.wrap
  BY DEF Fresh
<1>. HIDE DEF s, v
<1>6. Plain(m, f, i, in, level) = Retired(SetReg(s, "isr", v, Width), f)
  BY <1>1, <1>2, <1>3 DEF Plain
<1>7. SetReg(s, "isr", v, Width) = z
  BY DEF SetReg
<1>8. OutAll(z, m)
  BY <1>4 DEF OutAll, Fresh, v
<1>. HIDE DEF z
<1>9. Goes(After(Plain(m, f, i, in, level)), z)
  BY <1>6, <1>7, <1>8, RetiredGoes DEF OutAll
<1>. QED
  BY <1>8, <1>9 DEF in

LEMMA OutWaits ==
    ASSUME NEW m, DOMAIN m = DOMAIN Fresh, NEW f, NEW i, NEW level, NEW in, in.op = "OUT", Starved(m)
    PROVE  LET n == After(Plain(m, f, i, in, level))
           IN Held(n, m) /\ n.pc = m.pc /\ n.cur = m.cur /\ n.stall = "autopull"
<1>. DEFINE z == [m EXCEPT !.stall = "autopull"]
            n == After(Stuck(z, f))
<1>1. Plain(m, f, i, in, level) = Stuck(z, f)
  BY DEF Plain
<1>2. Held(z, m) /\ z.pc = m.pc /\ z.cur = m.cur /\ z.stall = "autopull"
  BY DEF Held, Fresh
<1>. HIDE DEF z
<1>3. Waits(n, z)
  BY <1>2, StuckWaits DEF Held
<1>. HIDE DEF n
<1>4. Held(n, m) /\ n.pc = m.pc /\ n.cur = m.cur /\ n.stall = "autopull"
  BY <1>2, <1>3 DEF Waits, Held
<1>. QED
  BY <1>1, <1>4 DEF n

LEMMA ShiftedInIs ==
    ASSUME NEW m, DOMAIN m = DOMAIN Fresh, NEW level
    PROVE  InBit(ShiftedIn(m, InFrom("x", 1), level), m)
<1>. DEFINE in == InFrom("x", 1)
            v == m.x % PowerOfTwo[1]
            z == [m EXCEPT !.isr = WithBit(m.shift.inRight, m.isr, m.x), !.in = Shifted(@, 1)]
<1>1. in.src = "x" /\ in.bits = 1
  BY DEF InFrom
<1>. HIDE DEF in
<1>2. Source(m, in.src, level) % PowerOfTwo[in.bits] = v
  BY <1>1 DEF Source
<1>3. ShiftedIn(m, in, level) = z
  BY <1>1, <1>2 DEF ShiftedIn, WithBit, Shifted
<1>4. InBit(z, m)
  BY DEF InBit, Fresh
<1>. HIDE DEF z
<1>. QED
  BY <1>3, <1>4 DEF in

\* IN X, 1: with autopush a full ISR is pushed, or waits.
LEMMA InTurn ==
    ASSUME NEW m, DOMAIN m = DOMAIN Fresh, NEW f, NEW i, NEW level, m.stall # "autopush"
    PROVE  LET n == After(Plain(m, f, i, InFrom("x", 1), level))
               z == ShiftedIn(m, InFrom("x", 1), level)
           IN IF ~m.shift.autopush \/ ~IsrReady(z) THEN Goes(n, z)
              ELSE IF RxFull(z) THEN Held(n, z) /\ n.pc = m.pc /\ n.cur = m.cur /\ n.stall = "autopush"
              ELSE Goes(n, Pushed(z))
<1>. DEFINE in == InFrom("x", 1)
            z == ShiftedIn(m, in, level)
            s == [z EXCEPT !.stall = "autopush"]
            n == After(Plain(m, f, i, in, level))
<1>1. in.op = "IN"
  BY DEF InFrom
<1>2. InBit(z, m)
  BY ShiftedInIs
<1>3. Plain(m, f, i, in, level) = In(m, f, in, level)
  <2>. HIDE DEF in
  <2>. QED  BY <1>1 DEF Plain
<1>. HIDE DEF z, in
<1>4. DOMAIN z = DOMAIN Fresh /\ z.shift = m.shift /\ z.stall = m.stall /\ z.pc = m.pc /\ z.cur = m.cur
  BY <1>2 DEF InBit
<1>5. CASE ~m.shift.autopush \/ ~IsrReady(z)
  <2>1. AutoPushed(z) = z
    BY <1>4, <1>5 DEF AutoPushed
  <2>2. In(m, f, in, level) = Retired(z, f)
    BY <1>4, <2>1 DEF In, z
  <2>3. Goes(n, z)
    BY <1>3, <1>4, <2>2, RetiredGoes
  <2>. QED
    BY <1>5, <2>3 DEF z, in
<1>6. CASE m.shift.autopush /\ IsrReady(z) /\ RxFull(z)
  <2>1. AutoPushed(z) = s
    BY <1>4, <1>6 DEF AutoPushed
  <2>2. /\ DOMAIN s = DOMAIN Fresh /\ s.stall = "autopush" /\ Held(s, z) /\ s.pc = m.pc /\ s.cur = m.cur
    BY <1>4 DEF Held, Fresh
  <2>. HIDE DEF s
  <2>3. In(m, f, in, level) = Stuck(s, f)
    BY <2>1, <2>2 DEF In, z
  <2>4. Waits(n, s)
    BY <1>3, <2>2, <2>3, StuckWaits
  <2>. HIDE DEF n
  <2>5. Held(n, z) /\ n.pc = m.pc /\ n.cur = m.cur /\ n.stall = "autopush"
    BY <2>2, <2>4 DEF Waits, Held
  <2>. QED
    BY <1>6, <2>5 DEF n, z, in
<1>7. CASE m.shift.autopush /\ IsrReady(z) /\ ~RxFull(z)
  <2>1. AutoPushed(z) = Pushed(z)
    BY <1>4, <1>7 DEF AutoPushed
  <2>2. DOMAIN Pushed(z) = DOMAIN Fresh /\ Pushed(z).stall = m.stall
    BY <1>4, PushedGave DEF Gave
  <2>3. In(m, f, in, level) = Retired(Pushed(z), f)
    BY <2>1, <2>2 DEF In, z
  <2>4. Goes(n, Pushed(z))
    BY <1>3, <2>2, <2>3, RetiredGoes
  <2>. QED
    BY <1>7, <2>4 DEF z, in
<1>. QED
  BY <1>5, <1>6, <1>7

-----------------------------------------------------------------------------
\* The machine that executes its next instruction, and its program
LEMMA FetchedStalled ==
    ASSUME NEW m, m.stall = "instr"
    PROVE  Fetched(m) = m
BY DEF Fetched

LEMMA FetchedNext ==
    ASSUME NEW m, DOMAIN m = DOMAIN Fresh, m.stall = "none"
    PROVE  LET q == Fetched(m)
           IN /\ q.pc = m.pc /\ q.cur = prog[m.pc] /\ q.stall = "none"
              /\ IF NeedsWord(m) /\ m.tx # <<>>
                 THEN \E p : Took(p, m) /\ Held(q, p) ELSE Held(q, m)
<1>. DEFINE p == Refilled(m)
            q == [p EXCEPT !.cur = prog[m.pc]]
<1>1. Fetched(m) = q
  BY DEF Fetched
<1>2. /\ DOMAIN p = DOMAIN Fresh /\ p.pc = m.pc /\ p.stall = m.stall
      /\ IF NeedsWord(m) /\ m.tx # <<>> THEN Took(p, m) ELSE p = m
  BY PulledTook DEF Refilled, TxEmpty, Took
<1>. HIDE DEF p
<1>3. q.pc = m.pc /\ q.cur = prog[m.pc] /\ q.stall = "none" /\ Held(q, p)
  BY <1>2 DEF Held, Fresh
<1>. HIDE DEF q
<1>. QED
  BY <1>1, <1>2, <1>3

LEMMA FetchedPulled ==
    ASSUME NEW m, DOMAIN m = DOMAIN Fresh, m.stall = "autopull"
    PROVE  LET q == Fetched(m)
           IN q.pc = m.pc /\ q.cur = m.cur /\ q.stall = "instr" /\ \E p : Took(p, m) /\ Held(q, p)
<1>. DEFINE p == Pulled(m)
            q == [p EXCEPT !.stall = "instr"]
<1>1. Fetched(m) = q
  BY DEF Fetched
<1>2. Took(p, m)
  BY PulledTook
<1>. HIDE DEF p
<1>3. q.pc = m.pc /\ q.cur = m.cur /\ q.stall = "instr" /\ Held(q, p)
  BY <1>2 DEF Took, Held, Fresh
<1>. HIDE DEF q
<1>. QED
  BY <1>1, <1>2, <1>3

LEMMA LoadedIs ==
    ASSUME NEW p, prog = Loaded(p)
    PROVE  prog[0] = p[1] /\ prog[1] = p[2] /\ prog[2] = p[3] /\ prog[3] = p[4]
<1>1. \A a \in Addrs : prog[a] = IF a < 4 THEN p[a + 1] ELSE Nop
  BY DEF Loaded
<1>2. 0 \in Addrs /\ 1 \in Addrs /\ 2 \in Addrs /\ 3 \in Addrs
  BY PioAssumption, WorkAssumption DEF Addrs
<1>3. 0 + 1 = 1 /\ 1 + 1 = 2 /\ 2 + 1 = 3 /\ 3 + 1 = 4 /\ 0 < 4 /\ 1 < 4 /\ 2 < 4 /\ 3 < 4
  OBVIOUS
<1>. QED
  BY <1>1, <1>2, <1>3

\* A program of t + 1 instructions is repeated.
LEMMA NextOf ==
    ASSUME NEW z, DOMAIN z = DOMAIN Fresh, NEW t \in 0 .. 3, z.wrap = Wrap(0, t), z.pc \in 0 .. t
    PROVE  Advanced(z).pc = IF z.pc = t THEN 0 ELSE z.pc + 1
<1>1. z.wrap.top = t /\ z.wrap.bottom = 0
  BY DEF Wrap
<1>2. z.pc \in Addrs /\ 0 \in Addrs /\ (z.pc # t => z.pc + 1 \in Addrs)
  BY PioAssumption, WorkAssumption DEF Addrs
<1>. QED
  BY <1>1, <1>2, NextAddress

-----------------------------------------------------------------------------
(* Machines that copy *)

\* The words u of d are in the shift registers of m.
Carries(d, m, u) == Flow(d, m.rx, u, m.tx)

LEMMA CarriesHeld ==
    ASSUME NEW d, NEW m, NEW n, NEW u, Carries(d, m, u), Held(n, m)
    PROVE  Carries(d, n, u)
BY DEF Carries, Held

LEMMA CarriesTaken ==
    ASSUME NEW d, NEW m, NEW p, NEW n, m.tx # <<>>, Took(p, m), Held(n, p)
    PROVE  /\ Carries(d, m, <<>>) => n.osr \in Word /\ Carries(d, n, <<n.osr>>)
           /\ \A w : Carries(d, m, <<w>>) => n.osr \in Word /\ Carries(d, n, <<w, n.osr>>)
<1>1. n.osr = Head(m.tx) /\ n.tx = Tail(m.tx) /\ n.rx = m.rx
  BY DEF Took, Held
<1>2. ASSUME Carries(d, m, <<>>)
      PROVE  n.osr \in Word /\ Carries(d, n, <<n.osr>>)
  BY <1>1, <1>2, FlowTakesFirst DEF Carries
<1>3. ASSUME NEW w, Carries(d, m, <<w>>)
      PROVE  n.osr \in Word /\ Carries(d, n, <<w, n.osr>>)
  <2>1. Flow(d, m.rx, <<w>>, m.tx)
    BY <1>3 DEF Carries
  <2>2. Head(m.tx) \in Word /\ Flow(d, m.rx, <<w, Head(m.tx)>>, Tail(m.tx))
    BY <2>1, FlowTakesSecond
  <2>. QED
    BY <1>1, <2>2 DEF Carries
<1>. QED
  BY <1>2, <1>3

LEMMA CarriesGiven ==
    ASSUME NEW d, NEW m, NEW p, NEW n, Gave(p, m), Held(n, p)
    PROVE  /\ Carries(d, m, <<m.isr>>) => Carries(d, n, <<>>)
           /\ \A v : Carries(d, m, <<m.isr, v>>) => Carries(d, n, <<v>>)
<1>1. n.rx = Append(m.rx, m.isr) /\ n.tx = m.tx
  BY DEF Gave, Held
<1>2. ASSUME Carries(d, m, <<m.isr>>)
      PROVE  Carries(d, n, <<>>)
  <2>1. Flow(d, m.rx, <<m.isr>>, m.tx)
    BY <1>2 DEF Carries
  <2>2. Flow(d, Append(m.rx, m.isr), <<>>, m.tx)
    BY <2>1, FlowGivesOnly
  <2>. QED
    BY <1>1, <2>2 DEF Carries
<1>3. ASSUME NEW v, Carries(d, m, <<m.isr, v>>)
      PROVE  Carries(d, n, <<v>>)
  <2>1. Flow(d, m.rx, <<m.isr, v>>, m.tx)
    BY <1>3 DEF Carries
  <2>2. Flow(d, Append(m.rx, m.isr), <<v>>, m.tx)
    BY <2>1, FlowGivesFirst
  <2>. QED
    BY <1>1, <2>2 DEF Carries
<1>. QED
  BY <1>2, <1>3

\* m executes program p, with settings s and w.
Does(m, p, s, w) ==
    /\ prog = Loaded(p) /\ DOMAIN m = DOMAIN Fresh /\ m.shift = s /\ m.wrap = w

LEMMA DoesHeld ==
    ASSUME NEW m, NEW n, NEW p, NEW s, NEW w, Does(m, p, s, w), Held(n, m)
    PROVE  Does(n, p, s, w)
BY DEF Does, Held

Ready(m) == m.stall = "none"
Redo(m, in) == Ready(m) \/ (m.stall = "instr" /\ m.cur = in)

\* Without autopull nothing is pulled before the next instruction.
LEMMA FetchedManual ==
    ASSUME NEW m, DOMAIN m = DOMAIN Fresh, ~NeedsWord(m), m.stall \in {"none", "instr"}
    PROVE  LET q == Fetched(m)
           IN /\ Held(q, m) /\ q.pc = m.pc /\ q.stall = m.stall
              /\ q.cur = IF m.stall = "instr" THEN m.cur ELSE prog[m.pc]
<1>1. CASE m.stall = "instr"
  BY <1>1, FetchedStalled DEF Held
<1>2. CASE m.stall = "none"
  BY <1>2, FetchedNext
<1>. QED
  BY <1>1, <1>2

-----------------------------------------------------------------------------
(* ByWord *)

WordState(m, u) ==
    \/ m.pc = 0 /\ Redo(m, Take) /\ u = <<>>
    \/ m.pc = 1 /\ Ready(m) /\ u = <<m.osr>>
    \/ m.pc = 2 /\ Redo(m, Give) /\ u = <<m.isr>>
    \/ m.pc = 3 /\ Ready(m) /\ u = <<>>

WordOk(d, m) ==
    Does(m, ByWord, Manual, Wrap(0, 3)) /\ \E u : WordState(m, u) /\ Carries(d, m, u)

LEMMA WordExecute ==
    ASSUME NEW d, NEW m, WordOk(d, m), NEW f, NEW i, NEW level
    PROVE  WordOk(d, After(Exec(Fetched(m), f, i, Fetched(m).cur, level)))
<1>. DEFINE q == Fetched(m)
            n == After(Exec(q, f, i, q.cur, level))
            r == After(Plain(q, f, i, q.cur, level))
<1>1. PICK u : WordState(m, u) /\ Carries(d, m, u)
  BY DEF WordOk
<1>2. Does(m, ByWord, Manual, Wrap(0, 3))
  BY DEF WordOk
<1>3. m.stall \in {"none", "instr"} /\ (m.stall = "instr" => m.pc \in {0, 2}) /\ m.pc \in 0 .. 3
  BY <1>1 DEF WordState, Redo, Ready
<1>4. ~NeedsWord(m)
  BY <1>2 DEF NeedsWord, Does, Manual, Shift
<1>5. /\ Held(q, m) /\ q.pc = m.pc /\ q.stall = m.stall
      /\ q.cur = IF m.stall = "instr" THEN m.cur ELSE prog[m.pc]
  BY <1>2, <1>3, <1>4, FetchedManual DEF Does
<1>. HIDE DEF q
<1>6. DOMAIN q = DOMAIN Fresh /\ q.wrap = Wrap(0, 3) /\ Does(q, ByWord, Manual, Wrap(0, 3)) /\ Carries(d, q, u)
  BY <1>1, <1>2, <1>5, DoesHeld, CarriesHeld DEF Held, Does
<1>7. prog[0] = Take /\ prog[1] = Move("isr", "osr") /\ prog[2] = Give /\ prog[3] = Jump(0)
  <2>1. prog = Loaded(ByWord)
    BY <1>2 DEF Does
  <2>2. ByWord[1] = Take /\ ByWord[2] = Move("isr", "osr") /\ ByWord[3] = Give /\ ByWord[4] = Jump(0)
    BY DEF ByWord
  <2>. QED
    BY <2>1, <2>2, LoadedIs
<1>8. q.cur \in {Take, Give, Jump(0), Move("isr", "osr")} => n = r
  BY NotInjecting, ProgramsInject
<1>9. ASSUME NEW z, Goes(r, z), DOMAIN z = DOMAIN Fresh, z.wrap = Wrap(0, 3), z.pc = m.pc
      PROVE  r.pc = (IF m.pc = 3 THEN 0 ELSE m.pc + 1) /\ r.stall = "none" /\ Held(r, z)
  BY <1>3, <1>9, NextOf DEF Goes
<1>. HIDE DEF r, n
<1>10. CASE m.pc = 0
  <2>1. q.cur = Take /\ u = <<>>
    BY <1>1, <1>3, <1>5, <1>7, <1>10 DEF WordState, Redo, Ready
  <2>2. IF q.tx = <<>> THEN Waits(r, q) ELSE Goes(r, Pulled(q))
    BY <1>6, <2>1, TakeTurn DEF r
  <2>3. CASE q.tx = <<>>
    <3>1. Held(r, q) /\ r.pc = 0 /\ (r.stall = "instr" /\ r.cur = Take)
      BY <1>3, <1>5, <1>10, <2>1, <2>2, <2>3 DEF Waits
    <3>2. WordState(r, <<>>)
      BY <3>1 DEF WordState, Redo
    <3>. QED
      BY <1>6, <1>8, <2>1, <3>1, <3>2, DoesHeld, CarriesHeld DEF WordOk, n, q
  <2>4. CASE q.tx # <<>>
    <3>1. Took(Pulled(q), q) /\ Goes(r, Pulled(q))
      BY <1>6, <2>2, <2>4, PulledTook
    <3>2. r.pc = 1 /\ r.stall = "none" /\ Held(r, Pulled(q))
      BY <1>5, <1>6, <1>9, <1>10, <3>1 DEF Took
    <3>3. Carries(d, r, <<r.osr>>)
      BY <1>6, <2>1, <2>4, <3>1, <3>2, CarriesTaken
    <3>4. Does(r, ByWord, Manual, Wrap(0, 3))
      BY <1>6, <3>1, <3>2 DEF Does, Held, Took
    <3>5. WordState(r, <<r.osr>>)
      BY <3>2 DEF WordState, Ready
    <3>. QED
      BY <1>8, <2>1, <3>3, <3>4, <3>5 DEF WordOk, n, q
  <2>. QED
    BY <2>3, <2>4
<1>11. CASE m.pc = 1
  <2>1. q.cur = Move("isr", "osr") /\ u = <<m.osr>>
    BY <1>1, <1>3, <1>5, <1>7, <1>11 DEF WordState, Ready
  <2>2. PICK z : Copies(z, q) /\ Goes(r, z)
    BY <1>6, <2>1, MoveTurn DEF r
  <2>3. r.pc = 2 /\ r.stall = "none" /\ Held(r, z)
    BY <1>5, <1>6, <1>9, <1>11, <2>2 DEF Copies
  <2>4. r.isr = m.osr /\ r.rx = q.rx /\ r.tx = q.tx /\ Does(r, ByWord, Manual, Wrap(0, 3))
    BY <1>5, <1>6, <2>2, <2>3 DEF Copies, Held, Does
  <2>5. WordState(r, u) /\ Carries(d, r, u)
    BY <1>6, <2>1, <2>3, <2>4 DEF WordState, Redo, Ready, Carries
  <2>. QED
    BY <1>8, <2>1, <2>4, <2>5 DEF WordOk, n, q
<1>12. CASE m.pc = 2
  <2>1. q.cur = Give /\ u = <<q.isr>>
    BY <1>1, <1>3, <1>5, <1>7, <1>12 DEF WordState, Redo, Ready, Held
  <2>2. IF RxFull(q) THEN Waits(r, q) ELSE Goes(r, Pushed(q))
    BY <1>6, <2>1, GiveTurn DEF r
  <2>3. CASE RxFull(q)
    <3>1. Held(r, q) /\ r.pc = 2 /\ (r.stall = "instr" /\ r.cur = Give)
      BY <1>3, <1>5, <1>12, <2>1, <2>2, <2>3 DEF Waits
    <3>2. WordState(r, u)
      BY <2>1, <3>1 DEF WordState, Redo, Held
    <3>. QED
      BY <1>6, <1>8, <2>1, <3>1, <3>2, DoesHeld, CarriesHeld DEF WordOk, n, q
  <2>4. CASE ~RxFull(q)
    <3>1. Gave(Pushed(q), q) /\ Goes(r, Pushed(q))
      BY <1>6, <2>2, <2>4, PushedGave
    <3>2. r.pc = 3 /\ r.stall = "none" /\ Held(r, Pushed(q))
      BY <1>5, <1>6, <1>9, <1>12, <3>1 DEF Gave
    <3>3. Carries(d, r, <<>>)
      BY <1>6, <2>1, <3>1, <3>2, CarriesGiven
    <3>4. Does(r, ByWord, Manual, Wrap(0, 3))
      BY <1>6, <3>1, <3>2 DEF Does, Held, Gave
    <3>5. WordState(r, <<>>)
      BY <3>2 DEF WordState, Ready
    <3>. QED
      BY <1>8, <2>1, <3>3, <3>4, <3>5 DEF WordOk, n, q
  <2>. QED
    BY <2>3, <2>4
<1>13. CASE m.pc = 3
  <2>1. q.cur = Jump(0) /\ u = <<>>
    BY <1>1, <1>3, <1>5, <1>7, <1>13 DEF WordState, Ready
  <2>2. Held(r, q) /\ r.pc = 0 /\ r.stall = "none"
    BY <1>6, <2>1, JumpTurn DEF r
  <2>3. WordState(r, u)
    BY <2>1, <2>2 DEF WordState, Redo, Ready
  <2>. QED
    BY <1>6, <1>8, <2>1, <2>2, <2>3, DoesHeld, CarriesHeld DEF WordOk, n, q
<1>. QED
  BY <1>3, <1>10, <1>11, <1>12, <1>13

-----------------------------------------------------------------------------
(* ByInjection *)

InjectionState(m, u) ==
    /\ m.x = 1
    /\ \/ m.pc = 0 /\ Redo(m, TakeSlowly) /\ u = <<>>
       \/ m.pc = 1 /\ Ready(m) /\ u = <<m.osr>>
       \/ m.pc = 2 /\ Redo(m, Give) /\ u = <<m.isr>>

InjectionOk(d, m) ==
    Does(m, ByInjection, Manual, Wrap(0, 2)) /\ \E u : InjectionState(m, u) /\ Carries(d, m, u)

LEMMA InjectionExecute ==
    ASSUME NEW d, NEW m, InjectionOk(d, m), NEW f, NEW i, NEW level
    PROVE  InjectionOk(d, After(Exec(Fetched(m), f, i, Fetched(m).cur, level)))
<1>. DEFINE q == Fetched(m)
            n == After(Exec(q, f, i, q.cur, level))
            r == After(Plain(q, f, i, q.cur, level))
<1>1. PICK u : InjectionState(m, u) /\ Carries(d, m, u)
  BY DEF InjectionOk
<1>2. Does(m, ByInjection, Manual, Wrap(0, 2)) /\ m.x = 1
  BY <1>1 DEF InjectionOk, InjectionState
<1>3. m.stall \in {"none", "instr"} /\ (m.stall = "instr" => m.pc \in {0, 2}) /\ m.pc \in 0 .. 2
  BY <1>1 DEF InjectionState, Redo, Ready
<1>4. ~NeedsWord(m)
  BY <1>2 DEF NeedsWord, Does, Manual, Shift
<1>5. /\ Held(q, m) /\ q.pc = m.pc /\ q.stall = m.stall
      /\ q.cur = IF m.stall = "instr" THEN m.cur ELSE prog[m.pc]
  BY <1>2, <1>3, <1>4, FetchedManual DEF Does
<1>. HIDE DEF q
<1>6. /\ DOMAIN q = DOMAIN Fresh /\ q.wrap = Wrap(0, 2) /\ Does(q, ByInjection, Manual, Wrap(0, 2))
      /\ Carries(d, q, u) /\ q.x = 1
  BY <1>1, <1>2, <1>5, DoesHeld, CarriesHeld DEF Held, Does
<1>7. prog[0] = Move("exec", "x") /\ prog[1] = Move("isr", "osr") /\ prog[2] = Give
  <2>1. prog = Loaded(ByInjection)
    BY <1>2 DEF Does
  <2>2. ByInjection[1] = Move("exec", "x") /\ ByInjection[2] = Move("isr", "osr") /\ ByInjection[3] = Give
    BY DEF ByInjection
  <2>. QED
    BY <2>1, <2>2, LoadedIs
<1>8. q.cur \in {TakeSlowly, Give, Move("isr", "osr")} => n = r
  BY NotInjecting, ProgramsInject
<1>9. ASSUME NEW z, Goes(n, z), DOMAIN z = DOMAIN Fresh, z.wrap = Wrap(0, 2), z.pc = m.pc
      PROVE  n.pc = (IF m.pc = 2 THEN 0 ELSE m.pc + 1) /\ n.stall = "none" /\ Held(n, z)
  BY <1>3, <1>9, NextOf DEF Goes
<1>. HIDE DEF r, n
<1>10. CASE m.pc = 0
  <2>1. u = <<>> /\ q.cur = IF m.stall = "instr" THEN TakeSlowly ELSE Move("exec", "x")
    BY <1>1, <1>3, <1>5, <1>7, <1>10 DEF InjectionState, Redo, Ready
  <2>2. PICK s : /\ Held(s, q) /\ s.pc = q.pc /\ s.cur = TakeSlowly /\ s.stall = q.stall
                 /\ IF q.tx = <<>> THEN Waits(n, s) ELSE Goes(n, Pulled(s))
    <3>1. CASE q.cur = TakeSlowly
      <4>1. IF q.tx = <<>> THEN Waits(n, q) ELSE Goes(n, Pulled(q))
        BY <1>6, <1>8, <3>1, TakeTurn DEF r
      <4>. QED
        BY <1>6, <3>1, <4>1 DEF Held
    <3>2. CASE q.cur = Move("exec", "x")
      BY <1>6, <3>2, InjectTurn DEF n
    <3>. QED
      BY <2>1, <3>1, <3>2
  <2>3. /\ DOMAIN s = DOMAIN Fresh /\ s.tx = q.tx /\ s.wrap = Wrap(0, 2) /\ Carries(d, s, <<>>) /\ s.x = 1
        /\ Does(s, ByInjection, Manual, Wrap(0, 2))
    BY <1>6, <2>1, <2>2, CarriesHeld, DoesHeld DEF Held
  <2>4. CASE q.tx = <<>>
    <3>1. Held(n, s) /\ n.pc = 0 /\ (n.stall = "instr" /\ n.cur = TakeSlowly) /\ n.x = 1
      BY <1>3, <1>5, <1>10, <2>2, <2>3, <2>4 DEF Waits, Held
    <3>2. InjectionState(n, <<>>)
      BY <3>1 DEF InjectionState, Redo
    <3>. QED
      BY <2>3, <3>1, <3>2, DoesHeld, CarriesHeld DEF InjectionOk, n, q
  <2>5. CASE q.tx # <<>>
    <3>1. Took(Pulled(s), s) /\ Goes(n, Pulled(s))
      BY <2>2, <2>3, <2>5, PulledTook
    <3>2. n.pc = 1 /\ n.stall = "none" /\ Held(n, Pulled(s)) /\ n.x = 1
      BY <1>5, <1>9, <1>10, <2>2, <2>3, <3>1 DEF Took, Held
    <3>3. Carries(d, n, <<n.osr>>)
      BY <2>3, <2>5, <3>1, <3>2, CarriesTaken
    <3>4. Does(n, ByInjection, Manual, Wrap(0, 2))
      BY <2>3, <3>1, <3>2 DEF Does, Held, Took
    <3>5. InjectionState(n, <<n.osr>>)
      BY <3>2 DEF InjectionState, Ready
    <3>. QED
      BY <3>3, <3>4, <3>5 DEF InjectionOk, n, q
  <2>. QED
    BY <2>4, <2>5
<1>11. CASE m.pc = 1
  <2>1. q.cur = Move("isr", "osr") /\ u = <<m.osr>>
    BY <1>1, <1>3, <1>5, <1>7, <1>11 DEF InjectionState, Ready
  <2>2. PICK z : Copies(z, q) /\ Goes(n, z)
    BY <1>6, <1>8, <2>1, MoveTurn DEF r
  <2>3. n.pc = 2 /\ n.stall = "none" /\ Held(n, z)
    BY <1>5, <1>6, <1>9, <1>11, <2>2 DEF Copies
  <2>4. n.isr = m.osr /\ n.rx = q.rx /\ n.tx = q.tx /\ n.x = 1 /\ Does(n, ByInjection, Manual, Wrap(0, 2))
    BY <1>5, <1>6, <2>2, <2>3 DEF Copies, Held, Does
  <2>5. InjectionState(n, u) /\ Carries(d, n, u)
    BY <1>6, <2>1, <2>3, <2>4 DEF InjectionState, Redo, Ready, Carries
  <2>. QED
    BY <2>4, <2>5 DEF InjectionOk, n, q
<1>12. CASE m.pc = 2
  <2>1. q.cur = Give /\ u = <<q.isr>>
    BY <1>1, <1>3, <1>5, <1>7, <1>12 DEF InjectionState, Redo, Ready, Held
  <2>2. IF RxFull(q) THEN Waits(n, q) ELSE Goes(n, Pushed(q))
    BY <1>6, <1>8, <2>1, GiveTurn DEF r
  <2>3. CASE RxFull(q)
    <3>1. Held(n, q) /\ n.pc = 2 /\ (n.stall = "instr" /\ n.cur = Give) /\ n.x = 1
      BY <1>3, <1>5, <1>6, <1>12, <2>1, <2>2, <2>3 DEF Waits, Held
    <3>2. InjectionState(n, u)
      BY <2>1, <3>1 DEF InjectionState, Redo, Held
    <3>. QED
      BY <1>6, <3>1, <3>2, DoesHeld, CarriesHeld DEF InjectionOk, n, q
  <2>4. CASE ~RxFull(q)
    <3>1. Gave(Pushed(q), q) /\ Goes(n, Pushed(q))
      BY <1>6, <2>2, <2>4, PushedGave
    <3>2. n.pc = 0 /\ n.stall = "none" /\ Held(n, Pushed(q)) /\ n.x = 1
      BY <1>5, <1>6, <1>9, <1>12, <3>1 DEF Gave, Held
    <3>3. Carries(d, n, <<>>)
      BY <1>6, <2>1, <3>1, <3>2, CarriesGiven
    <3>4. Does(n, ByInjection, Manual, Wrap(0, 2))
      BY <1>6, <3>1, <3>2 DEF Does, Held, Gave
    <3>5. InjectionState(n, <<>>)
      BY <3>2 DEF InjectionState, Redo, Ready
    <3>. QED
      BY <3>3, <3>4, <3>5 DEF InjectionOk, n, q
  <2>. QED
    BY <2>3, <2>4
<1>. QED
  BY <1>3, <1>10, <1>11, <1>12

-----------------------------------------------------------------------------
(* ToIsr *)

\* The OSR is empty.
Spent(m, u) == m.out = Width /\ u = <<>>

IsrState(m, u) ==
    \/ /\ m.pc = 0 /\ m.in = 0
       /\ \/ /\ Spent(m, u)
             /\ Ready(m) \/ (m.stall = "autopull" /\ m.cur = OutTo("isr", Width, 0))
          \/ m.out = 0 /\ u = <<m.osr>> /\ Ready(m)
    \/ /\ m.pc = 1 /\ m.in = Width
       /\ \/ m.out = Width /\ u = <<m.isr>> /\ Redo(m, GiveIfFull)
          \/ m.out = 0 /\ u = <<m.isr, m.osr>> /\ m.stall = "instr" /\ m.cur = GiveIfFull

IsrOk(d, m) ==
    Does(m, ToIsr, OnlyPulling, Wrap(0, 1)) /\ \E u : IsrState(m, u) /\ Carries(d, m, u)

LEMMA OnlyPullingIs ==
    ASSUME NEW m, m.shift = OnlyPulling
    PROVE  /\ m.shift.autopull /\ m.shift.outRight = TRUE
           /\ NeedsWord(m) <=> m.out >= Width
           /\ IsrReady(m) <=> m.in >= Width
<1>1. m.shift.autopull = TRUE /\ m.shift.outRight = TRUE /\ m.shift.pull = Width /\ m.shift.push = Width
  BY DEF OnlyPulling, Shift
<1>. QED
  BY <1>1 DEF NeedsWord, OsrUsed, IsrReady

LEMMA IsrExecute ==
    ASSUME NEW d, NEW m, IsrOk(d, m), ~(m.stall = "autopull" /\ TxEmpty(m)), NEW f, NEW i, NEW level
    PROVE  IsrOk(d, After(Exec(Fetched(m), f, i, Fetched(m).cur, level)))
<1>. DEFINE q == Fetched(m)
            n == After(Exec(q, f, i, q.cur, level))
            r == After(Plain(q, f, i, q.cur, level))
<1>0. Width \in Nat /\ Width >= 1 /\ PowerOfTwo[Width] \in Nat \ {0}
  BY PioAssumption, PowersOfTwo
<1>1. PICK u : IsrState(m, u) /\ Carries(d, m, u)
  BY DEF IsrOk
<1>2. Does(m, ToIsr, OnlyPulling, Wrap(0, 1)) /\ DOMAIN m = DOMAIN Fresh
  BY DEF IsrOk, Does
<1>3. NeedsWord(m) <=> m.out >= Width
  BY <1>2, OnlyPullingIs DEF Does
<1>4. prog[0] = OutTo("isr", Width, 0) /\ prog[1] = GiveIfFull
  <2>1. prog = Loaded(ToIsr)
    BY <1>2 DEF Does
  <2>2. ToIsr[1] = OutTo("isr", Width, 0) /\ ToIsr[2] = GiveIfFull
    BY DEF ToIsr
  <2>. QED
    BY <2>1, <2>2, LoadedIs
<1>5. q.cur \in {OutTo("isr", Width, 0), GiveIfFull} => n = r
  BY NotInjecting, ProgramsInject
<1>6. ASSUME NEW s, Held(s, m) \/ \E p : Took(p, m) /\ Held(s, p)
      PROVE  DOMAIN s = DOMAIN Fresh /\ Does(s, ToIsr, OnlyPulling, Wrap(0, 1)) /\ s.in = m.in /\ s.isr = m.isr
  BY <1>2, <1>6 DEF Does, Held, Took
<1>7. CASE m.pc = 0
  <2>1. /\ q.cur = OutTo("isr", Width, 0) /\ q.pc = 0 /\ DOMAIN q = DOMAIN Fresh
        /\ Does(q, ToIsr, OnlyPulling, Wrap(0, 1)) /\ q.in = 0
        /\ \/ q.out = 0 /\ q.osr \in Word /\ Carries(d, q, <<q.osr>>)
           \/ q.out = Width /\ q.tx = <<>> /\ Carries(d, q, <<>>)
    <3>1. CASE m.stall = "autopull"
      <4>1. u = <<>> /\ m.in = 0 /\ m.cur = OutTo("isr", Width, 0) /\ m.tx # <<>>
        BY <1>0, <1>1, <1>7, <3>1 DEF IsrState, Spent, Ready, TxEmpty
      <4>2. q.pc = m.pc /\ q.cur = m.cur
        BY <1>2, <3>1, FetchedPulled
      <4>3. PICK p : Took(p, m) /\ Held(q, p)
        BY <1>2, <3>1, FetchedPulled
      <4>. HIDE DEF q, n, r
      <4>4. q.osr \in Word /\ Carries(d, q, <<q.osr>>)
        BY <1>1, <4>1, <4>3, CarriesTaken
      <4>5. q.out = 0
        BY <4>3 DEF Held, Took
      <4>. QED
        BY <1>6, <1>7, <4>1, <4>2, <4>3, <4>4, <4>5
    <3>2. CASE m.stall = "none"
      <4>1. m.in = 0 /\ (Spent(m, u) \/ (m.out = 0 /\ u = <<m.osr>>))
        BY <1>0, <1>1, <1>7, <3>2 DEF IsrState
      <4>2. q.pc = m.pc /\ q.cur = prog[m.pc]
        BY <1>2, <3>2, FetchedNext
      <4>3. IF NeedsWord(m) /\ m.tx # <<>> THEN \E p : Took(p, m) /\ Held(q, p) ELSE Held(q, m)
        BY <1>2, <3>2, FetchedNext
      <4>. HIDE DEF q, n, r
      <4>4. CASE NeedsWord(m) /\ m.tx # <<>>
        <5>1. PICK p : Took(p, m) /\ Held(q, p)
          BY <4>3, <4>4
        <5>2. u = <<>>
          BY <1>0, <1>3, <4>1, <4>4 DEF Spent
        <5>3. q.osr \in Word /\ Carries(d, q, <<q.osr>>)
          BY <1>1, <4>4, <5>1, <5>2, CarriesTaken
        <5>4. q.out = 0
          BY <5>1 DEF Held, Took
        <5>. QED
          BY <1>4, <1>6, <1>7, <4>1, <4>2, <5>1, <5>3, <5>4
      <4>5. CASE ~(NeedsWord(m) /\ m.tx # <<>>)
        <5>1. Held(q, m) /\ Carries(d, q, u)
          BY <1>1, <4>3, <4>5, CarriesHeld
        <5>2. q.out = m.out /\ q.osr = m.osr /\ q.tx = m.tx
          BY <5>1 DEF Held
        <5>3. CASE Spent(m, u)
          <6>1. q.out = Width /\ q.tx = <<>> /\ Carries(d, q, <<>>)
            BY <1>0, <1>3, <4>5, <5>1, <5>2, <5>3 DEF Spent
          <6>. QED
            BY <1>4, <1>6, <1>7, <4>1, <4>2, <5>1, <6>1
        <5>4. CASE m.out = 0 /\ u = <<m.osr>>
          <6>1. q.out = 0 /\ Carries(d, q, <<q.osr>>)
            BY <5>1, <5>2, <5>4
          <6>2. q.osr \in Word
            BY <6>1 DEF Carries, Flow
          <6>. QED
            BY <1>4, <1>6, <1>7, <4>1, <4>2, <5>1, <6>1, <6>2
        <5>. QED
          BY <4>1, <5>3, <5>4
      <4>. QED
        BY <4>4, <4>5
    <3>. QED
      BY <1>0, <1>1, <1>7, <3>1, <3>2 DEF IsrState, Ready
  <2>. HIDE DEF q, n, r
  <2>2. q.shift = OnlyPulling /\ q.wrap = Wrap(0, 1)
    BY <2>1 DEF Does
  <2>3. CASE q.out = 0 /\ q.osr \in Word /\ Carries(d, q, <<q.osr>>)
    <3>1. ~NeedsWord(q) /\ q.shift.outRight = TRUE
      <4>1. (NeedsWord(q) <=> q.out >= Width) /\ q.shift.outRight = TRUE
        BY <2>2, OnlyPullingIs
      <4>. QED
        BY <1>0, <2>3, <4>1
    <3>2. PICK z : OutAll(z, q) /\ Goes(r, z)
      BY <2>1, <3>1, OutAllTurn DEF r
    <3>3. z.isr = q.osr /\ z.out = Width
      <4>1. q.osr % PowerOfTwo[Width] = q.osr
        BY <1>0, <2>3, Residue, 0 * PowerOfTwo[Width] + q.osr = q.osr, 0 \in Int DEF Word
      <4>2. Shifted(0, Width) = Width
        BY <1>0 DEF Shifted
      <4>. QED
        BY <2>3, <3>2, <4>1, <4>2 DEF OutAll
    <3>4. r.pc = 1
      <4>1. DOMAIN z = DOMAIN Fresh /\ z.wrap = Wrap(0, 1) /\ z.pc = 0
        BY <2>1, <2>2, <3>2 DEF OutAll
      <4>2. 1 \in 0 .. 3 /\ 0 \in 0 .. 1 /\ 0 # 1 /\ 0 + 1 = 1
        OBVIOUS
      <4>3. Advanced(z).pc = 1
        BY <4>1, <4>2, NextOf
      <4>. QED
        BY <3>2, <4>3 DEF Goes
    <3>5. /\ r.in = Width /\ r.isr = q.osr /\ r.out = Width /\ r.stall = "none" /\ r.tx = q.tx /\ r.rx = q.rx
          /\ DOMAIN r = DOMAIN Fresh /\ r.shift = q.shift /\ r.wrap = q.wrap
      BY <3>2, <3>3 DEF Goes, Held, OutAll
    <3>6. Carries(d, r, <<r.isr>>) /\ Does(r, ToIsr, OnlyPulling, Wrap(0, 1))
      BY <2>1, <2>3, <3>5 DEF Carries, Does
    <3>7. IsrState(r, <<r.isr>>)
      BY <3>4, <3>5 DEF IsrState, Redo, Ready
    <3>. QED
      BY <1>5, <2>1, <3>6, <3>7 DEF IsrOk, n, q
  <2>4. CASE q.out = Width /\ q.tx = <<>> /\ Carries(d, q, <<>>)
    <3>1. Starved(q)
      <4>1. NeedsWord(q) <=> q.out >= Width
        BY <2>2, OnlyPullingIs
      <4>2. Width >= Width
        BY <1>0
      <4>3. NeedsWord(q)
        BY <2>4, <4>1, <4>2
      <4>. QED
        BY <2>4, <4>3 DEF Starved, TxEmpty
    <3>2. q.cur.op = "OUT"
      BY <2>1 DEF OutTo
    <3>3. Held(r, q) /\ r.pc = q.pc /\ r.cur = q.cur /\ r.stall = "autopull"
      BY <2>1, <3>1, <3>2, OutWaits DEF r
    <3>4. r.in = 0 /\ r.out = Width
      BY <2>1, <2>4, <3>3 DEF Held
    <3>5. IsrState(r, <<>>)
      BY <2>1, <3>3, <3>4 DEF IsrState, Spent
    <3>. QED
      BY <1>5, <2>1, <2>4, <3>3, <3>5, DoesHeld, CarriesHeld DEF IsrOk, n, q
  <2>. QED
    BY <2>1, <2>3, <2>4
<1>8. CASE m.pc = 1
  <2>1. /\ q.cur = GiveIfFull /\ q.pc = 1 /\ q.stall \in {"none", "instr"}
        /\ DOMAIN q = DOMAIN Fresh /\ Does(q, ToIsr, OnlyPulling, Wrap(0, 1)) /\ q.in = Width
        /\ \/ q.out = Width /\ Carries(d, q, <<q.isr>>)
           \/ q.out = 0 /\ Carries(d, q, <<q.isr, q.osr>>)
    <3>1. CASE m.stall = "instr"
      <4>1. q = m
        BY <3>1, FetchedStalled
      <4>. HIDE DEF q, n, r
      <4>. QED
        BY <1>1, <1>2, <1>8, <3>1, <4>1 DEF IsrState, Redo, Ready
    <3>2. CASE m.stall = "none"
      <4>1. m.in = Width /\ m.out = Width /\ u = <<m.isr>>
        BY <1>1, <1>8, <3>2 DEF IsrState
      <4>2. q.pc = m.pc /\ q.cur = prog[m.pc] /\ q.stall = "none"
        BY <1>2, <3>2, FetchedNext
      <4>3. IF NeedsWord(m) /\ m.tx # <<>> THEN \E p : Took(p, m) /\ Held(q, p) ELSE Held(q, m)
        BY <1>2, <3>2, FetchedNext
      <4>. HIDE DEF q, n, r
      <4>4. CASE NeedsWord(m) /\ m.tx # <<>>
        <5>1. PICK p : Took(p, m) /\ Held(q, p)
          BY <4>3, <4>4
        <5>2. Carries(d, q, <<m.isr, q.osr>>)
          BY <1>1, <4>1, <4>4, <5>1, CarriesTaken
        <5>3. q.out = 0 /\ q.isr = m.isr
          BY <5>1 DEF Held, Took
        <5>. QED
          BY <1>4, <1>6, <1>8, <4>1, <4>2, <5>1, <5>2, <5>3
      <4>5. CASE ~(NeedsWord(m) /\ m.tx # <<>>)
        <5>1. Held(q, m) /\ Carries(d, q, u)
          BY <1>1, <4>3, <4>5, CarriesHeld
        <5>2. q.out = Width /\ q.isr = m.isr
          BY <4>1, <5>1 DEF Held
        <5>. QED
          BY <1>4, <1>6, <1>8, <4>1, <4>2, <5>1, <5>2
      <4>. QED
        BY <4>4, <4>5
    <3>. QED
      BY <1>0, <1>1, <1>8, <3>1, <3>2 DEF IsrState, Redo, Ready
  <2>. HIDE DEF q, n, r
  <2>2. q.shift = OnlyPulling /\ q.wrap = Wrap(0, 1)
    BY <2>1 DEF Does
  <2>3. IsrReady(q)
    <3>1. IsrReady(q) <=> q.in >= Width
      BY <2>2, OnlyPullingIs
    <3>2. Width >= Width
      BY <1>0
    <3>. QED
      BY <2>1, <3>1, <3>2
  <2>4. IF RxFull(q) THEN Waits(r, q) ELSE Goes(r, Pushed(q))
    BY <2>1, <2>3, GiveTurn DEF r
  <2>5. CASE RxFull(q)
    <3>1. Held(r, q) /\ r.pc = 1 /\ r.stall = "instr" /\ r.cur = GiveIfFull
      BY <2>1, <2>4, <2>5 DEF Waits
    <3>2. r.in = Width /\ r.out = q.out /\ r.isr = q.isr /\ r.osr = q.osr
      BY <2>1, <3>1 DEF Held
    <3>3. Does(r, ToIsr, OnlyPulling, Wrap(0, 1))
      BY <2>1, <3>1, DoesHeld
    <3>4. CASE q.out = Width /\ Carries(d, q, <<q.isr>>)
      <4>1. IsrState(r, <<q.isr>>)
        BY <3>1, <3>2, <3>4 DEF IsrState, Redo
      <4>. QED
        BY <1>5, <2>1, <3>1, <3>3, <3>4, <4>1, CarriesHeld DEF IsrOk, n, q
    <3>5. CASE q.out = 0 /\ Carries(d, q, <<q.isr, q.osr>>)
      <4>1. IsrState(r, <<q.isr, q.osr>>)
        BY <3>1, <3>2, <3>5 DEF IsrState
      <4>. QED
        BY <1>5, <2>1, <3>1, <3>3, <3>5, <4>1, CarriesHeld DEF IsrOk, n, q
    <3>. QED
      BY <2>1, <3>4, <3>5
  <2>6. CASE ~RxFull(q)
    <3>1. Gave(Pushed(q), q) /\ Goes(r, Pushed(q))
      BY <2>1, <2>4, <2>6, PushedGave
    <3>2. r.pc = 0
      <4>1. DOMAIN Pushed(q) = DOMAIN Fresh /\ Pushed(q).wrap = Wrap(0, 1) /\ Pushed(q).pc = 1
        BY <2>1, <2>2, <3>1 DEF Gave
      <4>2. 1 \in 0 .. 3 /\ 1 \in 0 .. 1
        OBVIOUS
      <4>3. Advanced(Pushed(q)).pc = 0
        BY <4>1, <4>2, NextOf
      <4>. QED
        BY <3>1, <4>3 DEF Goes
    <3>3. /\ r.in = 0 /\ r.out = q.out /\ r.osr = q.osr /\ r.stall = "none" /\ Held(r, Pushed(q))
          /\ DOMAIN r = DOMAIN Fresh /\ r.shift = q.shift /\ r.wrap = q.wrap
      BY <3>1 DEF Goes, Held, Gave
    <3>4. Does(r, ToIsr, OnlyPulling, Wrap(0, 1))
      BY <2>1, <3>3 DEF Does
    <3>5. CASE q.out = Width /\ Carries(d, q, <<q.isr>>)
      <4>1. Carries(d, r, <<>>)
        BY <3>1, <3>3, <3>5, CarriesGiven
      <4>2. IsrState(r, <<>>)
        BY <3>2, <3>3, <3>5 DEF IsrState, Spent, Ready
      <4>. QED
        BY <1>5, <2>1, <3>4, <4>1, <4>2 DEF IsrOk, n, q
    <3>6. CASE q.out = 0 /\ Carries(d, q, <<q.isr, q.osr>>)
      <4>1. Carries(d, r, <<q.osr>>)
        BY <3>1, <3>3, <3>6, CarriesGiven
      <4>2. IsrState(r, <<q.osr>>)
        BY <3>2, <3>3, <3>6 DEF IsrState, Ready
      <4>. QED
        BY <1>5, <2>1, <3>4, <4>1, <4>2 DEF IsrOk, n, q
    <3>. QED
      BY <2>1, <3>5, <3>6
  <2>. QED
    BY <2>5, <2>6
<1>. QED
  BY <1>1, <1>7, <1>8 DEF IsrState

-----------------------------------------------------------------------------
(* Bit by bit *)

\* k bits of the only word are in the ISR and the others in the OSR, or the
\* next one is in X.
Between(d, m, k) ==
    /\ m.in = k /\ m.out = k
    /\ \E w : Carries(d, m, <<w>>) /\ Half(m.shift.outRight, m.isr, m.osr, k, w)
Moving(d, m, k) ==
    /\ m.in = k /\ m.out = k + 1
    /\ \E w : Carries(d, m, <<w>>) /\ Split(m.shift.outRight, m.isr, m.osr, m.x, k, w)
\* No word is in the registers.
Idle(d, m) == m.in = 0 /\ m.isr = 0 /\ m.out = Width /\ Carries(d, m, <<>>)

LEMMA BitsHeld ==
    ASSUME NEW d, NEW m, NEW n, Held(n, m), NEW k
    PROVE  /\ Between(d, m, k) => Between(d, n, k)
           /\ Moving(d, m, k) => Moving(d, n, k)
           /\ Idle(d, m) => Idle(d, n)
<1>1. /\ n.x = m.x /\ n.osr = m.osr /\ n.isr = m.isr /\ n.out = m.out /\ n.in = m.in
      /\ n.shift = m.shift
  BY DEF Held
<1>2. \A u : Carries(d, m, u) => Carries(d, n, u)
  BY CarriesHeld
<1>. QED
  BY <1>1, <1>2 DEF Between, Moving, Idle

\* A word is taken when there is none.
LEMMA BitsBegin ==
    ASSUME NEW d, NEW m, m.tx # <<>>, m.in = 0, m.isr = 0, Carries(d, m, <<>>), NEW p, Took(p, m),
           NEW n, Held(n, p), m.shift.outRight \in BOOLEAN
    PROVE  Between(d, n, 0)
<1>1. n.osr \in Word /\ Carries(d, n, <<n.osr>>)
  BY CarriesTaken
<1>2. n.in = 0 /\ n.out = 0 /\ n.isr = 0 /\ n.shift = m.shift
  BY DEF Took, Held
<1>3. Half(m.shift.outRight, 0, n.osr, 0, n.osr)
  BY <1>1, HalfBegins
<1>. QED
  BY <1>1, <1>2, <1>3 DEF Between

LEMMA BitsOut ==
    ASSUME NEW d, NEW m, NEW k \in 0 .. Width - 1, Between(d, m, k), m.shift.outRight \in BOOLEAN,
           NEW z, OutBit(z, m), NEW n, Held(n, z)
    PROVE  Moving(d, n, k)
<1>1. PICK w : Carries(d, m, <<w>>) /\ Half(m.shift.outRight, m.isr, m.osr, k, w)
  BY DEF Between
<1>2. Split(m.shift.outRight, m.isr, Without(m.shift.outRight, m.osr), FirstBit(m.shift.outRight, m.osr), k, w)
  BY <1>1, HalfSplits
<1>3. /\ n.x = FirstBit(m.shift.outRight, m.osr) /\ n.osr = Without(m.shift.outRight, m.osr)
      /\ n.isr = m.isr /\ n.in = m.in /\ n.out = Shifted(m.out, 1) /\ n.shift = m.shift
      /\ n.rx = m.rx /\ n.tx = m.tx
  BY DEF OutBit, Held
<1>4. Carries(d, n, <<w>>)
  BY <1>1, <1>3 DEF Carries
<1>5. n.in = k /\ n.out = k + 1
  BY <1>3, PioAssumption DEF Between, Shifted
<1>6. Split(n.shift.outRight, n.isr, n.osr, n.x, k, w)
  BY <1>2, <1>3
<1>. QED
  BY <1>4, <1>5, <1>6 DEF Moving

LEMMA BitsIn ==
    ASSUME NEW d, NEW m, NEW k \in 0 .. Width - 1, Moving(d, m, k), m.shift.outRight \in BOOLEAN,
           m.shift.inRight = m.shift.outRight, NEW z, InBit(z, m)
    PROVE  Between(d, z, k + 1)
<1>1. PICK w : Carries(d, m, <<w>>) /\ Split(m.shift.outRight, m.isr, m.osr, m.x, k, w)
  BY DEF Moving
<1>2. Half(m.shift.outRight, WithBit(m.shift.outRight, m.isr, m.x), m.osr, k + 1, w)
  BY <1>1, SplitJoins
<1>3. /\ z.isr = WithBit(m.shift.outRight, m.isr, m.x) /\ z.osr = m.osr /\ z.in = Shifted(m.in, 1)
      /\ z.out = m.out /\ z.shift = m.shift /\ z.rx = m.rx /\ z.tx = m.tx
  BY DEF InBit
<1>4. Carries(d, z, <<w>>)
  BY <1>1, <1>3 DEF Carries
<1>5. z.in = k + 1 /\ z.out = k + 1
  BY <1>3, PioAssumption DEF Moving, Shifted
<1>6. Half(z.shift.outRight, z.isr, z.osr, k + 1, w)
  BY <1>2, <1>3
<1>. QED
  BY <1>4, <1>5, <1>6 DEF Between

\* A word is complete.
LEMMA BitsEnd ==
    ASSUME NEW d, NEW m, Between(d, m, Width), m.shift.outRight \in BOOLEAN
    PROVE  m.in = Width /\ m.out = Width /\ Carries(d, m, <<m.isr>>)
<1>1. PICK w : Carries(d, m, <<w>>) /\ Half(m.shift.outRight, m.isr, m.osr, Width, w)
  BY DEF Between
<1>2. m.isr = w
  BY <1>1, HalfEnds
<1>. QED
  BY <1>1, <1>2 DEF Between

-----------------------------------------------------------------------------
(* ByCount *)

CountState(d, m) ==
    \/ m.pc = 0 /\ Idle(d, m) /\ Redo(m, TakeIfEmpty)
    \/ m.pc \in {0, 1} /\ Ready(m) /\ \E k \in 0 .. Width - 1 : Between(d, m, k)
    \/ m.pc = 2 /\ Ready(m) /\ \E k \in 0 .. Width - 1 : Moving(d, m, k)
    \/ m.pc = 3 /\ Redo(m, GiveIfFull) /\ \E k \in 1 .. Width : Between(d, m, k)

CountOk(d, m) == Does(m, ByCount, Manual, Wrap(0, 3)) /\ CountState(d, m)

LEMMA ManualIs ==
    ASSUME NEW m, m.shift = Manual
    PROVE  /\ ~m.shift.autopull /\ ~m.shift.autopush
           /\ m.shift.outRight \in BOOLEAN /\ m.shift.inRight = m.shift.outRight
           /\ OsrUsed(m) <=> m.out >= Width
           /\ IsrReady(m) <=> m.in >= Width
<1>1. /\ m.shift.autopull = FALSE /\ m.shift.autopush = FALSE /\ m.shift.outRight = TRUE
      /\ m.shift.inRight = TRUE /\ m.shift.pull = Width /\ m.shift.push = Width
  BY DEF Manual, Shift
<1>. QED
  BY <1>1 DEF OsrUsed, IsrReady

LEMMA CountExecute ==
    ASSUME NEW d, NEW m, CountOk(d, m), NEW f, NEW i, NEW level
    PROVE  CountOk(d, After(Exec(Fetched(m), f, i, Fetched(m).cur, level)))
<1>. DEFINE q == Fetched(m)
            n == After(Exec(q, f, i, q.cur, level))
            r == After(Plain(q, f, i, q.cur, level))
<1>0. Width \in Nat /\ Width >= 1
  BY PioAssumption
<1>1. CountState(d, m)
  BY DEF CountOk
<1>2. Does(m, ByCount, Manual, Wrap(0, 3)) /\ DOMAIN m = DOMAIN Fresh /\ m.shift = Manual
  BY DEF CountOk, Does
<1>3. m.stall \in {"none", "instr"} /\ (m.stall = "instr" => m.pc \in {0, 3}) /\ m.pc \in 0 .. 3
  BY <1>1 DEF CountState, Redo, Ready
<1>4. ~NeedsWord(m)
  BY <1>2, ManualIs DEF NeedsWord
<1>5. /\ Held(q, m) /\ q.pc = m.pc /\ q.stall = m.stall
      /\ q.cur = IF m.stall = "instr" THEN m.cur ELSE prog[m.pc]
  BY <1>2, <1>3, <1>4, FetchedManual
<1>. HIDE DEF q
<1>6. /\ DOMAIN q = DOMAIN Fresh /\ q.wrap = Wrap(0, 3) /\ q.shift = Manual
      /\ Does(q, ByCount, Manual, Wrap(0, 3))
  BY <1>2, <1>5, DoesHeld DEF Held, Does
<1>7. prog[0] = TakeIfEmpty /\ prog[1] = OutTo("x", 1, 0) /\ prog[2] = InFrom("x", 1) /\ prog[3] = GiveIfFull
  <2>1. prog = Loaded(ByCount)
    BY <1>2 DEF Does
  <2>2. /\ ByCount[1] = TakeIfEmpty /\ ByCount[2] = OutTo("x", 1, 0) /\ ByCount[3] = InFrom("x", 1)
        /\ ByCount[4] = GiveIfFull
    BY DEF ByCount
  <2>. QED
    BY <2>1, <2>2, LoadedIs
<1>8. q.cur \in {TakeIfEmpty, OutTo("x", 1, 0), InFrom("x", 1), GiveIfFull} => n = r
  BY NotInjecting, ProgramsInject
<1>9. ASSUME NEW z, Goes(r, z), DOMAIN z = DOMAIN Fresh, z.wrap = Wrap(0, 3), z.shift = Manual, z.pc = m.pc
      PROVE  /\ r.pc = (IF m.pc = 3 THEN 0 ELSE m.pc + 1) /\ r.stall = "none" /\ Held(r, z)
             /\ Does(r, ByCount, Manual, Wrap(0, 3))
  <2>1. r.pc = (IF m.pc = 3 THEN 0 ELSE m.pc + 1) /\ r.stall = "none" /\ Held(r, z)
    BY <1>3, <1>9, NextOf DEF Goes
  <2>. HIDE DEF r, n
  <2>. QED
    BY <1>2, <1>9, <2>1 DEF Does, Held
<1>10. q.shift.outRight \in BOOLEAN /\ q.shift.inRight = q.shift.outRight /\ ~q.shift.autopush
  BY <1>6, ManualIs
<1>11. (OsrUsed(q) <=> q.out >= Width) /\ (IsrReady(q) <=> q.in >= Width)
  BY <1>6, ManualIs
<1>. HIDE DEF r, n
<1>12. CASE m.pc = 0 /\ Idle(d, m) /\ Redo(m, TakeIfEmpty)
  <2>1. q.cur = TakeIfEmpty /\ Idle(d, q)
    BY <1>5, <1>7, <1>12, BitsHeld DEF Redo, Ready
  <2>2. OsrUsed(q)
    BY <1>0, <1>11, <2>1 DEF Idle
  <2>3. IF q.tx = <<>> THEN Waits(r, q) ELSE Goes(r, Pulled(q))
    BY <1>6, <2>1, <2>2, TakeIfEmptyTurn DEF r
  <2>4. CASE q.tx = <<>>
    <3>1. Held(r, q) /\ r.pc = 0 /\ (r.stall = "instr" /\ r.cur = TakeIfEmpty)
      BY <1>3, <1>5, <1>12, <2>1, <2>3, <2>4 DEF Waits
    <3>2. Idle(d, r) /\ Does(r, ByCount, Manual, Wrap(0, 3))
      BY <1>6, <2>1, <3>1, BitsHeld, DoesHeld
    <3>. QED
      BY <1>8, <2>1, <3>1, <3>2 DEF CountOk, CountState, Redo, n, q
  <2>5. CASE q.tx # <<>>
    <3>1. Took(Pulled(q), q) /\ Goes(r, Pulled(q))
      BY <1>6, <2>3, <2>5, PulledTook
    <3>2. r.pc = 1 /\ r.stall = "none" /\ Held(r, Pulled(q)) /\ Does(r, ByCount, Manual, Wrap(0, 3))
      BY <1>5, <1>6, <1>9, <1>12, <3>1 DEF Took
    <3>3. Between(d, r, 0)
      BY <1>10, <2>1, <2>5, <3>1, <3>2, BitsBegin DEF Idle
    <3>4. 0 \in 0 .. Width - 1
      BY <1>0
    <3>5. CountState(d, r)
      BY <3>2, <3>3, <3>4 DEF CountState, Ready
    <3>. QED
      BY <1>8, <2>1, <3>2, <3>5 DEF CountOk, n, q
  <2>. QED
    BY <2>4, <2>5
<1>13. ASSUME NEW k \in 0 .. Width - 1, m.pc = 0, Ready(m), Between(d, m, k)
       PROVE  CountOk(d, n)
  <2>1. q.cur = TakeIfEmpty /\ Between(d, q, k)
    BY <1>5, <1>7, <1>13, BitsHeld DEF Ready
  <2>2. ~OsrUsed(q)
    BY <1>0, <1>11, <2>1 DEF Between
  <2>3. Goes(r, q)
    BY <1>6, <2>1, <2>2, TakeIfEmptyTurn DEF r
  <2>4. r.pc = 1 /\ r.stall = "none" /\ Held(r, q) /\ Does(r, ByCount, Manual, Wrap(0, 3))
    BY <1>5, <1>6, <1>9, <1>13, <2>3
  <2>5. Between(d, r, k)
    BY <2>1, <2>4, BitsHeld
  <2>6. CountState(d, r)
    BY <2>4, <2>5 DEF CountState, Ready
  <2>. QED
    BY <1>8, <2>1, <2>4, <2>6 DEF CountOk
<1>14. ASSUME NEW k \in 0 .. Width - 1, m.pc = 1, Ready(m), Between(d, m, k)
       PROVE  CountOk(d, n)
  <2>1. q.cur = OutTo("x", 1, 0) /\ Between(d, q, k)
    BY <1>5, <1>7, <1>14, BitsHeld DEF Ready
  <2>2. ~NeedsWord(q)
    BY <1>6, ManualIs DEF NeedsWord
  <2>3. PICK z : OutBit(z, q) /\ Goes(r, z)
    BY <1>6, <2>1, <2>2, OutTurn DEF r
  <2>4. r.pc = 2 /\ r.stall = "none" /\ Held(r, z) /\ Does(r, ByCount, Manual, Wrap(0, 3))
    BY <1>5, <1>6, <1>9, <1>14, <2>3 DEF OutBit
  <2>5. Moving(d, r, k)
    BY <1>10, <2>1, <2>3, <2>4, BitsOut
  <2>6. CountState(d, r)
    BY <2>4, <2>5 DEF CountState, Ready
  <2>. QED
    BY <1>8, <2>1, <2>4, <2>6 DEF CountOk
<1>15. ASSUME NEW k \in 0 .. Width - 1, m.pc = 2, Ready(m), Moving(d, m, k)
       PROVE  CountOk(d, n)
  <2>. DEFINE z == ShiftedIn(q, InFrom("x", 1), level)
  <2>1. q.cur = InFrom("x", 1) /\ Moving(d, q, k) /\ q.stall # "autopush"
    BY <1>5, <1>7, <1>15, BitsHeld DEF Ready
  <2>2. Goes(r, z)
    BY <1>6, <1>10, <2>1, InTurn DEF r
  <2>3. InBit(z, q)
    BY <1>6, ShiftedInIs
  <2>. HIDE DEF z
  <2>4. r.pc = 3 /\ r.stall = "none" /\ Held(r, z) /\ Does(r, ByCount, Manual, Wrap(0, 3))
    BY <1>5, <1>6, <1>9, <1>15, <2>2, <2>3 DEF InBit
  <2>5. Between(d, z, k + 1)
    BY <1>10, <2>1, <2>3, BitsIn
  <2>6. Between(d, r, k + 1) /\ k + 1 \in 1 .. Width
    <3>1. k + 1 \in 1 .. Width
      BY <1>0
    <3>. QED
      BY <2>4, <2>5, <3>1, BitsHeld
  <2>7. CountState(d, r)
    BY <2>4, <2>6 DEF CountState, Redo, Ready
  <2>. QED
    BY <1>8, <2>1, <2>4, <2>7 DEF CountOk
<1>16. ASSUME NEW k \in 1 .. Width, m.pc = 3, Redo(m, GiveIfFull), Between(d, m, k)
       PROVE  CountOk(d, n)
  <2>1. q.cur = GiveIfFull /\ Between(d, q, k)
    BY <1>5, <1>7, <1>16, BitsHeld DEF Redo, Ready
  <2>2. IsrReady(q) <=> k = Width
    BY <1>0, <1>11, <2>1 DEF Between
  <2>3. CASE k # Width
    <3>1. Goes(r, q)
      BY <1>6, <2>1, <2>2, <2>3, GiveSkipped DEF r
    <3>2. r.pc = 0 /\ r.stall = "none" /\ Held(r, q) /\ Does(r, ByCount, Manual, Wrap(0, 3))
      BY <1>5, <1>6, <1>9, <1>16, <3>1
    <3>3. Between(d, r, k) /\ k \in 0 .. Width - 1
      <4>1. k \in 0 .. Width - 1
        BY <1>0, <2>3
      <4>. QED
        BY <2>1, <3>2, <4>1, BitsHeld
    <3>4. CountState(d, r)
      BY <3>2, <3>3 DEF CountState, Ready
    <3>. QED
      BY <1>8, <2>1, <3>2, <3>4 DEF CountOk
  <2>4. CASE k = Width
    <3>1. IF RxFull(q) THEN Waits(r, q) ELSE Goes(r, Pushed(q))
      BY <1>6, <2>1, <2>2, <2>4, GiveTurn DEF r
    <3>2. CASE RxFull(q)
      <4>1. Held(r, q) /\ r.pc = 3 /\ (r.stall = "instr" /\ r.cur = GiveIfFull)
        BY <1>3, <1>5, <1>16, <2>1, <3>1, <3>2 DEF Waits
      <4>2. Between(d, r, k) /\ Does(r, ByCount, Manual, Wrap(0, 3))
        BY <1>6, <2>1, <4>1, BitsHeld, DoesHeld
      <4>3. CountState(d, r)
        BY <4>1, <4>2 DEF CountState, Redo
      <4>. QED
        BY <1>8, <2>1, <4>2, <4>3 DEF CountOk
    <3>3. CASE ~RxFull(q)
      <4>1. Gave(Pushed(q), q) /\ Goes(r, Pushed(q))
        BY <1>6, <3>1, <3>3, PushedGave
      <4>2. r.pc = 0 /\ r.stall = "none" /\ Held(r, Pushed(q)) /\ Does(r, ByCount, Manual, Wrap(0, 3))
        BY <1>5, <1>6, <1>9, <1>16, <4>1 DEF Gave
      <4>3. q.out = Width /\ Carries(d, q, <<q.isr>>)
        BY <1>10, <2>1, <2>4, BitsEnd
      <4>4. Carries(d, r, <<>>)
        BY <4>1, <4>2, <4>3, CarriesGiven
      <4>5. Idle(d, r)
        BY <4>1, <4>2, <4>3, <4>4 DEF Idle, Held, Gave
      <4>6. CountState(d, r)
        BY <4>2, <4>5 DEF CountState, Redo, Ready
      <4>. QED
        BY <1>8, <2>1, <4>2, <4>6 DEF CountOk
    <3>. QED
      BY <3>2, <3>3
  <2>. QED
    BY <2>3, <2>4
<1>17. CountOk(d, n)
  BY <1>1, <1>12, <1>13, <1>14, <1>15, <1>16 DEF CountState, n, q
<1>. QED
  BY <1>17 DEF n, q

-----------------------------------------------------------------------------
(* ByBit *)

\* A complete word is in the ISR, and perhaps the next one in the OSR.
Complete(d, m) ==
    /\ m.in = Width
    /\ \/ m.out = Width /\ Carries(d, m, <<m.isr>>)
       \/ m.out = 0 /\ m.osr \in Word /\ Carries(d, m, <<m.isr, m.osr>>)

BitState(d, m) ==
    \/ m.pc = 0 /\ Idle(d, m) /\ (Ready(m) \/ (m.stall = "autopull" /\ m.cur = OutTo("x", 1, 1)))
    \/ m.pc = 0 /\ Ready(m) /\ \E k \in 0 .. Width - 1 : Between(d, m, k)
    \/ m.pc = 1 /\ Ready(m) /\ \E k \in 0 .. Width - 1 : Moving(d, m, k)
    \/ m.pc = 1 /\ m.stall = "autopush" /\ Complete(d, m)

BitOk(d, m) ==
    \E right \in BOOLEAN : Does(m, ByBit, Automatic(right), Wrap(0, 1)) /\ BitState(d, m)

LEMMA AutomaticIs ==
    ASSUME NEW right \in BOOLEAN, NEW m, m.shift = Automatic(right)
    PROVE  /\ m.shift.autopull /\ m.shift.autopush
           /\ m.shift.outRight \in BOOLEAN /\ m.shift.inRight = m.shift.outRight
           /\ NeedsWord(m) <=> m.out >= Width
           /\ IsrReady(m) <=> m.in >= Width
<1>1. /\ m.shift.autopull = TRUE /\ m.shift.autopush = TRUE /\ m.shift.outRight = right
      /\ m.shift.inRight = right /\ m.shift.pull = Width /\ m.shift.push = Width
  BY DEF Automatic, Shift
<1>. QED
  BY <1>1 DEF NeedsWord, OsrUsed, IsrReady

\* The complete word is given away.
LEMMA BitGiven ==
    ASSUME NEW d, NEW m, Complete(d, m), m.shift.outRight \in BOOLEAN, NEW p, Gave(p, m),
           NEW n, Held(n, p), n.pc = 0, n.stall = "none"
    PROVE  BitState(d, n)
<1>1. /\ n.isr = 0 /\ n.in = 0 /\ n.out = m.out /\ n.osr = m.osr /\ n.shift = m.shift
  BY DEF Gave, Held
<1>2. CASE m.out = Width /\ Carries(d, m, <<m.isr>>)
  <2>1. Carries(d, n, <<>>)
    BY <1>2, CarriesGiven
  <2>2. Idle(d, n)
    BY <1>1, <1>2, <2>1 DEF Idle
  <2>. QED
    BY <2>2 DEF BitState, Ready
<1>3. CASE m.out = 0 /\ m.osr \in Word /\ Carries(d, m, <<m.isr, m.osr>>)
  <2>1. Carries(d, n, <<m.osr>>)
    BY <1>3, CarriesGiven
  <2>2. Half(m.shift.outRight, 0, m.osr, 0, m.osr)
    BY <1>3, HalfBegins
  <2>3. Between(d, n, 0)
    BY <1>1, <1>3, <2>1, <2>2 DEF Between
  <2>4. 0 \in 0 .. Width - 1
    BY PioAssumption
  <2>. QED
    BY <2>3, <2>4 DEF BitState, Ready
<1>. QED
  BY <1>2, <1>3 DEF Complete

LEMMA BitExecute ==
    ASSUME NEW d, NEW m, BitOk(d, m), ~(m.stall = "autopull" /\ TxEmpty(m)), m.stall # "autopush",
           NEW f, NEW i, NEW level
    PROVE  BitOk(d, After(Exec(Fetched(m), f, i, Fetched(m).cur, level)))
<1>. DEFINE q == Fetched(m)
            n == After(Exec(q, f, i, q.cur, level))
            r == After(Plain(q, f, i, q.cur, level))
<1>0. Width \in Nat /\ Width >= 1 /\ 0 \in 0 .. Width - 1
  BY PioAssumption
<1>1. PICK right \in BOOLEAN : Does(m, ByBit, Automatic(right), Wrap(0, 1)) /\ BitState(d, m)
  BY DEF BitOk
<1>. DEFINE s == Automatic(right)
<1>2. Does(m, ByBit, s, Wrap(0, 1)) /\ DOMAIN m = DOMAIN Fresh /\ m.shift = s /\ m.wrap = Wrap(0, 1)
  BY <1>1 DEF Does
<1>3. /\ m.shift.outRight \in BOOLEAN /\ m.shift.inRight = m.shift.outRight
      /\ NeedsWord(m) <=> m.out >= Width
  BY <1>2, AutomaticIs
<1>4. prog[0] = OutTo("x", 1, 1) /\ prog[1] = InFrom("x", 1)
  <2>1. prog = Loaded(ByBit)
    BY <1>2 DEF Does
  <2>2. ByBit[1] = OutTo("x", 1, 1) /\ ByBit[2] = InFrom("x", 1)
    BY DEF ByBit
  <2>. QED
    BY <2>1, <2>2, LoadedIs
<1>5. q.cur \in {OutTo("x", 1, 1), InFrom("x", 1)} => n = r
  BY NotInjecting, ProgramsInject
<1>6. q.pc = m.pc /\ DOMAIN q = DOMAIN Fresh /\ q.shift = s /\ q.wrap = Wrap(0, 1) /\ Does(q, ByBit, s, Wrap(0, 1))
      /\ q.isr = m.isr /\ q.in = m.in /\ q.x = m.x
      /\ (m.stall = "none" => q.cur = prog[m.pc] /\ q.stall = "none")
      /\ (m.stall = "autopull" => q.cur = m.cur)
      /\ \/ Held(q, m) /\ m.stall = "none" /\ ~(NeedsWord(m) /\ m.tx # <<>>)
         \/ m.tx # <<>> /\ (m.stall = "autopull" \/ NeedsWord(m)) /\ \E p : Took(p, m) /\ Held(q, p)
  <2>1. m.stall \in {"none", "autopull"}
    BY <1>1 DEF BitState, Ready
  <2>2. CASE m.stall = "autopull"
    <3>1. q.pc = m.pc /\ q.cur = m.cur /\ \E p : Took(p, m) /\ Held(q, p)
      BY <1>2, <2>2, FetchedPulled
    <3>. HIDE DEF q, n, r, s
    <3>. QED
      BY <1>2, <2>2, <3>1 DEF Does, Held, Took, TxEmpty
  <2>3. CASE m.stall = "none"
    <3>1. /\ q.pc = m.pc /\ q.cur = prog[m.pc] /\ q.stall = "none"
          /\ IF NeedsWord(m) /\ m.tx # <<>> THEN \E p : Took(p, m) /\ Held(q, p) ELSE Held(q, m)
      BY <1>2, <2>3, FetchedNext
    <3>. HIDE DEF q, n, r, s
    <3>. QED
      BY <1>2, <2>3, <3>1 DEF Does, Held, Took
  <2>. QED
    BY <2>1, <2>2, <2>3
<1>7. /\ q.shift.outRight \in BOOLEAN /\ q.shift.inRight = q.shift.outRight /\ q.shift.autopush
      /\ NeedsWord(q) <=> q.out >= Width
  <2>. HIDE DEF q, n, r
  <2>. QED  BY <1>6, AutomaticIs
<1>. HIDE DEF r, n, q, s
<1>8. ASSUME NEW z, Goes(r, z), DOMAIN z = DOMAIN Fresh, z.wrap = Wrap(0, 1), z.shift = s, z.pc \in {0, 1}
      PROVE  /\ r.pc = (IF z.pc = 1 THEN 0 ELSE 1) /\ r.stall = "none" /\ Held(r, z)
             /\ Does(r, ByBit, s, Wrap(0, 1))
  <2>1. z.pc \in 0 .. 1 /\ 1 \in 0 .. 3 /\ (z.pc # 1 => z.pc + 1 = 1)
    BY <1>8
  <2>2. r.pc = (IF z.pc = 1 THEN 0 ELSE 1) /\ r.stall = "none" /\ Held(r, z)
    BY <1>8, <2>1, NextOf DEF Goes
  <2>. QED
    BY <1>2, <1>8, <2>2 DEF Does, Held
<1>9. SUFFICES Does(r, ByBit, s, Wrap(0, 1)) /\ BitState(d, r) /\ q.cur \in {OutTo("x", 1, 1), InFrom("x", 1)}
  BY <1>5 DEF BitOk, s, n, q
<1>10. CASE m.pc = 0
  <2>1. q.cur = OutTo("x", 1, 1)
    BY <1>1, <1>4, <1>6, <1>10 DEF BitState, Ready
  <2>2. \/ \E k \in 0 .. Width - 1 : Between(d, q, k)
        \/ Idle(d, q) /\ q.tx = <<>>
    <3>1. CASE Idle(d, m)
      <4>1. CASE Held(q, m) /\ ~(NeedsWord(m) /\ m.tx # <<>>)
        <5>1. Width >= Width
          BY <1>0
        <5>2. m.tx = <<>>
          BY <1>3, <3>1, <4>1, <5>1 DEF Idle
        <5>3. Idle(d, q) /\ q.tx = <<>>
          <6>1. Idle(d, q)
            BY <3>1, <4>1, BitsHeld
          <6>. QED
            BY <4>1, <5>2, <6>1 DEF Held
        <5>. QED
          BY <5>3
      <4>2. CASE m.tx # <<>> /\ \E p : Took(p, m) /\ Held(q, p)
        <5>1. PICK p : Took(p, m) /\ Held(q, p)
          BY <4>2
        <5>2. m.in = 0 /\ m.isr = 0 /\ Carries(d, m, <<>>)
          BY <3>1 DEF Idle
        <5>3. Between(d, q, 0)
          BY <1>3, <4>2, <5>1, <5>2, BitsBegin
        <5>. QED
          BY <1>0, <5>3
      <4>. QED
        BY <1>6, <4>1, <4>2
    <3>2. ASSUME NEW k \in 0 .. Width - 1, Between(d, m, k), Ready(m)
          PROVE  \E j \in 0 .. Width - 1 : Between(d, q, j)
      <4>1. ~NeedsWord(m)
        <5>1. ~(k >= Width) /\ m.out = k
          BY <1>0, <3>2 DEF Between
        <5>. QED
          BY <1>3, <5>1
      <4>2. Held(q, m)
        BY <1>6, <3>2, <4>1 DEF Ready
      <4>. QED
        BY <3>2, <4>2, BitsHeld
    <3>. QED
      BY <1>1, <1>10, <3>1, <3>2 DEF BitState
  <2>3. ASSUME NEW k \in 0 .. Width - 1, Between(d, q, k)
        PROVE  Does(r, ByBit, s, Wrap(0, 1)) /\ BitState(d, r)
    <3>1. ~NeedsWord(q)
      <4>1. ~(k >= Width) /\ q.out = k
        BY <1>0, <2>3 DEF Between
      <4>. QED
        BY <1>7, <4>1
    <3>2. PICK z : OutBit(z, q) /\ Goes(r, z)
      BY <1>6, <2>1, <3>1, OutTurn DEF r
    <3>3. r.pc = 1 /\ r.stall = "none" /\ Held(r, z) /\ Does(r, ByBit, s, Wrap(0, 1))
      BY <1>6, <1>8, <1>10, <3>2 DEF OutBit
    <3>4. Moving(d, r, k)
      BY <1>7, <2>3, <3>2, <3>3, BitsOut
    <3>. QED
      BY <3>3, <3>4 DEF BitState, Ready
  <2>4. CASE Idle(d, q) /\ q.tx = <<>>
    <3>1. Width >= Width /\ q.out = Width
      BY <1>0, <2>4 DEF Idle
    <3>2. Starved(q)
      BY <1>7, <2>4, <3>1 DEF Starved, TxEmpty
    <3>3. q.cur.op = "OUT"
      BY <2>1 DEF OutTo
    <3>4. Held(r, q) /\ r.pc = q.pc /\ r.cur = q.cur /\ r.stall = "autopull"
      BY <1>6, <3>2, <3>3, OutWaits DEF r
    <3>5. Idle(d, r) /\ Does(r, ByBit, s, Wrap(0, 1))
      BY <1>6, <2>4, <3>4, BitsHeld, DoesHeld
    <3>. QED
      BY <1>6, <1>10, <2>1, <3>4, <3>5 DEF BitState
  <2>. QED
    BY <2>1, <2>2, <2>3, <2>4
<1>11. CASE m.pc = 1
  <2>1. PICK k \in 0 .. Width - 1 : Moving(d, m, k)
    BY <1>1, <1>11 DEF BitState
  <2>2. Ready(m) /\ q.cur = InFrom("x", 1) /\ q.stall # "autopush"
    BY <1>1, <1>4, <1>6, <1>11 DEF BitState, Ready
  <2>. DEFINE z == ShiftedIn(q, InFrom("x", 1), level)
  <2>3. InBit(z, q)
    BY <1>6, ShiftedInIs
  <2>4. IF ~q.shift.autopush \/ ~IsrReady(z) THEN Goes(r, z)
        ELSE IF RxFull(z) THEN Held(r, z) /\ r.pc = q.pc /\ r.cur = q.cur /\ r.stall = "autopush"
        ELSE Goes(r, Pushed(z))
    BY <1>6, <2>2, InTurn DEF r
  <2>. HIDE DEF z
  <2>5. /\ DOMAIN z = DOMAIN Fresh /\ z.shift = s /\ z.wrap = Wrap(0, 1) /\ z.pc = 1 /\ z.in = k + 1
        /\ z.tx = q.tx /\ z.rx = q.rx /\ z.out = q.out /\ z.osr = q.osr
    BY <1>6, <1>11, <2>1, <2>3, PioAssumption DEF InBit, Moving, Shifted
  <2>6. /\ IsrReady(z) <=> z.in >= Width
        /\ z.shift.outRight \in BOOLEAN
    BY <2>5, AutomaticIs DEF s
  <2>7. CASE k + 1 < Width
    <3>1. ~(m.out >= Width) /\ ~(z.in >= Width)
      BY <1>0, <2>1, <2>5, <2>7 DEF Moving
    <3>2. Held(q, m)
      BY <1>3, <1>6, <2>2, <3>1 DEF Ready
    <3>3. Moving(d, q, k)
      BY <2>1, <3>2, BitsHeld
    <3>4. Between(d, z, k + 1)
      BY <1>7, <2>3, <3>3, BitsIn
    <3>5. Goes(r, z)
      BY <2>4, <2>6, <3>1
    <3>6. r.pc = 0 /\ r.stall = "none" /\ Held(r, z) /\ Does(r, ByBit, s, Wrap(0, 1))
      BY <1>8, <2>5, <3>5
    <3>7. Between(d, r, k + 1)
      BY <3>4, <3>6, BitsHeld
    <3>8. k + 1 \in 0 .. Width - 1
      BY <1>0, <2>7
    <3>. QED
      BY <2>2, <3>6, <3>7, <3>8 DEF BitState, Ready
  <2>8. CASE ~(k + 1 < Width)
    <3>1. k + 1 = Width /\ Width >= Width
      BY <1>0, <2>8
    <3>2. PICK w : Carries(d, m, <<w>>) /\ Split(m.shift.outRight, m.isr, m.osr, m.x, k, w)
      BY <2>1 DEF Moving
    <3>3. z.isr = w
      <4>1. WithBit(m.shift.outRight, m.isr, m.x) = w
        BY <1>3, <3>1, <3>2, LastBit
      <4>2. q.shift = m.shift
        BY <1>2, <1>6
      <4>. QED
        BY <1>3, <1>6, <2>3, <4>1, <4>2 DEF InBit
    <3>4. Complete(d, z)
      <4>1. CASE Held(q, m)
        <5>1. Carries(d, q, <<w>>) /\ q.out = Width
          <6>1. Carries(d, q, <<w>>)
            BY <3>2, <4>1, CarriesHeld
          <6>2. q.out = m.out
            BY <4>1 DEF Held
          <6>. QED
            BY <2>1, <3>1, <6>1, <6>2 DEF Moving
        <5>. QED
          BY <2>5, <3>1, <3>3, <5>1 DEF Complete, Carries
      <4>2. CASE m.tx # <<>> /\ \E p : Took(p, m) /\ Held(q, p)
        <5>1. PICK p : Took(p, m) /\ Held(q, p)
          BY <4>2
        <5>2. q.osr \in Word /\ Carries(d, q, <<w, q.osr>>)
          BY <3>2, <4>2, <5>1, CarriesTaken
        <5>3. q.out = 0
          BY <5>1 DEF Took, Held
        <5>. QED
          BY <2>5, <3>1, <3>3, <5>2, <5>3 DEF Complete, Carries
      <4>. QED
        BY <1>6, <4>1, <4>2
    <3>5. IsrReady(z)
      BY <2>5, <2>6, <3>1
    <3>6. CASE RxFull(z)
      <4>1. Held(r, z) /\ r.pc = 1 /\ r.stall = "autopush"
        BY <1>6, <1>7, <1>11, <2>4, <3>5, <3>6
      <4>2. Complete(d, r) /\ Does(r, ByBit, s, Wrap(0, 1))
        BY <1>2, <2>5, <3>4, <4>1 DEF Complete, Held, Does, Carries
      <4>. QED
        BY <2>2, <4>1, <4>2 DEF BitState
    <3>7. CASE ~RxFull(z)
      <4>1. Goes(r, Pushed(z)) /\ Gave(Pushed(z), z)
        BY <1>7, <2>4, <2>5, <3>5, <3>7, PushedGave
      <4>2. r.pc = 0 /\ r.stall = "none" /\ Held(r, Pushed(z)) /\ Does(r, ByBit, s, Wrap(0, 1))
        BY <1>8, <2>5, <4>1 DEF Gave
      <4>3. BitState(d, r)
        BY <2>6, <3>4, <4>1, <4>2, BitGiven
      <4>. QED
        BY <2>2, <4>2, <4>3
    <3>. QED
      BY <3>6, <3>7
  <2>. QED
    BY <2>7, <2>8
<1>. QED
  BY <1>1, <1>10, <1>11 DEF BitState

\* The autopush succeeds at last.
LEMMA BitRetry ==
    ASSUME NEW d, NEW m, BitOk(d, m), m.stall = "autopush", NEW t
    PROVE  BitOk(d, [Advanced(Pushed(m)) EXCEPT !.stall = "none", !.delay = t])
<1>. DEFINE p == Pushed(m)
            a == Advanced(p)
            n == [a EXCEPT !.stall = "none", !.delay = t]
<1>1. PICK right \in BOOLEAN : Does(m, ByBit, Automatic(right), Wrap(0, 1)) /\ BitState(d, m)
  BY DEF BitOk
<1>2. m.pc = 1 /\ Complete(d, m) /\ DOMAIN m = DOMAIN Fresh /\ m.wrap = Wrap(0, 1) /\ m.shift = Automatic(right)
  BY <1>1 DEF BitState, Ready, Does
<1>3. m.shift.outRight \in BOOLEAN
  BY <1>2, AutomaticIs
<1>4. Gave(p, m)
  BY <1>2, PushedGave
<1>. HIDE DEF p
<1>5. DOMAIN p = DOMAIN Fresh /\ p.pc = 1 /\ p.wrap = Wrap(0, 1)
  BY <1>2, <1>4 DEF Gave
<1>6. /\ DOMAIN a = DOMAIN Fresh /\ a.x = p.x /\ a.osr = p.osr /\ a.isr = p.isr /\ a.out = p.out
      /\ a.in = p.in /\ a.tx = p.tx /\ a.rx = p.rx /\ a.shift = p.shift /\ a.wrap = p.wrap
  BY <1>5 DEF Advanced
<1>7. a.pc = 0
  <2>1. 1 \in 0 .. 3 /\ 1 \in 0 .. 1
    OBVIOUS
  <2>. HIDE DEF a
  <2>2. Advanced(p).pc = 0
    BY <1>5, <2>1, NextOf
  <2>. QED
    BY <2>2 DEF a
<1>. HIDE DEF a
<1>8. Held(n, p) /\ n.pc = 0 /\ n.stall = "none"
  BY <1>6, <1>7 DEF Held, Fresh
<1>. HIDE DEF n
<1>9. BitState(d, n)
  BY <1>2, <1>3, <1>4, <1>8, BitGiven
<1>10. Does(n, ByBit, Automatic(right), Wrap(0, 1))
  BY <1>1, <1>4, <1>8 DEF Does, Gave, Held
<1>11. BitOk(d, n)
  BY <1>9, <1>10 DEF BitOk
<1>. QED
  BY <1>11 DEF n, a, p

-----------------------------------------------------------------------------
(* Every machine that copies *)

\* m copies: the words d are in it, in their order.
CopierOk(d, m) ==
    WordOk(d, m) \/ InjectionOk(d, m) \/ IsrOk(d, m) \/ CountOk(d, m) \/ BitOk(d, m)

CopyInv ==
    /\ DOMAIN sm = Sms /\ DOMAIN duty = Sms /\ DOMAIN due = Sms
    /\ \A i \in Sms : duty[i] = "copies" => CopierOk(due[i], sm[i])

LEMMA CopierCarries ==
    ASSUME NEW d, NEW m, CopierOk(d, m)
    PROVE  \E u : Carries(d, m, u) /\ (WaitsForTx(m) /\ m.in = 0 => u = <<>>)
<1>0. Width # 0 /\ Give.op = "PUSH" /\ GiveIfFull.op = "PUSH" /\ 0 \notin 1 .. Width
  BY PioAssumption DEF Give, GiveIfFull, PushWord
<1>1. CASE WordOk(d, m)
  <2>1. PICK u : WordState(m, u) /\ Carries(d, m, u)
    BY <1>1 DEF WordOk
  <2>. QED
    BY <1>0, <2>1 DEF WordState, Redo, Ready, WaitsForTx
<1>2. CASE InjectionOk(d, m)
  <2>1. PICK u : InjectionState(m, u) /\ Carries(d, m, u)
    BY <1>2 DEF InjectionOk
  <2>. QED
    BY <1>0, <2>1 DEF InjectionState, Redo, Ready, WaitsForTx
<1>3. CASE IsrOk(d, m)
  <2>1. PICK u : IsrState(m, u) /\ Carries(d, m, u)
    BY <1>3 DEF IsrOk
  <2>. QED
    BY <1>0, <2>1 DEF IsrState, Spent, Redo, Ready, WaitsForTx
<1>4. CASE CountOk(d, m)
  <2>1. CASE Idle(d, m)
    BY <2>1 DEF Idle
  <2>2. CASE \E k \in 0 .. Width : Between(d, m, k) /\ (Ready(m) \/ (m.stall = "instr" /\ m.cur = GiveIfFull))
    BY <1>0, <2>2 DEF Between, Ready, WaitsForTx
  <2>3. CASE \E k \in 0 .. Width - 1 : Moving(d, m, k) /\ Ready(m)
    BY <2>3 DEF Moving, Ready, WaitsForTx
  <2>4. \A k : k \in 0 .. Width - 1 \/ k \in 1 .. Width => k \in 0 .. Width
    BY PioAssumption
  <2>. QED
    BY <1>4, <2>1, <2>2, <2>3, <2>4 DEF CountOk, CountState, Redo, Ready
<1>5. CASE BitOk(d, m)
  <2>1. CASE Idle(d, m)
    BY <2>1 DEF Idle
  <2>2. CASE \E k \in 0 .. Width - 1 : Between(d, m, k) /\ Ready(m)
    BY <2>2 DEF Between, Ready, WaitsForTx
  <2>3. CASE \E k \in 0 .. Width - 1 : Moving(d, m, k) /\ Ready(m)
    BY <2>3 DEF Moving, Ready, WaitsForTx
  <2>4. CASE Complete(d, m)
    BY <1>0, <2>4 DEF Complete
  <2>. QED
    BY <1>5, <2>1, <2>2, <2>3, <2>4 DEF BitOk, BitState
<1>. QED
  BY <1>1, <1>2, <1>3, <1>4, <1>5 DEF CopierOk

LEMMA CopierMeans ==
    ASSUME NEW d, NEW m, CopierOk(d, m)
    PROVE  /\ IsPrefixOf(m.rx, d)
           /\ WaitsForTx(m) /\ m.in = 0 /\ TxEmpty(m) => m.rx = d
<1>1. PICK u : Carries(d, m, u) /\ (WaitsForTx(m) /\ m.in = 0 => u = <<>>)
  BY CopierCarries
<1>2. IsPrefixOf(m.rx, d) /\ (u = <<>> /\ m.tx = <<>> => m.rx = d)
  BY <1>1, FlowMeans DEF Carries
<1>. QED
  BY <1>1, <1>2 DEF TxEmpty

\* n is m, but for the words in its FIFOs.
Continues(n, m) ==
    /\ DOMAIN n = DOMAIN Fresh /\ n.pc = m.pc /\ n.stall = m.stall /\ n.cur = m.cur
    /\ n.x = m.x /\ n.osr = m.osr /\ n.isr = m.isr /\ n.out = m.out /\ n.in = m.in
    /\ n.shift = m.shift /\ n.wrap = m.wrap

LEMMA CopierContinues ==
    ASSUME NEW d, NEW m, CopierOk(d, m), NEW n, Continues(n, m), NEW e,
           \A u : Carries(d, m, u) => Carries(e, n, u)
    PROVE  CopierOk(e, n)
<1>1. \A p, s, w : Does(m, p, s, w) => Does(n, p, s, w)
  BY DEF Does, Continues
<1>2. \A in : (Ready(m) => Ready(n)) /\ (Redo(m, in) => Redo(n, in))
  BY DEF Ready, Redo, Continues
<1>3. ASSUME WordOk(d, m) PROVE WordOk(e, n)
  <2>1. \A u : WordState(m, u) => WordState(n, u)
    BY <1>2 DEF WordState, Continues
  <2>. QED
    BY <1>1, <1>3, <2>1 DEF WordOk
<1>4. ASSUME InjectionOk(d, m) PROVE InjectionOk(e, n)
  <2>1. \A u : InjectionState(m, u) => InjectionState(n, u)
    BY <1>2 DEF InjectionState, Continues
  <2>. QED
    BY <1>1, <1>4, <2>1 DEF InjectionOk
<1>5. ASSUME IsrOk(d, m) PROVE IsrOk(e, n)
  <2>1. \A u : IsrState(m, u) => IsrState(n, u)
    BY <1>2 DEF IsrState, Spent, Continues
  <2>. QED
    BY <1>1, <1>5, <2>1 DEF IsrOk
<1>6. \A k : (Between(d, m, k) => Between(e, n, k)) /\ (Moving(d, m, k) => Moving(e, n, k))
  BY DEF Between, Moving, Continues
<1>7. (Idle(d, m) => Idle(e, n)) /\ (Complete(d, m) => Complete(e, n))
  BY DEF Idle, Complete, Continues
<1>8. ASSUME CountOk(d, m) PROVE CountOk(e, n)
  <2>1. CountState(d, m) => CountState(e, n)
    BY <1>2, <1>6, <1>7 DEF CountState, Continues
  <2>. QED
    BY <1>1, <1>8, <2>1 DEF CountOk
<1>9. ASSUME BitOk(d, m) PROVE BitOk(e, n)
  <2>1. BitState(d, m) => BitState(e, n)
    BY <1>2, <1>6, <1>7 DEF BitState, Continues
  <2>. QED
    BY <1>1, <1>9, <2>1 DEF BitOk
<1>. QED
  BY <1>3, <1>4, <1>5, <1>8, <1>9 DEF CopierOk

LEMMA CopierAlike ==
    ASSUME NEW d, NEW m, CopierOk(d, m), NEW n, Continues(n, m), n.rx = m.rx, n.tx = m.tx
    PROVE  CopierOk(d, n)
<1>1. \A u : Carries(d, m, u) => Carries(d, n, u)
  BY DEF Carries
<1>. QED
  BY <1>1, CopierContinues

LEMMA CopierDomain ==
    ASSUME NEW d, NEW m, CopierOk(d, m)
    PROVE  DOMAIN m = DOMAIN Fresh
BY DEF CopierOk, WordOk, InjectionOk, IsrOk, CountOk, BitOk, Does

LEMMA CopierExecutes ==
    ASSUME NEW d, NEW m, CopierOk(d, m), ~(m.stall = "autopull" /\ TxEmpty(m)), m.stall # "autopush",
           NEW f, NEW i, NEW level
    PROVE  CopierOk(d, After(Exec(Fetched(m), f, i, Fetched(m).cur, level)))
<1>. DEFINE n == After(Exec(Fetched(m), f, i, Fetched(m).cur, level))
<1>1. WordOk(d, m) => WordOk(d, n)
  BY WordExecute
<1>2. InjectionOk(d, m) => InjectionOk(d, n)
  BY InjectionExecute
<1>3. IsrOk(d, m) => IsrOk(d, n)
  BY IsrExecute
<1>4. CountOk(d, m) => CountOk(d, n)
  BY CountExecute
<1>5. BitOk(d, m) => BitOk(d, n)
  BY BitExecute
<1>. HIDE DEF n
<1>6. CopierOk(d, n)
  BY <1>1, <1>2, <1>3, <1>4, <1>5 DEF CopierOk
<1>. QED
  BY <1>6 DEF n

\* Only autopush waits with autopush.
LEMMA CopierRetries ==
    ASSUME NEW d, NEW m, CopierOk(d, m), m.stall = "autopush", NEW t
    PROVE  CopierOk(d, [Advanced(Pushed(m)) EXCEPT !.stall = "none", !.delay = t])
<1>1. BitOk(d, m)
  BY DEF CopierOk, WordOk, WordState, InjectionOk, InjectionState, IsrOk, IsrState, CountOk, CountState,
         Redo, Ready
<1>. DEFINE n == [Advanced(Pushed(m)) EXCEPT !.stall = "none", !.delay = t]
<1>2. BitOk(d, n)
  BY <1>1, BitRetry
<1>. HIDE DEF n
<1>3. CopierOk(d, n)
  BY <1>2 DEF CopierOk
<1>. QED
  BY <1>3 DEF n

-----------------------------------------------------------------------------
(* The block *)

LEMMA CopierBegins ==
    ASSUME NEW c \in CopyingPrograms, prog = Loaded(c.p)
    PROVE  CopierOk(<<>>, SetUp(c.shift, c.wrap, c.x))
<1>. DEFINE m == SetUp(c.shift, c.wrap, c.x)
<1>1. IsSetUp(m, c.shift, c.wrap, c.x)
  BY SetUpIs
<1>. HIDE DEF m
<1>2. \/ c = Program(ByWord, Manual, Wrap(0, 3), 0)
      \/ \E right \in BOOLEAN : c = Program(ByBit, Automatic(right), Wrap(0, 1), 0)
      \/ c = Program(ByCount, Manual, Wrap(0, 3), 0)
      \/ c = Program(ByInjection, Manual, Wrap(0, 2), 1)
      \/ c = Program(ToIsr, OnlyPulling, Wrap(0, 1), 0)
  <2>1. TRUE \in BOOLEAN /\ FALSE \in BOOLEAN
    OBVIOUS
  <2>. QED
    BY <2>1, Zenon DEF CopyingPrograms
<1>3. \A p, s, w, x : /\ Program(p, s, w, x).p = p /\ Program(p, s, w, x).shift = s
                      /\ Program(p, s, w, x).wrap = w /\ Program(p, s, w, x).x = x
  BY DEF Program
<1>4. \A s, w, x : IsSetUp(m, s, w, x) =>
         /\ m.pc = w.bottom /\ m.x = x /\ m.out = Width /\ m.in = 0 /\ m.isr = 0 /\ Ready(m)
         /\ \A p : prog = Loaded(p) => Does(m, p, s, w)
  BY DEF IsSetUp, Ready, Does
<1>5. Carries(<<>>, m, <<>>)
  BY <1>1, FlowBegins DEF Carries, IsSetUp
<1>6. \A t : Wrap(0, t).bottom = 0
  BY DEF Wrap
<1>7. \A in : Ready(m) => Redo(m, in)
  BY DEF Redo
<1>8. CASE c = Program(ByWord, Manual, Wrap(0, 3), 0)
  <2>1. Does(m, ByWord, Manual, Wrap(0, 3)) /\ m.pc = 0 /\ Ready(m)
    BY <1>1, <1>3, <1>4, <1>6, <1>8
  <2>2. WordState(m, <<>>)
    BY <1>7, <2>1 DEF WordState
  <2>. QED
    BY <1>5, <2>1, <2>2 DEF CopierOk, WordOk, m
<1>9. CASE c = Program(ByInjection, Manual, Wrap(0, 2), 1)
  <2>1. Does(m, ByInjection, Manual, Wrap(0, 2)) /\ m.pc = 0 /\ Ready(m) /\ m.x = 1
    BY <1>1, <1>3, <1>4, <1>6, <1>9
  <2>2. InjectionState(m, <<>>)
    BY <1>7, <2>1 DEF InjectionState
  <2>. QED
    BY <1>5, <2>1, <2>2 DEF CopierOk, InjectionOk, m
<1>10. CASE c = Program(ToIsr, OnlyPulling, Wrap(0, 1), 0)
  <2>1. Does(m, ToIsr, OnlyPulling, Wrap(0, 1)) /\ m.pc = 0 /\ Ready(m) /\ m.in = 0 /\ m.out = Width
    BY <1>1, <1>3, <1>4, <1>6, <1>10
  <2>2. IsrState(m, <<>>)
    BY <2>1 DEF IsrState, Spent
  <2>. QED
    BY <1>5, <2>1, <2>2 DEF CopierOk, IsrOk, m
<1>11. CASE c = Program(ByCount, Manual, Wrap(0, 3), 0)
  <2>1. Does(m, ByCount, Manual, Wrap(0, 3)) /\ m.pc = 0 /\ Ready(m) /\ m.in = 0 /\ m.out = Width /\ m.isr = 0
    BY <1>1, <1>3, <1>4, <1>6, <1>11
  <2>2. CountState(<<>>, m)
    BY <1>5, <1>7, <2>1 DEF CountState, Idle
  <2>. QED
    BY <2>1, <2>2 DEF CopierOk, CountOk, m
<1>12. ASSUME NEW right \in BOOLEAN, c = Program(ByBit, Automatic(right), Wrap(0, 1), 0)
       PROVE  CopierOk(<<>>, m)
  <2>. DEFINE s == Automatic(right)
  <2>. HIDE DEF s
  <2>1. Does(m, ByBit, s, Wrap(0, 1)) /\ m.pc = 0 /\ Ready(m) /\ m.in = 0 /\ m.out = Width /\ m.isr = 0
    <3>1. c = Program(ByBit, s, Wrap(0, 1), 0)
      BY <1>12 DEF s
    <3>. QED
      BY <1>1, <1>3, <1>4, <1>6, <3>1
  <2>2. BitState(<<>>, m)
    BY <1>5, <2>1 DEF BitState, Idle
  <2>3. BitOk(<<>>, m)
    BY <2>1, <2>2 DEF BitOk, s
  <2>. QED
    BY <2>3 DEF CopierOk
<1>13. CopierOk(<<>>, m)
  BY <1>2, <1>8, <1>9, <1>10, <1>11, <1>12 DEF m
<1>. QED
  BY <1>13 DEF m

LEMMA CopyBegins == WorkInit => CopyInv
<1>. SUFFICES ASSUME WorkInit PROVE CopyInv
  OBVIOUS
<1>1. due = [i \in Sms |-> <<>>]
  BY DEF WorkInit, Stopped
<1>2. CASE SetToRing
  <2>1. DOMAIN sm = Sms /\ DOMAIN duty = Sms /\ \A i \in Sms : duty[i] # "copies"
    BY <1>2 DEF SetToRing
  <2>. QED
    BY <1>1, <2>1 DEF CopyInv
<1>3. ASSUME NEW c \in CopyingPrograms, NEW S \in SUBSET Sms, SetToCopy(c, S)
      PROVE  CopyInv
  <2>1. /\ DOMAIN sm = Sms /\ DOMAIN duty = Sms /\ prog = Loaded(c.p)
        /\ \A i \in Sms : duty[i] = "copies" => sm[i] = SetUp(c.shift, c.wrap, c.x)
    BY <1>3 DEF SetToCopy
  <2>2. CopierOk(<<>>, SetUp(c.shift, c.wrap, c.x))
    BY <2>1, CopierBegins
  <2>. QED
    BY <1>1, <2>1, <2>2 DEF CopyInv
<1>. QED
  BY <1>2, <1>3 DEF WorkInit

LEMMA CopyMeans == CopyInv => Copied
BY CopierMeans DEF CopyInv, Copied

\* A step after which every copying machine is still one, with the same program
LEMMA CopyKept ==
    ASSUME CopyInv, DOMAIN sm' = Sms, DOMAIN duty' = Sms, DOMAIN due' = Sms,
           \A i \in Sms : duty'[i] = "copies" =>
               prog' = prog /\ CopierOk(due'[i], sm'[i])
    PROVE  CopyInv'
<1>1. ASSUME NEW i \in Sms, duty'[i] = "copies"
      PROVE  CopierOk(due[i], sm[i])'
  <2>1. prog' = prog /\ CopierOk(due'[i], sm'[i])
    BY <1>1
  <2>. QED
    BY <2>1 DEF CopierOk, WordOk, InjectionOk, IsrOk, CountOk, BitOk, Does
<1>. QED
  BY <1>1 DEF CopyInv

\* A turn in which machine i, if it copies, stays a copier
LEMMA CopyTurn ==
    ASSUME CopyInv, NEW i \in Sms, NEW n, NEW stalled, EndTurn(i, n, stalled),
           duty[i] = "copies" => CopierOk(due[i], n)
    PROVE  CopyInv'
<1>1. sm' = [sm EXCEPT ![i] = n] /\ prog' = prog /\ duty' = duty /\ due' = due
  BY DEF EndTurn, block
<1>2. DOMAIN sm' = Sms /\ \A j \in Sms : duty'[j] = "copies" => CopierOk(due'[j], sm'[j])
  BY <1>1 DEF CopyInv
<1>3. DOMAIN duty' = Sms /\ DOMAIN due' = Sms
  BY <1>1 DEF CopyInv
<1>. QED
  BY <1>1, <1>2, <1>3, CopyKept

LEMMA CopyTick ==
    ASSUME CopyInv, Tick
    PROVE  CopyInv'
<1>0. PICK i \in Sms : Skip(i) \/ DelaySlot(i) \/ RetryPush(i) \/ AwaitWord(i) \/ Execute(i)
  BY Zenon DEF Tick
<1>. DEFINE copies == duty[i] = "copies"
<1>1. copies => CopierOk(due[i], sm[i])
  BY DEF CopyInv
<1>2. CASE Skip(i)
  <2>1. UNCHANGED <<prog, sm, duty, due>>
    BY <1>2 DEF Skip, block
  <2>. QED
    BY <2>1, CopyKept DEF CopyInv
<1>3. CASE DelaySlot(i)
  <2>. DEFINE n == [sm[i] EXCEPT !.delay = @ - 1]
  <2>1. EndTurn(i, n, FALSE)
    BY <1>3, Zenon DEF DelaySlot
  <2>2. ASSUME copies PROVE CopierOk(due[i], n)
    <3>1. DOMAIN sm[i] = DOMAIN Fresh
      BY <1>1, <2>2, CopierDomain
    <3>2. Continues(n, sm[i]) /\ n.rx = sm[i].rx /\ n.tx = sm[i].tx
      BY <3>1 DEF Continues
    <3>. HIDE DEF n
    <3>. QED
      BY <1>1, <2>2, <3>2, CopierAlike
  <2>. HIDE DEF n
  <2>. QED
    BY <2>1, <2>2, CopyTurn
<1>4. CASE RetryPush(i)
  <2>. DEFINE n == [Advanced(Pushed(sm[i])) EXCEPT !.stall = "none", !.delay = sm[i].cur.delay]
  <2>1. sm[i].stall = "autopush" /\ (EndTurn(i, sm[i], TRUE) \/ EndTurn(i, n, FALSE))
    BY <1>4, Zenon DEF RetryPush
  <2>2. copies => CopierOk(due[i], n)
    BY <1>1, <2>1, CopierRetries
  <2>. HIDE DEF n
  <2>. QED
    BY <1>1, <2>1, <2>2, CopyTurn
<1>5. CASE AwaitWord(i)
  <2>1. EndTurn(i, sm[i], TRUE)
    BY <1>5 DEF AwaitWord
  <2>. QED
    BY <1>1, <2>1, CopyTurn
<1>6. CASE Execute(i)
  <2>1. PICK level : EndTurn(i, After(Exec(Fetched(sm[i]), irq, i, Fetched(sm[i]).cur, level)),
                             ~Exec(Fetched(sm[i]), irq, i, Fetched(sm[i]).cur, level).ok)
    BY <1>6, ExecuteIs, Zenon
  <2>. DEFINE r == Exec(Fetched(sm[i]), irq, i, Fetched(sm[i]).cur, level)
              n == After(r)
  <2>2. sm[i].stall # "autopush" /\ ~(sm[i].stall = "autopull" /\ TxEmpty(sm[i]))
    BY <1>6, Zenon DEF Execute
  <2>3. copies => CopierOk(due[i], n)
    BY <1>1, <2>2, CopierExecutes
  <2>4. PICK stalled : EndTurn(i, n, stalled)
    BY <2>1, Zenon
  <2>. HIDE DEF n
  <2>. QED
    BY <2>3, <2>4, CopyTurn
<1>. QED
  BY <1>0, <1>2, <1>3, <1>4, <1>5, <1>6

\* An access after which the copiers that it does not disturb go on as before
LEMMA CopyAccess ==
    ASSUME CopyInv, NEW S, Disturb(S) \/ (S = {} /\ UNCHANGED <<duty, due>>),
           (\E i \in Sms \ S : duty[i] = "copies") => prog' = prog,
           DOMAIN sm' = Sms,
           \A i \in Sms \ S : duty[i] = "copies" =>
               Continues(sm'[i], sm[i]) /\ sm'[i].rx = sm[i].rx /\ sm'[i].tx = sm[i].tx
    PROVE  CopyInv'
<1>1. DOMAIN duty' = Sms /\ DOMAIN due' = Sms
  BY DEF CopyInv, Disturb
<1>2. ASSUME NEW i \in Sms, duty'[i] = "copies"
      PROVE  prog' = prog /\ CopierOk(due'[i], sm'[i])
  <2>1. i \notin S /\ duty[i] = "copies" /\ due'[i] = due[i]
    BY <1>2 DEF Disturb
  <2>2. CopierOk(due[i], sm[i])
    BY <2>1 DEF CopyInv
  <2>3. CopierOk(due[i], sm'[i])
    BY <2>1, <2>2, CopierAlike
  <2>. QED
    BY <2>1, <2>3
<1>. QED
  BY <1>1, <1>2, CopyKept

\* An access to the FIFOs of machine i, which becomes n with the words e on their way
LEMMA CopyFifoAccess ==
    ASSUME CopyInv, NEW i \in Sms, NEW n, NEW e, prog' = prog, duty' = duty,
           sm' = [sm EXCEPT ![i] = n], due' = due \/ due' = [due EXCEPT ![i] = e],
           duty[i] = "copies" => due'[i] = e /\ Continues(n, sm[i])
                                 /\ \A u : Carries(due[i], sm[i], u) => Carries(e, n, u)
    PROVE  CopyInv'
<1>1. DOMAIN sm' = Sms /\ DOMAIN duty' = Sms /\ DOMAIN due' = Sms
  BY DEF CopyInv
<1>2. \A j \in Sms : j # i => sm'[j] = sm[j] /\ due'[j] = due[j]
  BY DEF CopyInv
<1>3. sm'[i] = n
  BY DEF CopyInv
<1>4. duty[i] = "copies" => CopierOk(e, n)
  BY CopierContinues DEF CopyInv
<1>5. \A j \in Sms : duty'[j] = "copies" => CopierOk(due'[j], sm'[j])
  BY <1>2, <1>3, <1>4 DEF CopyInv
<1>. QED
  BY <1>1, <1>5, CopyKept

LEMMA CopyWriteTxf ==
    ASSUME CopyInv, NEW i \in Sms, NEW w \in Words, WriteTxf(i, w)
    PROVE  CopyInv'
<1>. DEFINE n == [sm[i] EXCEPT !.tx = Append(@, w)]
            e == Append(due[i], w)
<1>0. prog' = prog /\ duty' = duty /\ w \in Word
  BY PioAssumption DEF WriteTxf, block
<1>1. CASE UNCHANGED <<sm, due>>
  BY <1>0, <1>1, CopyKept DEF CopyInv
<1>2. CASE sm' = [sm EXCEPT ![i] = n] /\ due' = IF duty[i] = "copies" THEN [due EXCEPT ![i] = e] ELSE due
  <2>1. ASSUME duty[i] = "copies"
        PROVE  Continues(n, sm[i]) /\ \A u : Carries(due[i], sm[i], u) => Carries(e, n, u)
    <3>1. DOMAIN sm[i] = DOMAIN Fresh
      BY <2>1, CopierDomain DEF CopyInv
    <3>2. Continues(n, sm[i]) /\ n.rx = sm[i].rx /\ n.tx = Append(sm[i].tx, w)
      BY <3>1 DEF Continues, Fresh
    <3>. HIDE DEF n
    <3>. QED
      BY <1>0, <3>2, FlowGrows DEF Carries
  <2>2. duty[i] = "copies" => due'[i] = e
    BY <1>2 DEF CopyInv
  <2>3. due' = due \/ due' = [due EXCEPT ![i] = e]
    BY <1>2
  <2>4. sm' = [sm EXCEPT ![i] = n]
    BY <1>2
  <2>. HIDE DEF n, e
  <2>. QED
    BY <1>0, <2>1, <2>2, <2>3, <2>4, CopyFifoAccess
<1>. QED
  BY <1>1, <1>2, Zenon DEF WriteTxf

LEMMA CopyReadRxf ==
    ASSUME CopyInv, NEW i \in Sms, ReadRxf(i)
    PROVE  CopyInv'
<1>. DEFINE n == [sm[i] EXCEPT !.rx = Tail(@)]
            e == Tail(due[i])
<1>0. prog' = prog /\ duty' = duty
  BY DEF ReadRxf, block
<1>1. CASE UNCHANGED <<sm, due>>
  BY <1>0, <1>1, CopyKept DEF CopyInv
<1>2. CASE sm[i].rx # <<>> /\ sm' = [sm EXCEPT ![i] = n]
           /\ due' = IF due[i] = <<>> THEN due ELSE [due EXCEPT ![i] = e]
  <2>1. ASSUME duty[i] = "copies"
        PROVE  due[i] # <<>> /\ Continues(n, sm[i]) /\ \A u : Carries(due[i], sm[i], u) => Carries(e, n, u)
    <3>1. CopierOk(due[i], sm[i])
      BY <2>1 DEF CopyInv
    <3>2. DOMAIN sm[i] = DOMAIN Fresh
      BY <3>1, CopierDomain
    <3>3. Continues(n, sm[i]) /\ n.rx = Tail(sm[i].rx) /\ n.tx = sm[i].tx
      BY <3>2 DEF Continues, Fresh
    <3>4. PICK u : Flow(due[i], sm[i].rx, u, sm[i].tx)
      BY <3>1, CopierCarries DEF Carries
    <3>5. due[i] # <<>>
      BY <1>2, <3>4, FlowShrinks
    <3>. HIDE DEF n
    <3>. QED
      BY <1>2, <3>3, <3>5, FlowShrinks DEF Carries
  <2>2. duty[i] = "copies" => due'[i] = e
    BY <1>2, <2>1 DEF CopyInv
  <2>3. due' = due \/ due' = [due EXCEPT ![i] = e]
    BY <1>2
  <2>4. sm' = [sm EXCEPT ![i] = n]
    BY <1>2
  <2>. HIDE DEF n, e
  <2>. QED
    BY <1>0, <2>1, <2>2, <2>3, <2>4, CopyFifoAccess
<1>. QED
  BY <1>1, <1>2, Zenon DEF ReadRxf

LEMMA CopyWriteCtrl ==
    ASSUME CopyInv, NEW alias, NEW value, WriteCtrl(alias, value)
    PROVE  CopyInv'
<1>. DEFINE v == ControlValue(alias, value)
            n(i) == LET m == [sm[i] EXCEPT !.enabled = i \in v.enable]
                    IN IF i \in v.restart THEN Restarted(m) ELSE m
<1>1. sm' = [i \in Sms |-> n(i)] /\ Disturb(v.restart) /\ prog' = prog
  BY Zenon DEF WriteCtrl
<1>. HIDE DEF v
<1>2. ASSUME NEW i \in Sms \ v.restart, duty[i] = "copies"
      PROVE  Continues(sm'[i], sm[i]) /\ sm'[i].rx = sm[i].rx /\ sm'[i].tx = sm[i].tx
  <2>. DEFINE m == [sm[i] EXCEPT !.enabled = i \in v.enable]
  <2>1. sm'[i] = m
    BY <1>1, <1>2
  <2>2. DOMAIN sm[i] = DOMAIN Fresh
    BY <1>2, CopierDomain DEF CopyInv
  <2>3. Continues(m, sm[i]) /\ m.rx = sm[i].rx /\ m.tx = sm[i].tx
    BY <2>2 DEF Continues
  <2>. QED
    BY <2>1, <2>3
<1>3. DOMAIN sm' = Sms
  BY <1>1
<1>. QED
  BY <1>1, <1>2, <1>3, CopyAccess

LEMMA CopyWriteInstr ==
    ASSUME CopyInv, NEW i \in Sms, NEW in, NEW level, WriteInstr(i, in, level)
    PROVE  CopyInv'
<1>. DEFINE r == Exec(sm[i], irq, i, in, level)
            n == Forced(r, sm[i], in)
            D == IF in \in Harmless THEN {} ELSE {i} \cup {j \in Sms : duty[j] # "copies"}
<1>1. sm' = [sm EXCEPT ![i] = n] /\ Disturb(D) /\ prog' = prog
  BY Zenon DEF WriteInstr, block, Forced
<1>2. DOMAIN sm' = Sms
  BY <1>1 DEF CopyInv
<1>3. ASSUME NEW j \in Sms \ D, duty[j] = "copies"
      PROVE  Continues(sm'[j], sm[j]) /\ sm'[j].rx = sm[j].rx /\ sm'[j].tx = sm[j].tx
  <2>1. DOMAIN sm[j] = DOMAIN Fresh
    BY <1>3, CopierDomain DEF CopyInv
  <2>2. CASE j # i
    <3>1. sm'[j] = sm[j]
      <4>. HIDE DEF n
      <4>. QED  BY <1>1, <2>2 DEF CopyInv
    <3>. QED
      BY <2>1, <3>1 DEF Continues
  <2>3. CASE j = i
    <3>1. in \in Harmless
      BY <1>3, <2>3
    <3>2. Polite(in)
      BY <3>1, WorkAssumption
    <3>3. LeftAlone(n, sm[i])
      BY <2>1, <2>3, <3>2, PoliteIs
    <3>. HIDE DEF n
    <3>4. Continues(n, sm[i]) /\ n.rx = sm[i].rx /\ n.tx = sm[i].tx
      BY <2>1, <2>3, <3>3 DEF LeftAlone, Alike, Continues
    <3>. QED
      BY <1>1, <2>3, <3>4 DEF CopyInv
  <2>. QED
    BY <2>2, <2>3
<1>. HIDE DEF n, D
<1>. QED
  BY <1>1, <1>2, <1>3, CopyAccess

LEMMA CopyRegisters ==
    ASSUME CopyInv, RegisterAccess
    PROVE  CopyInv'
<1>0. ASSUME NEW i \in Sms, duty[i] = "copies"
      PROVE  Continues(sm[i], sm[i])
  BY <1>0, CopierDomain DEF CopyInv, Continues
<1>1. ASSUME NEW v, WriteFdebug(v) PROVE CopyInv'
  <2>1. UNCHANGED <<duty, due, prog, sm>>
    BY <1>1 DEF WriteFdebug, block
  <2>. QED
    BY <2>1, CopyKept DEF CopyInv
<1>2. ASSUME NEW i \in Sms, NEW d, WriteClkdiv(i, d) PROVE CopyInv'
  <2>1. UNCHANGED <<duty, due, prog, sm>>
    BY <1>2 DEF WriteClkdiv
  <2>. QED
    BY <2>1, CopyKept DEF CopyInv
<1>3. ASSUME NEW S, WriteIrq(S) \/ WriteIrqForce(S) PROVE CopyInv'
  <2>1. UNCHANGED <<prog, sm>> /\ \E D : Disturb(D)
    BY <1>3, Zenon DEF WriteIrq, WriteIrqForce, block
  <2>2. PICK D : Disturb(D)
    BY <2>1
  <2>. QED
    BY <1>0, <2>1, <2>2, CopyAccess DEF CopyInv
<1>4. ASSUME NEW i \in Sms, NEW w, WriteExecctrl(i, w) PROVE CopyInv'
  <2>. DEFINE n == [sm[i] EXCEPT !.wrap = w]
  <2>1. sm' = [sm EXCEPT ![i] = n] /\ Disturb({i}) /\ prog' = prog
    BY <1>4, Zenon DEF WriteExecctrl, block
  <2>. HIDE DEF n
  <2>2. DOMAIN sm' = Sms /\ \A j \in Sms \ {i} : sm'[j] = sm[j]
    BY <2>1 DEF CopyInv
  <2>. QED
    BY <1>0, <2>1, <2>2, CopyAccess
<1>5. ASSUME NEW i \in Sms, NEW s, NEW tx, NEW rx, WriteShiftctrl(i, s, tx, rx) PROVE CopyInv'
  <2>. DEFINE n == Joined([sm[i] EXCEPT !.shift = s], tx, rx)
  <2>1. sm' = [sm EXCEPT ![i] = n] /\ Disturb({i}) /\ prog' = prog
    BY <1>5, Zenon DEF WriteShiftctrl, block
  <2>. HIDE DEF n
  <2>2. DOMAIN sm' = Sms /\ \A j \in Sms \ {i} : sm'[j] = sm[j]
    BY <2>1 DEF CopyInv
  <2>. QED
    BY <1>0, <2>1, <2>2, CopyAccess
<1>6. ASSUME NEW a, NEW in, WriteInstrMem(a, in) PROVE CopyInv'
  <2>1. Disturb(Sms) /\ sm' = sm
    BY <1>6, Zenon DEF WriteInstrMem
  <2>. QED
    BY <2>1, CopyAccess DEF CopyInv
<1>. QED
  BY <1>1, <1>2, <1>3, <1>4, <1>5, <1>6, CopyWriteTxf, CopyReadRxf, CopyWriteCtrl, CopyWriteInstr
     DEF RegisterAccess

LEMMA CopyStep ==
    ASSUME CopyInv, [Next]_vars
    PROVE  CopyInv'
<1>1. CASE NoAccess \/ UNCHANGED vars
  <2>1. UNCHANGED <<duty, due, prog, sm>>
    BY <1>1 DEF NoAccess, block, vars
  <2>. QED
    BY <2>1, CopyKept DEF CopyInv
<1>2. CASE Reset
  <2>1. Disturb(Sms) /\ DOMAIN sm' = Sms
    BY <1>2 DEF Reset
  <2>. QED
    BY <2>1, CopyAccess
<1>. QED
  BY <1>1, <1>2, CopyTick, CopyRegisters DEF Next

\* What a machine with a program that copies its TX FIFO to its RX FIFO delivers
\* is what it was given, in order, each word once, and nothing is left behind
\* when it waits for the next word: for every one of the programs, any width of
\* a word, depth of the FIFOs, and speed of the machines, whatever the
\* processor does in between, until it interferes with the machine.
THEOREM CopiedHolds == WorkSpec => []Copied
<1>1. WorkInit => CopyInv
  BY CopyBegins
<1>2. CopyInv /\ [Next]_vars => CopyInv'
  BY CopyStep
<1>3. CopyInv => Copied
  BY CopyMeans
<1>4. QED
  BY <1>1, <1>2, <1>3, PTL DEF WorkSpec
=============================================================================
