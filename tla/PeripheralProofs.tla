-------------------------- MODULE PeripheralProofs --------------------------
(***************************************************************************)
(* Proofs about the units of Peripherals, one after the other.  The timer, *)
(* the PWM and the real-time clock, for words, counters and calendars of   *)
(* any size: the time that is read was the time, a period has the counts   *)
(* and the duty that its registers ask for, and the calendar is the        *)
(* Gregorian one.  The words of the SPI, the commands and bytes of I2C,    *)
(* the samples of the ADC, the edges of the pins and the pixels of the     *)
(* displays: lemmas on what is under way in each, which LineProofs puts    *)
(* together.                                                               *)
(***************************************************************************)
EXTENDS Peripherals, Numbers, SequenceTheorems, FiniteSetTheorems, TLAPS

-----------------------------------------------------------------------------
(* The PWM *)

PwmFields ==
    {"en", "ph", "invA", "invB", "mode", "all", "div", "ctr", "ccA", "ccB", "top", "acc", "down", "prevB",
     "levelB", "outA", "outB", "oeB", "intr", "inte", "intf", "pend", "touched", "late", "run", "high",
     "steady", "wrong"}

PwmType(s) ==
    /\ s = [f \in PwmFields |-> s[f]]
    /\ s.ctr \in 0..(Count - 1) /\ s.ccA \in 0..(Count - 1) /\ s.top \in 0..(Count - 1)
    /\ s.run \in Nat /\ s.high \in Nat
    /\ s.down \in BOOLEAN /\ s.ph \in BOOLEAN /\ s.steady \in BOOLEAN /\ s.invA \in BOOLEAN

\* The outputs are those of the count.
Shown(s) ==
    /\ s.outA = ((s.ctr < s.ccA) # s.invA)
    /\ s.oeB = (s.mode = "free")
    /\ s.outB = (s.mode = "free" /\ ((s.ctr < s.ccB) # s.invB))

\* How far an undisturbed period has come, and at how many of its counts output A was on.
Counted(s) ==
    /\ ~s.ph => s.ctr <= s.top /\ s.run = s.ctr /\ s.high = P!AtMost(s.ccA, s.ctr)
    /\ s.ph /\ ~s.down =>
            /\ 1 <= s.ctr /\ s.ctr <= s.top /\ s.run = s.ctr - 1
            /\ s.high = P!AtMost(s.ccA, s.ctr) - P!AtMost(s.ccA, 1)
    /\ s.ph /\ s.down =>
            /\ s.ctr < s.top /\ s.run = 2 * s.top - 1 - s.ctr
            /\ s.high = P!AtMost(s.ccA, s.top + 1) - P!AtMost(s.ccA, 1)
                            + P!AtMost(s.ccA, s.top) - P!AtMost(s.ccA, s.ctr + 1)

Ready(s) == PwmType(s) /\ ~s.wrong /\ (s.steady => Shown(s) /\ Counted(s))

PwmInv(s) == Ready(s) /\ Shown(s)

\* The outputs that update_outputs sets are those of the count, and it sets nothing else.
LEMMA OutputsShown ==
    ASSUME NEW s, PwmType(s)
    PROVE  /\ PwmType(P!Outputs(s)) /\ Shown(P!Outputs(s))
           /\ Counted(s) => Counted(P!Outputs(s))
           /\ P!Outputs(s).wrong = s.wrong /\ P!Outputs(s).steady = s.steady
           /\ P!Outputs(s).ctr = s.ctr /\ P!Outputs(s).ph = s.ph /\ P!Outputs(s).top = s.top
           /\ P!Outputs(s).down = s.down
BY ZenonT(60) DEF P!Outputs, PwmType, PwmFields, Shown, Counted

\* A slice that shows its count has nothing left to update.
LEMMA ShownIsOutputs ==
    ASSUME NEW s, PwmType(s), Shown(s)
    PROVE  s = P!Outputs(s)
<1>. DEFINE t == P!Outputs(s)
<1>1. t = [f \in PwmFields |-> t[f]]
  BY OutputsShown DEF PwmType
<1>2. ASSUME NEW f \in PwmFields PROVE t[f] = s[f]
  <2>1. t.outA = s.outA /\ t.oeB = s.oeB /\ t.outB = s.outB
    BY DEF P!Outputs, PwmType, PwmFields, Shown
  <2>2. CASE f \notin {"outA", "oeB", "outB"}
    BY <2>2 DEF P!Outputs, PwmType
  <2>3. QED
    BY <2>1, <2>2
<1>. HIDE DEF t
<1>3. [f \in PwmFields |-> t[f]] = [f \in PwmFields |-> s[f]]
  BY <1>2
<1>4. QED
  BY <1>1, <1>3 DEF PwmType, t

\* What leaves the count and what is known of it alone
Alike(s, t) ==
    /\ t = [f \in PwmFields |-> t[f]]
    /\ t.ctr = s.ctr /\ t.ccA = s.ccA /\ t.ccB = s.ccB /\ t.top = s.top /\ t.down = s.down
    /\ t.ph = s.ph /\ t.invA = s.invA /\ t.invB = s.invB /\ t.mode = s.mode
    /\ t.run = s.run /\ t.high = s.high /\ t.steady = s.steady /\ t.wrong = s.wrong
    /\ t.outA = s.outA /\ t.outB = s.outB /\ t.oeB = s.oeB

\* What leaves the count alone keeps the invariant.
LEMMA AlikeKept ==
    ASSUME NEW s, NEW t, PwmInv(s), Alike(s, t)
    PROVE  PwmInv(t)
BY DEF PwmInv, Ready, PwmType, Shown, Counted, Alike

\* Firmware that disturbs a period starts the measurement over.
LEMMA UnknownKept ==
    ASSUME NEW s, PwmType(s), ~s.wrong
    PROVE  /\ PwmType(P!Unknown(s)) /\ ~P!Unknown(s).wrong /\ ~P!Unknown(s).steady
BY DEF P!Unknown, PwmType, PwmFields

\* refresh_irq leaves the count alone,
LEMMA RefreshIrqAlike ==
    ASSUME NEW s, PwmType(s)
    PROVE  Alike(s, P!RefreshIrq(s))
BY DEF P!RefreshIrq, Alike, PwmType, PwmFields

-----------------------------------------------------------------------------
\* A wrap measures a period that was as long as TOP asks for.
LEMMA WrappedKept ==
    ASSUME NEW s, PwmType(s), ~s.wrong, s.steady => s.run = P!Length(s) /\ s.high = P!Share(s, s.ccA)
    PROVE  LET w == P!Wrapped(s)
           IN  /\ PwmType(w) /\ ~w.wrong /\ w.run = 0 /\ w.high = 0
               /\ w.ctr = s.ctr /\ w.top = s.top /\ w.ph = s.ph /\ w.down = s.down /\ w.ccA = s.ccA
               /\ w.steady => ~s.ph \/ s.top > 0
BY ZenonT(60) DEF P!Wrapped, PwmType, PwmFields

\* What is counted of the present count, before it moves on
LEMMA MeasuredCounts ==
    ASSUME NEW s, Ready(s)
    PROVE  LET m == P!Measured(s)
           IN  /\ PwmType(m) /\ ~m.wrong
               /\ m.ctr = s.ctr /\ m.top = s.top /\ m.ph = s.ph /\ m.down = s.down /\ m.ccA = s.ccA
               /\ m.steady = s.steady
               /\ s.steady => m.run = s.run + 1 /\ m.high = s.high + (IF s.ctr < s.ccA THEN 1 ELSE 0)
<1>. DEFINE m == P!Measured(s)
<1>1. s.steady => ((s.outA # s.invA) <=> (s.ctr < s.ccA))
  <2>1. CASE s.invA
    BY <2>1 DEF Ready, Shown
  <2>2. CASE ~s.invA
    BY <2>2 DEF Ready, Shown, PwmType
  <2>3. QED
    BY <2>1, <2>2 DEF Ready, PwmType
<1>2. /\ m = [f \in PwmFields |-> m[f]] /\ m.wrong = s.wrong
      /\ m.ctr = s.ctr /\ m.top = s.top /\ m.ph = s.ph /\ m.down = s.down /\ m.ccA = s.ccA
      /\ m.steady = s.steady /\ m.invA = s.invA
  BY DEF P!Measured, Ready, PwmType, PwmFields
<1>3. /\ m.run = (IF s.steady THEN s.run + 1 ELSE 0)
      /\ m.high = (IF s.steady /\ s.outA # s.invA THEN s.high + 1 ELSE s.high)
  BY DEF P!Measured, Ready, PwmType, PwmFields
<1>. HIDE DEF m
<1>4. m.run \in Nat /\ m.high \in Nat
  BY <1>3 DEF Ready, PwmType
<1>5. s.steady => m.run = s.run + 1 /\ m.high = s.high + (IF s.ctr < s.ccA THEN 1 ELSE 0)
  BY <1>1, <1>3 DEF Ready, PwmType
<1>6. PwmType(m) /\ ~m.wrong
  BY <1>2, <1>4 DEF Ready, PwmType
<1>. QED
  BY <1>2, <1>5, <1>6 DEF m

\* A level is above one more count, or it is not.
LEMMA OneMore ==
    ASSUME NEW a \in Nat, NEW c \in Nat
    PROVE  /\ P!AtMost(a, c + 1) = P!AtMost(a, c) + (IF c < a THEN 1 ELSE 0)
           /\ P!AtMost(a, c) \in Nat /\ P!AtMost(a, 0) = 0
           /\ a > 0 => P!AtMost(a - 1, c) = P!AtMost(a, c + 1) - 1
           /\ a = 0 => P!AtMost(a, c) = 0
           /\ a > 0 => P!AtMost(a, 1) = 1
BY DEF P!AtMost

\* The counter moves on from what was counted, and what a wrap measures is exact.
LEMMA SteppedKept ==
    ASSUME NEW s, Ready(s)
    PROVE  LET t == P!Stepped(P!Measured(s)) IN PwmType(t) /\ ~t.wrong /\ (t.steady => Counted(t))
<1>. DEFINE m == P!Measured(s)
            w == P!Wrapped(m)
            t == P!Stepped(m)
<1>1. /\ PwmType(m) /\ ~m.wrong
      /\ m.ctr = s.ctr /\ m.top = s.top /\ m.ph = s.ph /\ m.down = s.down /\ m.ccA = s.ccA
      /\ m.steady = s.steady
      /\ s.steady => m.run = s.run + 1 /\ m.high = s.high + (IF s.ctr < s.ccA THEN 1 ELSE 0)
  BY MeasuredCounts
<1>2. s.steady => Counted(s)
  BY DEF Ready
<1>3. Count \in Nat /\ Count > 1
  BY CountAssumption
<1>. HIDE DEF m
<1>a. m.ctr \in Nat /\ m.top \in Nat /\ m.ccA \in Nat /\ m.ph \in BOOLEAN /\ s.run \in Nat /\ s.high \in Nat
  BY <1>1, <1>3 DEF PwmType, Ready
<1>b. m.steady => s.run = m.run - 1 /\ s.high = m.high - (IF m.ctr < m.ccA THEN 1 ELSE 0) /\ m.run \in Nat /\ m.high \in Nat
  BY <1>1, <1>a
<1>c. m.steady =>
        /\ ~m.ph => m.ctr <= m.top /\ m.run = m.ctr + 1 /\ m.high = P!AtMost(m.ccA, m.ctr + 1)
        /\ m.ph /\ ~m.down =>
                /\ 1 <= m.ctr /\ m.ctr <= m.top /\ m.run = m.ctr
                /\ m.high = P!AtMost(m.ccA, m.ctr + 1) - P!AtMost(m.ccA, 1)
        /\ m.ph /\ m.down =>
                /\ m.ctr < m.top /\ m.run = 2 * m.top - m.ctr
                /\ m.high = P!AtMost(m.ccA, m.top + 1) - P!AtMost(m.ccA, 1)
                                + P!AtMost(m.ccA, m.top) - P!AtMost(m.ccA, m.ctr)
  <2>1. SUFFICES ASSUME m.steady PROVE <1>c!2
    OBVIOUS
  <2>2. P!AtMost(m.ccA, m.ctr + 1) = P!AtMost(m.ccA, m.ctr) + (IF m.ctr < m.ccA THEN 1 ELSE 0)
    BY <1>a, OneMore
  <2>3. /\ P!AtMost(m.ccA, m.ctr) \in Nat /\ P!AtMost(m.ccA, 1) \in Nat
        /\ P!AtMost(m.ccA, m.top) \in Nat /\ P!AtMost(m.ccA, m.top + 1) \in Nat
    BY <1>a DEF P!AtMost
  <2>4. CASE ~m.ph
    BY <1>1, <1>2, <1>a, <1>b, <2>1, <2>2, <2>3, <2>4 DEF Counted
  <2>5. CASE m.ph /\ ~m.down
    BY <1>1, <1>2, <1>a, <1>b, <2>1, <2>2, <2>3, <2>5 DEF Counted
  <2>6. CASE m.ph /\ m.down
    BY <1>1, <1>2, <1>a, <1>b, <2>1, <2>2, <2>3, <2>6 DEF Counted
  <2>. QED
    BY <2>4, <2>5, <2>6, <1>a
<1>d. /\ P!AtMost(m.ccA, m.ctr) \in Nat /\ P!AtMost(m.ccA, 1) \in Nat
      /\ P!AtMost(m.ccA, m.top) \in Nat /\ P!AtMost(m.ccA, m.top + 1) \in Nat
  BY <1>a DEF P!AtMost
<1>4. CASE ~m.ph /\ m.ctr >= m.top
  <2>1. t = [w EXCEPT !.ctr = 0]
    BY <1>a, <1>4 DEF P!Stepped
  <2>2. m.steady => m.run = P!Length(m) /\ m.high = P!Share(m, m.ccA)
    BY <1>a, <1>c, <1>4 DEF P!Length, P!Share
  <2>3. /\ PwmType(w) /\ ~w.wrong /\ w.run = 0 /\ w.high = 0 /\ w.ph = m.ph /\ w.ccA = m.ccA
    BY <1>1, <2>2, WrappedKept
  <2>. HIDE DEF w
  <2>4. PwmType(t) /\ ~t.wrong /\ t.ctr = 0 /\ t.run = 0 /\ t.high = 0 /\ ~t.ph /\ t.ccA = m.ccA
    BY <1>3, <1>4, <2>1, <2>3 DEF PwmType, PwmFields
  <2>. HIDE DEF t
  <2>5. Counted(t)
    BY <1>a, <1>3, <2>4, OneMore DEF PwmType, Counted
  <2>. QED
    BY <2>4, <2>5 DEF m, t
<1>5. CASE m.ph /\ m.down /\ m.ctr = 0
  <2>1. t = [w EXCEPT !.down = FALSE, !.ctr = 1]
    BY <1>a, <1>5 DEF P!Stepped
  <2>2. m.steady => m.run = P!Length(m) /\ m.high = P!Share(m, m.ccA)
    <3>1. m.ccA = 0 => P!AtMost(m.ccA, m.top + 1) = 0 /\ P!AtMost(m.ccA, m.top) = 0 /\ P!AtMost(m.ccA, 1) = 0
      BY <1>a DEF P!AtMost
    <3>2. m.ccA > 0 => P!AtMost(m.ccA - 1, m.top) = P!AtMost(m.ccA, m.top + 1) - P!AtMost(m.ccA, 1)
      BY <1>a DEF P!AtMost
    <3>3. P!AtMost(m.ccA, 0) = 0
      BY <1>a, OneMore
    <3>4. m.steady => m.high = P!AtMost(m.ccA, m.top + 1) - P!AtMost(m.ccA, 1) + P!AtMost(m.ccA, m.top)
      BY <1>c, <1>5, <3>3, <1>a DEF P!AtMost
    <3>. QED
      <4>1. m.ph /\ m.top \in Nat
        BY <1>a, <1>5
      <4>2. m.steady => m.run = P!Length(m)
        BY <4>1, <1>c, <1>5 DEF P!Length
      <4>3. CASE m.ccA = 0
        <5>1. m.steady => m.high = 0
          BY <4>3, <3>1, <3>4
        <5>2. P!Share(m, m.ccA) = 0
          BY <4>1, <4>3 DEF P!Share
        <5>. QED
          BY <4>2, <5>1, <5>2
      <4>4. CASE m.ccA > 0
        BY <4>1, <4>4, <1>d, <3>2, <3>4, <4>2 DEF P!Share
      <4>. QED
        BY <4>3, <4>4, <1>a
  <2>3. /\ PwmType(w) /\ ~w.wrong /\ w.run = 0 /\ w.high = 0 /\ w.top = m.top /\ w.ph = m.ph /\ w.ccA = m.ccA
        /\ w.steady => m.top > 0
    BY <1>1, <1>5, <2>2, WrappedKept
  <2>. HIDE DEF w
  <2>4. /\ t = [f \in PwmFields |-> t[f]] /\ t.ctr = 1 /\ t.down = FALSE
        /\ t.wrong = w.wrong /\ t.run = w.run /\ t.high = w.high /\ t.ph = w.ph /\ t.top = w.top
        /\ t.ccA = w.ccA /\ t.steady = w.steady /\ t.invA = w.invA
    BY <2>1, <2>3 DEF PwmType, PwmFields
  <2>. HIDE DEF t
  <2>5. PwmType(t) /\ ~t.wrong
    <3>1. 1 \in 0..(Count - 1)
      BY <1>3
    <3>. QED
      BY <3>1, <2>3, <2>4 DEF PwmType
  <2>6. ASSUME t.steady PROVE Counted(t)
    <3>1. t.ph /\ ~t.down /\ t.ctr = 1 /\ t.ccA = m.ccA /\ t.top = m.top /\ m.top > 0 /\ t.run = 0 /\ t.high = 0
      BY <2>3, <2>4, <2>6, <1>5
    <3>. QED
      BY <1>a, <1>d, <3>1 DEF Counted
  <2>. QED
    BY <2>5, <2>6 DEF m, t
<1>6. CASE m.ph /\ ~m.down /\ m.ctr >= m.top
  <2>. DEFINE c == (m.ctr - 1) % Count
  <2>1. t = [m EXCEPT !.down = TRUE, !.ctr = c]
    BY <1>a, <1>6 DEF P!Stepped
  <2>2. c \in 0..(Count - 1) /\ (m.ctr > 0 => c = m.ctr - 1)
    BY <1>1, <1>3 DEF PwmType
  <2>. HIDE DEF c
  <2>4. /\ t = [f \in PwmFields |-> t[f]] /\ t.ctr = c /\ t.down = TRUE
        /\ t.wrong = m.wrong /\ t.run = m.run /\ t.high = m.high /\ t.ph = m.ph /\ t.top = m.top
        /\ t.ccA = m.ccA /\ t.steady = m.steady /\ t.invA = m.invA
    BY <1>1, <2>1, ZenonT(60) DEF PwmType, PwmFields
  <2>. HIDE DEF t
  <2>5. PwmType(t) /\ ~t.wrong
    BY <1>1, <1>3, <2>2, <2>4 DEF PwmType
  <2>6. ASSUME t.steady PROVE Counted(t)
    <3>1. /\ m.ctr = m.top /\ m.top > 0 /\ m.run = m.top
          /\ m.high = P!AtMost(m.ccA, m.top + 1) - P!AtMost(m.ccA, 1)
      BY <1>a, <1>c, <1>6, <2>4, <2>6
    <3>2. c = m.top - 1 /\ c + 1 = m.top
      BY <1>a, <2>2, <3>1
    <3>. QED
      <4>1. t.ph /\ t.down /\ t.top = m.top /\ t.ccA = m.ccA /\ t.ctr + 1 = m.top /\ t.ctr = m.top - 1
        BY <1>6, <2>4, <3>2
      <4>2. t.ctr < t.top /\ t.run = 2 * t.top - 1 - t.ctr
        BY <1>a, <2>4, <3>1, <4>1
      <4>3. t.high = P!AtMost(m.ccA, m.top + 1) - P!AtMost(m.ccA, 1)
                        + P!AtMost(m.ccA, m.top) - P!AtMost(m.ccA, m.top)
        BY <1>d, <2>4, <3>1
      <4>. QED
        BY <4>1, <4>2, <4>3 DEF Counted
  <2>. QED
    BY <2>5, <2>6 DEF m, t
<1>7. CASE (~m.ph \/ ~m.down) /\ m.ctr < m.top
  <2>1. t = [m EXCEPT !.ctr = @ + 1]
    BY <1>a, <1>7 DEF P!Stepped
  <2>2. m.ctr + 1 \in 0..(Count - 1)
    BY <1>1, <1>3, <1>7 DEF PwmType
  <2>4. /\ PwmType(t) /\ ~t.wrong /\ t.ctr = m.ctr + 1 /\ t.run = m.run /\ t.high = m.high /\ t.ph = m.ph
        /\ t.down = m.down /\ t.steady = m.steady /\ t.top = m.top /\ t.ccA = m.ccA
    BY <1>1, <2>1, <2>2 DEF PwmType, PwmFields
  <2>. HIDE DEF t
  <2>5. t.steady => Counted(t)
    BY <1>a, <1>c, <1>7, <2>4 DEF Counted
  <2>. QED
    BY <2>4, <2>5 DEF m, t
<1>8. CASE m.ph /\ m.down /\ m.ctr > 0
  <2>1. t = [m EXCEPT !.ctr = @ - 1]
    BY <1>a, <1>8 DEF P!Stepped
  <2>2. m.ctr - 1 \in 0..(Count - 1) /\ (m.ctr - 1) + 1 = m.ctr
    BY <1>1, <1>3, <1>8 DEF PwmType
  <2>4. /\ PwmType(t) /\ ~t.wrong /\ t.ctr = m.ctr - 1 /\ t.run = m.run /\ t.high = m.high /\ t.ph
        /\ t.down /\ t.steady = m.steady /\ t.top = m.top /\ t.ccA = m.ccA
    BY <1>1, <1>8, <2>1, <2>2 DEF PwmType, PwmFields
  <2>. HIDE DEF t
  <2>5. t.steady => Counted(t)
    BY <1>a, <1>c, <1>8, <2>2, <2>4 DEF Counted
  <2>. QED
    BY <2>4, <2>5 DEF m, t
<1>9. m.ctr \in Int /\ m.top \in Int /\ m.ctr >= 0 /\ m.ph \in BOOLEAN /\ m.down \in BOOLEAN
  BY <1>1, <1>3 DEF PwmType
<1>. HIDE DEF t
<1>10. QED
  BY <1>4, <1>5, <1>6, <1>7, <1>8, <1>9 DEF m, t

\* A count keeps the invariant.
LEMMA AdvanceKept ==
    ASSUME NEW s, Ready(s)
    PROVE  PwmInv(P!AdvanceSlice(s))
BY SteppedKept, OutputsShown DEF P!AdvanceSlice, PwmInv, Ready

\* A count backwards keeps the type and shows itself.
LEMMA RetardKept ==
    ASSUME NEW s, PwmType(s)
    PROVE  LET r == P!RetardSlice(s)
           IN  /\ PwmType(r) /\ Shown(r) /\ r.wrong = s.wrong /\ r.steady = s.steady
               /\ r.ph = s.ph /\ r.top = s.top
<1>1. Count \in Nat /\ Count > 1
  BY CountAssumption
<1>2. s.ctr \in Nat /\ s.top \in Nat /\ s.top \in 0..(Count - 1) /\ s.ctr \in 0..(Count - 1)
  BY <1>1 DEF PwmType
<1>. DEFINE OK(t) == PwmType(t) /\ t.wrong = s.wrong /\ t.steady = s.steady /\ t.ph = s.ph /\ t.top = s.top
            c == (s.ctr - 1) % Count
<1>3. ASSUME NEW k \in 0..(Count - 1), NEW b \in BOOLEAN
      PROVE  OK([s EXCEPT !.ctr = k]) /\ OK([s EXCEPT !.down = b, !.ctr = k])
  BY DEF PwmType, PwmFields
<1>. HIDE DEF OK
<1>4. c \in 0..(Count - 1) /\ 1 \in 0..(Count - 1) /\ (s.ctr > 0 => s.ctr - 1 \in 0..(Count - 1))
        /\ (s.ctr < s.top => s.ctr + 1 \in 0..(Count - 1))
  BY <1>1, <1>2
<1>. HIDE DEF c
<1>. DEFINE r == CASE ~s.ph /\ s.ctr = 0 -> [s EXCEPT !.ctr = s.top]
                   [] ~s.ph /\ s.ctr > 0 -> [s EXCEPT !.ctr = @ - 1]
                   [] s.ph /\ ~s.down /\ s.ctr = 0 -> [s EXCEPT !.down = TRUE, !.ctr = 1]
                   [] s.ph /\ ~s.down /\ s.ctr > 0 -> [s EXCEPT !.ctr = @ - 1]
                   [] s.ph /\ s.down /\ s.ctr >= s.top -> [s EXCEPT !.down = FALSE, !.ctr = c]
                   [] s.ph /\ s.down /\ s.ctr < s.top -> [s EXCEPT !.ctr = @ + 1]
<1>5. OK(r)
  <2>1. CASE ~s.ph /\ s.ctr = 0
    <3>1. r = [s EXCEPT !.ctr = s.top]
      BY <1>2, <2>1
    <3>. QED
      BY <1>2, <1>3, <3>1
  <2>2. CASE (~s.ph \/ ~s.down) /\ s.ctr > 0
    BY <1>2, <1>3, <1>4, <2>2
  <2>3. CASE s.ph /\ ~s.down /\ s.ctr = 0
    BY <1>2, <1>3, <1>4, <2>3
  <2>4. CASE s.ph /\ s.down /\ s.ctr >= s.top
    BY <1>2, <1>3, <1>4, <2>4
  <2>5. CASE s.ph /\ s.down /\ s.ctr < s.top
    BY <1>2, <1>3, <1>4, <2>5
  <2>6. s.ph \in BOOLEAN /\ s.down \in BOOLEAN
    BY DEF PwmType
  <2>. HIDE DEF r
  <2>. QED
    BY <1>2, <2>1, <2>2, <2>3, <2>4, <2>5, <2>6
<1>6. P!RetardSlice(s) = P!Outputs(r)
  BY DEF P!RetardSlice, c
<1>. QED
  BY <1>5, <1>6, OutputsShown DEF OK

\* Where a count goes forwards
Forwards(s, t) ==
    /\ t.ph = s.ph /\ t.top = s.top
    /\ ~s.ph => t.ctr = (IF s.ctr >= s.top THEN 0 ELSE s.ctr + 1)
    /\ s.ph /\ ~s.down =>
            IF s.ctr >= s.top THEN t.down /\ t.ctr = (s.ctr - 1) % Count ELSE ~t.down /\ t.ctr = s.ctr + 1
    /\ s.ph /\ s.down => IF s.ctr = 0 THEN ~t.down /\ t.ctr = 1 ELSE t.down /\ t.ctr = s.ctr - 1

\* and where backwards
Backwards(s, t) ==
    /\ t.ph = s.ph /\ t.top = s.top
    /\ ~s.ph => t.ctr = (IF s.ctr = 0 THEN s.top ELSE s.ctr - 1)
    /\ s.ph /\ ~s.down => IF s.ctr = 0 THEN t.down /\ t.ctr = 1 ELSE ~t.down /\ t.ctr = s.ctr - 1
    /\ s.ph /\ s.down =>
            IF s.ctr >= s.top THEN ~t.down /\ t.ctr = (s.ctr - 1) % Count ELSE t.down /\ t.ctr = s.ctr + 1

\* The two undo each other where phase-correct counting can turn.
LEMMA TakenBack ==
    ASSUME NEW s, NEW t, NEW u, PwmType(s), s.ctr <= s.top, s.ph => s.top > 0,
           \/ Forwards(s, t) /\ Backwards(t, u)
           \/ Backwards(s, t) /\ Forwards(t, u)
    PROVE  u.ctr = s.ctr
<1>1. Count \in Nat /\ Count > 1 /\ s.top \in 0..(Count - 1) /\ s.ctr \in 0..(Count - 1)
        /\ s.ph \in BOOLEAN /\ s.down \in BOOLEAN
  BY CountAssumption DEF PwmType
<1>2. s.top > 0 => (s.top - 1) % Count = s.top - 1
  BY <1>1
<1>3. CASE ~s.ph
  BY <1>1, <1>3 DEF Forwards, Backwards
<1>4. CASE s.ph /\ Forwards(s, t) /\ Backwards(t, u)
  BY <1>1, <1>2, <1>4 DEF Forwards, Backwards
<1>5. CASE s.ph /\ Backwards(s, t) /\ Forwards(t, u)
  BY <1>1, <1>2, <1>5 DEF Forwards, Backwards
<1>. QED
  BY <1>1, <1>3, <1>4, <1>5

\* retard_slice goes backwards as Backwards says,
LEMMA RetardGoes ==
    ASSUME NEW s, PwmType(s)
    PROVE  Backwards(s, P!RetardSlice(s))
<1>1. s.ctr \in Nat /\ s.top \in Nat /\ s.ph \in BOOLEAN /\ s.down \in BOOLEAN
  BY CountAssumption DEF PwmType
<1>. DEFINE t == P!RetardSlice(s)
<1>2. CASE ~s.ph /\ s.ctr = 0
  <2>1. t = P!Outputs([s EXCEPT !.ctr = s.top])
    BY <1>1, <1>2 DEF P!RetardSlice
  <2>2. t.ctr = s.top /\ t.ph = s.ph /\ t.top = s.top
    BY <2>1 DEF P!Outputs, PwmType, PwmFields
  <2>. QED
    BY <1>2, <2>2 DEF Backwards
<1>3. CASE (~s.ph \/ ~s.down) /\ s.ctr > 0
  <2>1. t = P!Outputs([s EXCEPT !.ctr = @ - 1])
    BY <1>1, <1>3 DEF P!RetardSlice
  <2>2. t.ctr = s.ctr - 1 /\ t.ph = s.ph /\ t.top = s.top /\ t.down = s.down
    BY <2>1 DEF P!Outputs, PwmType, PwmFields
  <2>. QED
    BY <1>1, <1>3, <2>2 DEF Backwards
<1>4. CASE s.ph /\ ~s.down /\ s.ctr = 0
  <2>1. t = P!Outputs([s EXCEPT !.down = TRUE, !.ctr = 1])
    BY <1>1, <1>4 DEF P!RetardSlice
  <2>2. t.ctr = 1 /\ t.ph = s.ph /\ t.top = s.top /\ t.down
    BY <2>1 DEF P!Outputs, PwmType, PwmFields
  <2>. QED
    BY <1>1, <1>4, <2>2 DEF Backwards
<1>5. CASE s.ph /\ s.down /\ s.ctr >= s.top
  <2>1. t = P!Outputs([s EXCEPT !.down = FALSE, !.ctr = (@ - 1) % Count])
    BY <1>1, <1>5 DEF P!RetardSlice
  <2>2. t.ctr = (s.ctr - 1) % Count /\ t.ph = s.ph /\ t.top = s.top /\ ~t.down
    BY <2>1, ZenonT(60) DEF P!Outputs, PwmType, PwmFields
  <2>. QED
    BY <1>1, <1>5, <2>2 DEF Backwards
<1>6. CASE s.ph /\ s.down /\ s.ctr < s.top
  <2>1. t = P!Outputs([s EXCEPT !.ctr = @ + 1])
    BY <1>1, <1>6 DEF P!RetardSlice
  <2>2. t.ctr = s.ctr + 1 /\ t.ph = s.ph /\ t.top = s.top /\ t.down = s.down
    BY <2>1 DEF P!Outputs, PwmType, PwmFields
  <2>. QED
    BY <1>1, <1>6, <2>2 DEF Backwards
<1>. QED
  BY <1>1, <1>2, <1>3, <1>4, <1>5, <1>6

\* and advance_slice forwards as Forwards says.
LEMMA AdvanceGoes ==
    ASSUME NEW s, PwmType(s)
    PROVE  Forwards(s, P!AdvanceSlice(s))
<1>. DEFINE m == P!Measured(s)
            w == P!Wrapped(m)
            t == P!AdvanceSlice(s)
<1>1. /\ m = [f \in PwmFields |-> m[f]]
      /\ m.ctr = s.ctr /\ m.top = s.top /\ m.ph = s.ph /\ m.down = s.down
  BY DEF P!Measured, PwmType, PwmFields
<1>2. s.ctr \in Nat /\ s.top \in Nat /\ s.ph \in BOOLEAN /\ s.down \in BOOLEAN
  BY CountAssumption DEF PwmType
<1>3. t = P!Outputs(P!Stepped(m))
  BY DEF P!AdvanceSlice
<1>. SUFFICES Forwards(s, t)
  OBVIOUS
<1>. HIDE DEF m, t
<1>4. /\ w = [f \in PwmFields |-> w[f]]
      /\ w.ctr = m.ctr /\ w.top = m.top /\ w.ph = m.ph /\ w.down = m.down
  BY <1>1, ZenonT(60) DEF P!Wrapped, PwmFields
<1>. DEFINE c == (m.ctr - 1) % Count
<1>a. m.ctr \in Nat /\ m.top \in Nat /\ m.ph \in BOOLEAN /\ m.down \in BOOLEAN
  BY <1>1, <1>2
<1>5. CASE ~m.ph /\ m.ctr >= m.top
  <2>1. P!Stepped(m) = [w EXCEPT !.ctr = 0]
    BY <1>a, <1>5 DEF P!Stepped
  <2>. HIDE DEF w
  <2>2. t.ctr = 0 /\ t.ph = s.ph /\ t.top = s.top
    BY <1>1, <1>3, <1>4, <2>1 DEF P!Outputs, PwmFields
  <2>. QED
    BY <1>1, <1>2, <1>5, <2>2 DEF Forwards
<1>6. CASE (~m.ph \/ ~m.down) /\ m.ctr < m.top
  <2>1. P!Stepped(m) = [m EXCEPT !.ctr = @ + 1]
    BY <1>a, <1>6 DEF P!Stepped
  <2>2. t.ctr = s.ctr + 1 /\ t.ph = s.ph /\ t.top = s.top /\ t.down = s.down
    BY <1>1, <1>3, <2>1, SMTT(60) DEF P!Outputs, PwmFields
  <2>. QED
    BY <1>1, <1>2, <1>6, <2>2 DEF Forwards
<1>7. CASE m.ph /\ ~m.down /\ m.ctr >= m.top
  <2>1. P!Stepped(m) = [m EXCEPT !.down = TRUE, !.ctr = c]
    BY <1>a, <1>7 DEF P!Stepped
  <2>. HIDE DEF c
  <2>2. t.ctr = c /\ t.ph = s.ph /\ t.top = s.top /\ t.down
    BY <1>1, <1>3, <2>1, ZenonT(60) DEF P!Outputs, PwmFields
  <2>. QED
    BY <1>1, <1>2, <1>7, <2>2 DEF Forwards, c
<1>8. CASE m.ph /\ m.down /\ m.ctr = 0
  <2>1. P!Stepped(m) = [w EXCEPT !.down = FALSE, !.ctr = 1]
    BY <1>a, <1>8 DEF P!Stepped
  <2>. HIDE DEF w
  <2>2. t.ctr = 1 /\ t.ph = s.ph /\ t.top = s.top /\ ~t.down
    BY <1>1, <1>3, <1>4, <2>1, ZenonT(60) DEF P!Outputs, PwmFields
  <2>. QED
    BY <1>1, <1>2, <1>8, <2>2 DEF Forwards
<1>9. CASE m.ph /\ m.down /\ m.ctr > 0
  <2>1. P!Stepped(m) = [m EXCEPT !.ctr = @ - 1]
    BY <1>a, <1>9 DEF P!Stepped
  <2>2. t.ctr = s.ctr - 1 /\ t.ph = s.ph /\ t.top = s.top /\ t.down = s.down
    BY <1>1, <1>3, <2>1, SMTT(60) DEF P!Outputs, PwmFields
  <2>. QED
    <3>1. s.ph /\ s.down /\ s.ctr # 0
      BY <1>1, <1>2, <1>9
    <3>. QED
      BY <2>2, <3>1 DEF Forwards
<1>. QED
  BY <1>a, <1>5, <1>6, <1>7, <1>8, <1>9

-----------------------------------------------------------------------------
\* and keeps the invariant.
LEMMA RefreshIrqKept ==
    ASSUME NEW s, PwmInv(s)
    PROVE  PwmInv(P!RefreshIrq(s))
BY RefreshIrqAlike, AlikeKept DEF PwmInv, Ready

\* A register written that the counter depends on
LEMMA WrittenKept ==
    ASSUME NEW s, PwmType(s), ~s.wrong, ~s.steady
    PROVE  PwmInv(P!Outputs(s))
BY OutputsShown DEF PwmInv, Ready

\* So does a reset.
LEMMA ClearedKept ==
    ASSUME NEW b
    PROVE  PwmInv(P!Cleared(b))
<1>. DEFINE s == [en |-> FALSE, ph |-> FALSE, invA |-> FALSE, invB |-> FALSE, mode |-> "free", all |-> FALSE,
         div |-> <<1, 0>>, ctr |-> 0, ccA |-> 0, ccB |-> 0, top |-> Count - 1, acc |-> 0, down |-> FALSE,
         prevB |-> FALSE, levelB |-> b, outA |-> FALSE, outB |-> FALSE, oeB |-> FALSE,
         intr |-> FALSE, inte |-> FALSE, intf |-> FALSE, pend |-> FALSE, touched |-> FALSE, late |-> FALSE,
         run |-> 0, high |-> 0, steady |-> FALSE, wrong |-> FALSE]
<1>1. PwmType(s) /\ ~s.wrong /\ ~s.steady
  <2>1. s = [f \in PwmFields |-> s[f]]
    BY DEF PwmFields
  <2>2. 0 \in 0..(Count - 1) /\ Count - 1 \in 0..(Count - 1)
    BY CountAssumption
  <2>. QED
    BY <2>1, <2>2 DEF PwmType
<1>2. P!Cleared(b) = P!RefreshIrq(P!Outputs(s))
  BY DEF P!Cleared
<1>. HIDE DEF s
<1>. QED
  BY <1>1, <1>2, WrittenKept, RefreshIrqKept

\* The divider and the edges of pin B keep it, whatever they pace,
LEMMA PacedKept ==
    ASSUME NEW s, PwmInv(s)
    PROVE  PwmInv(P!Paced(s)) /\ PwmInv(P!Edged(s))
<1>1. ASSUME NEW n PROVE PwmInv([s EXCEPT !.acc = n]) /\ PwmInv([s EXCEPT !.prevB = n])
  <2>1. Alike(s, [s EXCEPT !.acc = n]) /\ Alike(s, [s EXCEPT !.prevB = n])
    BY DEF Alike, PwmInv, Ready, PwmType, PwmFields
  <2>. QED
    BY <2>1, AlikeKept
<1>2. ASSUME NEW n PROVE PwmInv(P!AdvanceSlice([s EXCEPT !.acc = n])) /\ PwmInv(P!AdvanceSlice([s EXCEPT !.prevB = n]))
  BY <1>1, AdvanceKept DEF PwmInv
<1>. QED
  BY <1>1, <1>2 DEF P!Paced, P!Edged

\* and so does a clock.
LEMMA PwmClock ==
    ASSUME PwmInv(dev), P!Clock
    PROVE  PwmInv(dev')
<1>1. PICK x : dev' = P!RefreshIrq(x) /\ (x = dev \/ x = P!Edged(dev) \/ x = P!Paced(dev))
  BY DEF P!Clock
<1>. QED
  BY <1>1, PacedKept, RefreshIrqKept

\* CSR written, and what its strobe makes of that
CsrNew(s, m) == [P!Unknown(s) EXCEPT !.en = m.en, !.ph = m.ph, !.invA = m.invA, !.mode = m.mode]
CsrMoved(s, m, strobe) ==
    CASE strobe = "adv" -> P!Unknown(P!AdvanceSlice(CsrNew(s, m)))
      [] strobe = "ret" -> P!RetardSlice(CsrNew(s, m))
      [] strobe = "none" -> CsrNew(s, m)

\* CSR with any strobe keeps it.
LEMMA PwmCsr ==
    ASSUME PwmInv(dev), P!WriteCsr
    PROVE  PwmInv(dev')
<1>1. PICK m \in Modes, strobe \in {"none", "adv", "ret"} :
        \E l : dev' = [P!Outputs(CsrMoved(dev, m, strobe)) EXCEPT !.late = l]
  BY ZenonT(60) DEF P!WriteCsr, CsrMoved, CsrNew
<1>. DEFINE u == P!Unknown(dev)
            new == CsrNew(dev, m)
            moved == CsrMoved(dev, m, strobe)
<1>2. PwmType(u) /\ ~u.wrong /\ ~u.steady
  BY UnknownKept DEF PwmInv, Ready
<1>3. m.ph \in BOOLEAN /\ m.invA \in BOOLEAN
  BY ModesAssumption
<1>. HIDE DEF u
<1>4. PwmType(new) /\ ~new.wrong /\ ~new.steady
  <2>1. new = [u EXCEPT !.en = m.en, !.ph = m.ph, !.invA = m.invA, !.mode = m.mode]
    BY DEF CsrNew, u
  <2>. HIDE DEF new
  <2>. QED
    BY <1>2, <1>3, <2>1, ZenonT(60) DEF PwmType, PwmFields
<1>5. moved = CASE strobe = "adv" -> P!Unknown(P!AdvanceSlice(new))
                [] strobe = "ret" -> P!RetardSlice(new)
                [] strobe = "none" -> new
  BY DEF CsrMoved
<1>. HIDE DEF new, moved
<1>6. PwmType(moved) /\ ~moved.wrong /\ ~moved.steady
  <2>1. CASE strobe = "adv"
    BY <1>4, <1>5, <2>1, AdvanceKept, UnknownKept DEF PwmInv, Ready
  <2>2. CASE strobe = "ret"
    BY <1>4, <1>5, <2>2, RetardKept
  <2>3. CASE strobe = "none"
    BY <1>4, <1>5, <2>3
  <2>. QED
    BY <2>1, <2>2, <2>3
<1>7. PwmInv(P!Outputs(moved))
  BY <1>6, WrittenKept
<1>8. Alike(P!Outputs(moved), dev')
  <2>. DEFINE o == P!Outputs(moved)
  <2>1. o = [f \in PwmFields |-> o[f]]
    BY <1>7 DEF PwmInv, Ready, PwmType
  <2>. HIDE DEF o
  <2>2. PICK l : dev' = [o EXCEPT !.late = l]
    BY <1>1 DEF o, moved
  <2>3. Alike(o, dev')
    BY <2>1, <2>2 DEF Alike, PwmFields
  <2>. QED
    BY <2>3 DEF o
<1>. QED
  BY <1>7, <1>8, AlikeKept

\* Every step of the PWM does.
LEMMA PwmStep ==
    ASSUME PwmInv(dev), P!Next
    PROVE  PwmInv(dev')
<1>. DEFINE u == P!Unknown(dev)
<1>1. PwmType(u) /\ ~u.wrong /\ ~u.steady
  BY UnknownKept DEF PwmInv, Ready
<1>2. dev = [f \in PwmFields |-> dev[f]]
  BY DEF PwmInv, Ready, PwmType
<1>3. CASE P!WriteDiv
  BY <1>2, <1>3, AlikeKept DEF P!WriteDiv, Alike, PwmFields
<1>4. CASE P!WriteCtr
  <2>1. PICK c \in Tops : dev' = P!Outputs([u EXCEPT !.ctr = c, !.down = FALSE])
    BY <1>4 DEF P!WriteCtr
  <2>. HIDE DEF u
  <2>2. c \in 0..(Count - 1)
    BY TopsAssumption
  <2>. DEFINE v == [u EXCEPT !.ctr = c, !.down = FALSE]
  <2>3. PwmType(v) /\ ~v.wrong /\ ~v.steady
    BY <1>1, <2>2 DEF PwmType, PwmFields
  <2>. HIDE DEF v
  <2>. QED
    BY <2>1, <2>3, WrittenKept DEF v
<1>5. CASE P!WriteCc
  <2>1. PICK a, b \in Levels : dev' = P!Outputs([u EXCEPT !.ccA = a, !.ccB = b])
    BY <1>5 DEF P!WriteCc
  <2>. HIDE DEF u
  <2>2. a \in 0..(Count - 1)
    BY TopsAssumption
  <2>. DEFINE v == [u EXCEPT !.ccA = a, !.ccB = b]
  <2>3. PwmType(v) /\ ~v.wrong /\ ~v.steady
    BY <1>1, <2>2 DEF PwmType, PwmFields
  <2>. HIDE DEF v
  <2>. QED
    BY <2>1, <2>3, WrittenKept DEF v
<1>6. CASE P!WriteTop
  <2>1. PICK t \in Tops : dev' = [u EXCEPT !.top = t]
    BY <1>6 DEF P!WriteTop
  <2>2. t \in 0..(Count - 1)
    BY TopsAssumption
  <2>3. Shown(u)
    BY <1>2 DEF P!Unknown, PwmInv, Shown, PwmFields
  <2>. HIDE DEF u
  <2>4. PwmType(dev') /\ ~dev'.wrong /\ ~dev'.steady /\ Shown(dev')
    BY <1>1, <2>1, <2>2, <2>3 DEF PwmType, PwmFields, Shown
  <2>. QED
    BY <2>4 DEF PwmInv, Ready
<1>7. CASE P!WriteEn
  BY <1>2, <1>7, AlikeKept DEF P!WriteEn, Alike, PwmFields
<1>8. CASE P!WriteInts
  <2>1. PICK e, f \in BOOLEAN : dev' = P!RefreshIrq([dev EXCEPT !.inte = e, !.intf = f])
    BY <1>8 DEF P!WriteInts
  <2>2. Alike(dev, [dev EXCEPT !.inte = e, !.intf = f])
    BY <1>2 DEF Alike, PwmFields
  <2>. QED
    BY <2>1, <2>2, AlikeKept, RefreshIrqKept
<1>9. CASE P!Acknowledge
  <2>1. dev' = P!RefreshIrq([dev EXCEPT !.intr = FALSE])
    BY <1>9 DEF P!Acknowledge
  <2>2. Alike(dev, [dev EXCEPT !.intr = FALSE])
    BY <1>2 DEF Alike, PwmFields
  <2>. QED
    BY <2>1, <2>2, AlikeKept, RefreshIrqKept
<1>10. CASE P!EnterHandler \/ P!ResetCore \/ P!WriteNvic
  <2>1. PICK p, q : dev' = [dev EXCEPT !.pend = p, !.touched = q]
    BY <1>10 DEF P!EnterHandler, P!ResetCore, P!WriteNvic
  <2>2. Alike(dev, dev')
    BY <1>2, <2>1 DEF Alike, PwmFields
  <2>. QED
    BY <2>2, AlikeKept
<1>11. CASE P!TurnPinB
  BY <1>2, <1>11, AlikeKept DEF P!TurnPinB, Alike, PwmFields
<1>12. CASE P!Reset
  BY <1>12, ClearedKept DEF P!Reset
<1>. QED
  BY <1>3, <1>4, <1>5, <1>6, <1>7, <1>8, <1>9, <1>10, <1>11, <1>12, PwmClock, PwmCsr DEF P!Next

\* Theorem: for counters of any width, any TOP, level and divider.
THEOREM DutyExactHolds == Spec => []DutyExact
<1>. DEFINE Inv == unit = "pwm" => PwmInv(dev)
<1>1. Init => Inv
  BY ClearedKept DEF Init, P!Init
<1>2. Inv /\ [Next]_vars => Inv'
  <2>1. CASE UNCHANGED vars
    BY <2>1 DEF vars
  <2>2. CASE Next
    BY <2>2, PwmStep DEF Next
  <2>. QED
    BY <2>1, <2>2
<1>3. Inv => DutyExact
  <2>1. SUFFICES ASSUME PwmInv(dev) PROVE P!DutyExact
    BY DEF DutyExact
  <2>2. ~dev.wrong /\ PwmType(dev) /\ Shown(dev) /\ Ready(dev)
    BY <2>1 DEF PwmInv, Ready
  <2>3. dev = P!Outputs(dev)
    BY <2>2, ShownIsOutputs
  <2>4. PwmType(P!AdvanceSlice(dev)) /\ PwmType(P!RetardSlice(dev))
    BY <2>2, AdvanceKept, RetardKept DEF PwmInv, Ready
  <2>5. /\ Forwards(dev, P!AdvanceSlice(dev)) /\ Backwards(P!AdvanceSlice(dev), P!RetardSlice(P!AdvanceSlice(dev)))
        /\ Backwards(dev, P!RetardSlice(dev)) /\ Forwards(P!RetardSlice(dev), P!AdvanceSlice(P!RetardSlice(dev)))
    BY <2>2, <2>4, AdvanceGoes, RetardGoes
  <2>. QED
    BY <2>2, <2>3, <2>5, TakenBack DEF P!DutyExact
<1>. QED
  BY <1>1, <1>2, <1>3, PTL DEF Spec

-----------------------------------------------------------------------------
(* The real-time clock *)

TimeFields == {"year", "month", "day", "dotw", "hour", "min", "sec"}
TimeType(t) ==
    /\ t = [f \in TimeFields |-> t[f]]
    /\ t.year \in Nat /\ t.month \in Nat /\ t.day \in Nat /\ t.dotw \in Nat
    /\ t.hour \in Nat /\ t.min \in Nat /\ t.sec \in Nat

\* The lengths of the months
LEMMA MonthLengths ==
    ASSUME NEW y \in Nat, NEW m \in 1..12
    PROVE  R!DaysInMonth(y, m) =
             CASE m \in {4, 6, 9, 11} -> 30
               [] m = 2 -> (IF y % 4 = 0 /\ (y % 100 # 0 \/ y % 400 = 0) THEN 29 ELSE 28)
               [] m \in {1, 3, 5, 7, 8, 10, 12} -> 31
BY DEF R!DaysInMonth

\* A leap year is one day longer.
LEMMA LeapYears ==
    ASSUME NEW y \in Nat
    PROVE  /\ y % 4 = 0 => y \div 4 = (y - 1) \div 4 + 1
           /\ y % 4 # 0 => y \div 4 = (y - 1) \div 4
           /\ y % 100 = 0 => y \div 100 = (y - 1) \div 100 + 1
           /\ y % 100 # 0 => y \div 100 = (y - 1) \div 100
           /\ y % 400 = 0 => y \div 400 = (y - 1) \div 400 + 1
           /\ y % 400 # 0 => y \div 400 = (y - 1) \div 400
           /\ y % 100 = 0 => y % 4 = 0
           /\ y % 400 = 0 => y % 100 = 0
OBVIOUS

\* The number of a day is a number.
LEMMA IntegerDay ==
    ASSUME NEW t, t.year \in Nat, t.month \in Nat, t.day \in Nat
    PROVE  R!DayNumber(t) \in Int
<1>. DEFINE y == IF t.month <= 2 THEN t.year - 1 ELSE t.year
            m == (t.month + 9) % 12
<1>1. y \in Int /\ m \in Int
  OBVIOUS
<1>2. R!DayNumber(t) = 365 * y + y \div 4 - y \div 100 + y \div 400 + (153 * m + 2) \div 5 + t.day
  BY DEF R!DayNumber
<1>. HIDE DEF y, m
<1>3. 365 * y \in Int /\ y \div 4 \in Int /\ y \div 100 \in Int /\ y \div 400 \in Int /\ (153 * m + 2) \div 5 \in Int
  BY <1>1
<1>. QED
  BY <1>2, <1>3

\* The first day of a month follows the last day of the one before.
LEMMA DayFollows ==
    ASSUME NEW t, TimeType(t), t.month \in 1..12, t.day = R!DaysInMonth(t.year, t.month),
           NEW n, TimeType(n), n.day = 1,
           \/ t.month < 12 /\ n.month = t.month + 1 /\ n.year = t.year
           \/ t.month = 12 /\ n.month = 1 /\ n.year = t.year + 1
    PROVE  R!DayNumber(n) = R!DayNumber(t) + 1
<1>1. t.year \in Nat
  BY DEF TimeType
<1>2. CASE t.month = 2
  <2>. DEFINE y == t.year
              z == y - 1
              last == IF y % 4 = 0 /\ (y % 100 # 0 \/ y % 400 = 0) THEN 29 ELSE 28
  <2>1. n.month = 3 /\ n.year = y /\ n.day = 1 /\ t.day = last
    BY <1>1, <1>2, MonthLengths
  <2>2. R!DayNumber(n) = 365 * y + y \div 4 - y \div 100 + y \div 400 + 1
    BY <1>1, <2>1 DEF R!DayNumber
  <2>3. R!DayNumber(t) = 365 * z + z \div 4 - z \div 100 + z \div 400 + 337 + last
    BY <1>1, <1>2, <2>1 DEF R!DayNumber
  <2>4. /\ y \in Nat /\ z \in Int /\ z = y - 1
        /\ y \div 4 \in Int /\ y \div 100 \in Int /\ y \div 400 \in Int
        /\ z \div 4 \in Int /\ z \div 100 \in Int /\ z \div 400 \in Int
    BY <1>1
  <2>5. /\ y \div 4 = z \div 4 + (IF y % 4 = 0 THEN 1 ELSE 0)
        /\ y \div 100 = z \div 100 + (IF y % 100 = 0 THEN 1 ELSE 0)
        /\ y \div 400 = z \div 400 + (IF y % 400 = 0 THEN 1 ELSE 0)
        /\ y % 100 = 0 => y % 4 = 0
        /\ y % 400 = 0 => y % 100 = 0
    BY <1>1, LeapYears
  <2>. HIDE DEF y, z
  <2>. QED
    BY <2>2, <2>3, <2>4, <2>5
<1>3. CASE t.month = 12
  BY <1>1, <1>3, MonthLengths DEF R!DayNumber
<1>4. CASE t.month = 1
  BY <1>1, <1>4, MonthLengths DEF R!DayNumber
<1>5. CASE t.month \in {3, 5, 7, 8, 10}
  BY <1>1, <1>5, MonthLengths DEF R!DayNumber
<1>6. CASE t.month \in {4, 6, 9, 11}
  BY <1>1, <1>6, MonthLengths DEF R!DayNumber
<1>. QED
  BY <1>2, <1>3, <1>4, <1>5, <1>6

\* A second later a time is still made of numbers.
LEMMA TickTyped ==
    ASSUME NEW t, TimeType(t)
    PROVE  TimeType(R!TickSecond(t))
<1>1. PICK last : R!TickSecond(t) =
            CASE t.sec + 1 < Minute -> [t EXCEPT !.sec = @ + 1]
              [] t.sec + 1 >= Minute /\ t.min + 1 < Hour -> [t EXCEPT !.sec = 0, !.min = @ + 1]
              [] t.sec + 1 >= Minute /\ t.min + 1 >= Hour /\ t.hour + 1 < Day ->
                    [t EXCEPT !.sec = 0, !.min = 0, !.hour = @ + 1]
              [] OTHER ->
                    LET next == [t EXCEPT !.sec = 0, !.min = 0, !.hour = 0, !.dotw = (@ + 1) % 7]
                    IN  CASE t.day + 1 <= last -> [next EXCEPT !.day = @ + 1]
                          [] t.day + 1 > last /\ t.month + 1 <= 12 -> [next EXCEPT !.day = 1, !.month = @ + 1]
                          [] OTHER -> [next EXCEPT !.day = 1, !.month = 1, !.year = @ + 1]
  BY DEF R!TickSecond
<1>. DEFINE next == [t EXCEPT !.sec = 0, !.min = 0, !.hour = 0, !.dotw = (@ + 1) % 7]
<1>2. TimeType(next)
  <2>1. (t.dotw + 1) % 7 \in Nat
    BY DEF TimeType
  <2>. QED
    BY <2>1 DEF TimeType, TimeFields
<1>3. TimeType([t EXCEPT !.sec = @ + 1]) /\ TimeType([t EXCEPT !.sec = 0, !.min = @ + 1])
        /\ TimeType([t EXCEPT !.sec = 0, !.min = 0, !.hour = @ + 1])
  <2>1. TimeType([t EXCEPT !.sec = @ + 1])
    BY DEF TimeType, TimeFields
  <2>2. TimeType([t EXCEPT !.sec = 0, !.min = @ + 1])
    <3>. DEFINE u == [t EXCEPT !.sec = 0, !.min = @ + 1]
    <3>1. /\ u = [f \in TimeFields |-> u[f]]
          /\ u.year = t.year /\ u.month = t.month /\ u.day = t.day /\ u.dotw = t.dotw /\ u.hour = t.hour /\ u.min = t.min + 1 /\ u.sec = 0
      BY DEF TimeType, TimeFields
    <3>. HIDE DEF u
    <3>2. TimeType(u)
      BY <3>1 DEF TimeType
    <3>. QED
      BY <3>2 DEF u
  <2>3. TimeType([t EXCEPT !.sec = 0, !.min = 0, !.hour = @ + 1])
    <3>. DEFINE u == [t EXCEPT !.sec = 0, !.min = 0, !.hour = @ + 1]
    <3>1. /\ u = [f \in TimeFields |-> u[f]]
          /\ u.year = t.year /\ u.month = t.month /\ u.day = t.day /\ u.dotw = t.dotw /\ u.hour = t.hour + 1 /\ u.min = 0 /\ u.sec = 0
      BY DEF TimeType, TimeFields
    <3>. HIDE DEF u
    <3>2. TimeType(u)
      BY <3>1 DEF TimeType
    <3>. QED
      BY <3>2 DEF u
  <2>. QED
    BY <2>1, <2>2, <2>3
<1>. HIDE DEF next
<1>4. TimeType([next EXCEPT !.day = @ + 1]) /\ TimeType([next EXCEPT !.day = 1, !.month = @ + 1])
        /\ TimeType([next EXCEPT !.day = 1, !.month = 1, !.year = @ + 1])
  <2>1. TimeType([next EXCEPT !.day = @ + 1])
    BY <1>2 DEF TimeType, TimeFields
  <2>2. TimeType([next EXCEPT !.day = 1, !.month = @ + 1])
    <3>. DEFINE u == [next EXCEPT !.day = 1, !.month = @ + 1]
    <3>1. /\ u = [f \in TimeFields |-> u[f]]
          /\ u.year = next.year /\ u.month = next.month + 1 /\ u.day = 1 /\ u.dotw = next.dotw /\ u.hour = next.hour /\ u.min = next.min /\ u.sec = next.sec
      BY <1>2 DEF TimeType, TimeFields
    <3>. HIDE DEF u
    <3>2. TimeType(u)
      BY <1>2, <3>1 DEF TimeType
    <3>. QED
      BY <3>2 DEF u
  <2>3. TimeType([next EXCEPT !.day = 1, !.month = 1, !.year = @ + 1])
    <3>. DEFINE u == [next EXCEPT !.day = 1, !.month = 1, !.year = @ + 1]
    <3>1. /\ u = [f \in TimeFields |-> u[f]]
          /\ u.year = next.year + 1 /\ u.month = 1 /\ u.day = 1 /\ u.dotw = next.dotw /\ u.hour = next.hour /\ u.min = next.min /\ u.sec = next.sec
      BY <1>2 DEF TimeType, TimeFields
    <3>. HIDE DEF u
    <3>2. TimeType(u)
      BY <1>2, <3>1 DEF TimeType
    <3>. QED
      BY <3>2 DEF u
  <2>. QED
    BY <2>1, <2>2, <2>3
<1>. QED
  BY <1>1, <1>3, <1>4 DEF next

\* The end of the last second of an hour, and of a day
LEMMA HourCarries ==
    ASSUME NEW x \in Int, NEW h \in Int, NEW H \in Nat \ {0}, NEW M \in Nat \ {0}
    PROVE  ((x + (h + 1)) * H + 0) * M + 0 = ((x + h) * H + (H - 1)) * M + (M - 1) + 1
<1>. DEFINE y == (x + h) * H
<1>1. y \in Int /\ (x + (h + 1)) * H = y + H
  OBVIOUS
<1>. HIDE DEF y
<1>2. (y + H) * M = (y + (H - 1)) * M + M /\ (y + (H - 1)) * M \in Int
  BY <1>1
<1>. QED
  BY <1>1, <1>2 DEF y

\* After the last second of a day comes the first of the next.
LEMMA DayCarries ==
    ASSUME NEW d \in Int, NEW D1 \in Nat \ {0}, NEW H \in Nat \ {0}, NEW M \in Nat \ {0}
    PROVE  (((d + 1) * D1 + 0) * H + 0) * M + 0 = ((d * D1 + (D1 - 1)) * H + (H - 1)) * M + (M - 1) + 1
<1>. DEFINE x == d * D1
<1>1. x \in Int /\ (d + 1) * D1 = x + D1
  OBVIOUS
<1>. HIDE DEF x
<1>2. ((x + ((D1 - 1) + 1)) * H + 0) * M + 0 = ((x + (D1 - 1)) * H + (H - 1)) * M + (M - 1) + 1
  BY <1>1, HourCarries
<1>3. x + ((D1 - 1) + 1) = (d + 1) * D1 + 0
  BY <1>1
<1>. QED
  BY <1>2, <1>3 DEF x

\* From a valid time the clock goes on to the next second.
LEMMA TickExact ==
    ASSUME NEW t, TimeType(t), R!Valid(t)
    PROVE  LET n == R!TickSecond(t)
           IN  /\ R!Valid(n) /\ R!Seconds(n) = R!Seconds(t) + 1
               /\ n.dotw = (t.dotw + R!DayNumber(n) - R!DayNumber(t)) % 7
<1>. DEFINE n == R!TickSecond(t)
            last == R!DaysInMonth(t.year, t.month)
<1>1. TimeType(n)
  BY TickTyped
<1>2. /\ t.year \in Nat /\ t.month \in 1..12 /\ t.day \in 1..last /\ t.dotw \in 0..6
      /\ t.hour \in 0..(Day - 1) /\ t.min \in 0..(Hour - 1) /\ t.sec \in 0..(Minute - 1)
      /\ Minute \in Nat \ {0} /\ Hour \in Nat \ {0} /\ Day \in Nat \ {0}
  BY ClockAssumption DEF R!Valid, TimeType
<1>3. last \in Nat /\ t.day \in Nat /\ R!DayNumber(t) \in Int
  <2>1. last \in Nat
    BY <1>2, MonthLengths
  <2>2. t.day \in Nat
    BY DEF TimeType
  <2>. HIDE DEF last
  <2>. QED
    BY <1>2, <2>1, <2>2, IntegerDay
<1>. DEFINE d == R!DayNumber(t)
<1>4. CASE t.sec + 1 < Minute
  <2>1. n = [t EXCEPT !.sec = @ + 1]
    BY <1>2, <1>4 DEF R!TickSecond
  <2>2. /\ n.year = t.year /\ n.month = t.month /\ n.day = t.day /\ n.dotw = t.dotw
        /\ n.hour = t.hour /\ n.min = t.min /\ n.sec = t.sec + 1
    BY <2>1 DEF TimeType, TimeFields
  <2>. HIDE DEF n
  <2>3. R!DayNumber(n) = d
    BY <2>2 DEF R!DayNumber
  <2>4. R!Valid(n)
    BY <1>2, <1>4, <2>2 DEF R!Valid
  <2>5. R!Seconds(n) = R!Seconds(t) + 1
    <3>. DEFINE x == (d * Day + t.hour) * Hour + t.min
    <3>1. x \in Int
      BY <1>2, <1>3
    <3>. HIDE DEF x
    <3>2. x * Minute \in Int
      BY <1>2, <3>1
    <3>3. R!Seconds(n) = x * Minute + (t.sec + 1) /\ R!Seconds(t) = x * Minute + t.sec
      BY <2>2, <2>3 DEF R!Seconds, x
    <3>. QED
      BY <1>2, <3>2, <3>3
  <2>. QED
    BY <1>2, <1>3, <2>2, <2>3, <2>4, <2>5 DEF n
<1>5. CASE t.sec + 1 >= Minute /\ t.min + 1 < Hour
  <2>1. n = [t EXCEPT !.sec = 0, !.min = @ + 1]
    BY <1>2, <1>5 DEF R!TickSecond
  <2>2. /\ n.year = t.year /\ n.month = t.month /\ n.day = t.day /\ n.dotw = t.dotw
        /\ n.hour = t.hour /\ n.min = t.min + 1 /\ n.sec = 0
    BY <2>1 DEF TimeType, TimeFields
  <2>. HIDE DEF n
  <2>3. R!DayNumber(n) = d
    BY <2>2 DEF R!DayNumber
  <2>4. R!Valid(n)
    BY <1>2, <1>5, <2>2 DEF R!Valid
  <2>5. R!Seconds(n) = R!Seconds(t) + 1
    <3>. DEFINE x == (d * Day + t.hour) * Hour
    <3>1. x \in Int
      BY <1>2, <1>3
    <3>2. R!Seconds(n) = (x + (t.min + 1)) * Minute + 0 /\ R!Seconds(t) = (x + t.min) * Minute + t.sec
      BY <2>2, <2>3 DEF R!Seconds
    <3>. HIDE DEF x
    <3>3. (x + (t.min + 1)) * Minute = (x + t.min) * Minute + Minute /\ (x + t.min) * Minute \in Int
      BY <1>2, <3>1
    <3>4. t.sec = Minute - 1
      BY <1>2, <1>5
    <3>. QED
      BY <1>2, <3>2, <3>3, <3>4
  <2>. QED
    BY <1>2, <1>3, <2>2, <2>3, <2>4, <2>5 DEF n
<1>6. CASE t.sec + 1 >= Minute /\ t.min + 1 >= Hour /\ t.hour + 1 < Day
  <2>1. n = [t EXCEPT !.sec = 0, !.min = 0, !.hour = @ + 1]
    BY <1>2, <1>6 DEF R!TickSecond
  <2>2. /\ n.year = t.year /\ n.month = t.month /\ n.day = t.day /\ n.dotw = t.dotw
        /\ n.hour = t.hour + 1 /\ n.min = 0 /\ n.sec = 0
    BY <2>1 DEF TimeType, TimeFields
  <2>. HIDE DEF n
  <2>3. R!DayNumber(n) = d
    BY <2>2 DEF R!DayNumber
  <2>4. R!Valid(n)
    BY <1>2, <1>6, <2>2 DEF R!Valid
  <2>5. R!Seconds(n) = R!Seconds(t) + 1
    <3>. DEFINE x == d * Day
    <3>1. x \in Int
      BY <1>2, <1>3
    <3>2. R!Seconds(n) = ((x + (t.hour + 1)) * Hour + 0) * Minute + 0 /\ R!Seconds(t) = ((x + t.hour) * Hour + t.min) * Minute + t.sec
      BY <2>2, <2>3 DEF R!Seconds
    <3>. HIDE DEF x
    <3>3. t.sec = Minute - 1 /\ t.min = Hour - 1
      BY <1>2, <1>6
    <3>. QED
      BY <1>2, <3>1, <3>2, <3>3, HourCarries
  <2>. QED
    BY <1>2, <1>3, <2>2, <2>3, <2>4, <2>5 DEF n
<1>7. CASE t.sec + 1 >= Minute /\ t.min + 1 >= Hour /\ t.hour + 1 >= Day
  <2>. DEFINE next == [t EXCEPT !.sec = 0, !.min = 0, !.hour = 0, !.dotw = (@ + 1) % 7]
  <2>1. n = CASE t.day + 1 <= last -> [next EXCEPT !.day = @ + 1]
              [] t.day + 1 > last /\ t.month + 1 <= 12 -> [next EXCEPT !.day = 1, !.month = @ + 1]
              [] OTHER -> [next EXCEPT !.day = 1, !.month = 1, !.year = @ + 1]
    BY <1>2, <1>7 DEF R!TickSecond
  <2>2. /\ next = [f \in TimeFields |-> next[f]] /\ next.dotw = (t.dotw + 1) % 7
        /\ next.hour = 0 /\ next.min = 0 /\ next.sec = 0
        /\ next.year = t.year /\ next.month = t.month /\ next.day = t.day
    BY DEF TimeType, TimeFields
  <2>. HIDE DEF next, n
  <2>3. n.hour = 0 /\ n.min = 0 /\ n.sec = 0 /\ n.dotw = (t.dotw + 1) % 7
    BY <2>1, <2>2 DEF TimeFields
  <2>4. R!DayNumber(n) = d + 1 /\ n.month \in 1..12 /\ n.day \in 1..R!DaysInMonth(n.year, n.month)
    <3>1. CASE t.day + 1 <= last
      <4>a. n = [next EXCEPT !.day = @ + 1]
        BY <1>2, <1>3, <2>1, <3>1
      <4>1. n.day = t.day + 1 /\ n.month = t.month /\ n.year = t.year
        BY <2>2, <4>a DEF TimeFields
      <4>2. n.day \in 1..last
        BY <1>2, <1>3, <3>1, <4>1
      <4>3. R!DayNumber(n) = d + 1
        BY <1>2, <1>3, <4>1 DEF R!DayNumber
      <4>. QED
        BY <1>2, <4>1, <4>2, <4>3
    <3>2. CASE t.day + 1 > last /\ t.month + 1 <= 12
      <4>1. n.day = 1 /\ n.month = t.month + 1 /\ n.year = t.year
        BY <1>2, <1>3, <2>1, <2>2, <3>2 DEF TimeFields
      <4>2. t.day = last /\ t.month < 12 /\ n.month \in 1..12
        BY <1>2, <1>3, <3>2, <4>1
      <4>3. R!DayNumber(n) = d + 1
        BY <1>1, <1>2, <4>1, <4>2, DayFollows DEF n
      <4>4. 1 \in 1..R!DaysInMonth(t.year, n.month)
        BY <1>2, <4>2, MonthLengths
      <4>. QED
        BY <4>1, <4>2, <4>3, <4>4
    <3>3. CASE t.day + 1 > last /\ t.month + 1 > 12
      <4>1. n.day = 1 /\ n.month = 1 /\ n.year = t.year + 1
        BY <1>2, <1>3, <2>1, <2>2, <3>3 DEF TimeFields
      <4>2. t.day = last /\ t.month = 12 /\ t.year + 1 \in Nat
        BY <1>2, <1>3, <3>3
      <4>3. R!DayNumber(n) = d + 1
        BY <1>1, <1>2, <4>1, <4>2, DayFollows DEF n
      <4>4. 1 \in 1..R!DaysInMonth(t.year + 1, 1)
        BY <4>2, MonthLengths
      <4>. QED
        BY <4>1, <4>3, <4>4
    <3>. QED
      BY <1>2, <1>3, <3>1, <3>2, <3>3
  <2>5. R!Valid(n)
    BY <1>2, <2>3, <2>4 DEF R!Valid
  <2>6. R!Seconds(n) = R!Seconds(t) + 1
    <3>1. R!Seconds(n) = (((d + 1) * Day + 0) * Hour + 0) * Minute + 0 /\ R!Seconds(t) = ((d * Day + t.hour) * Hour + t.min) * Minute + t.sec
      BY <2>3, <2>4 DEF R!Seconds
    <3>2. t.sec = Minute - 1 /\ t.min = Hour - 1 /\ t.hour = Day - 1
      BY <1>2, <1>7
    <3>. HIDE DEF d
    <3>. QED
      BY <1>2, <1>3, <3>1, <3>2, DayCarries DEF d
  <2>7. n.dotw = (t.dotw + R!DayNumber(n) - d) % 7
    BY <1>2, <1>3, <2>3, <2>4
  <2>. QED
    BY <2>5, <2>6, <2>7 DEF n
<1>. QED
  BY <1>2, <1>4, <1>5, <1>6, <1>7

Timekeeping(r, p) ==
    /\ {"now", "setup"} \subseteq DOMAIN r /\ {"base", "passed"} \subseteq DOMAIN p
    /\ TimeType(r.now) /\ TimeType(r.setup) /\ TimeType(p.base) /\ p.passed \in Nat
    /\ R!Valid(p.base) =>
            /\ R!Valid(r.now)
            /\ R!Seconds(r.now) = R!Seconds(p.base) + p.passed
            /\ r.now.dotw = (p.base.dotw + R!DayNumber(r.now) - R!DayNumber(p.base)) % 7

\* What leaves the time alone
LEMMA SameTime ==
    ASSUME NEW r, NEW p, Timekeeping(r, p),
           NEW q, {"now", "setup"} \subseteq DOMAIN q, q.now = r.now, TimeType(q.setup),
           NEW w, {"base", "passed"} \subseteq DOMAIN w, w.base = p.base, w.passed = p.passed
    PROVE  Timekeeping(q, w)
BY DEF Timekeeping

\* check_alarm neither sets the time nor the time to load.
LEMMA CheckAlarmKeeps ==
    ASSUME NEW r, {"now", "setup"} \subseteq DOMAIN r
    PROVE  LET c == R!CheckAlarm(r)
           IN  {"now", "setup"} \subseteq DOMAIN c /\ c.now = r.now /\ c.setup = r.setup
BY DEF R!CheckAlarm

\* A time that was just loaded is the time that was loaded.
LEMMA Begins ==
    ASSUME NEW t, TimeType(t), NEW r, NEW p,
           {"now", "setup"} \subseteq DOMAIN r, {"base", "passed"} \subseteq DOMAIN p,
           r.now = t, TimeType(r.setup), p.base = t, p.passed = 0
    PROVE  Timekeeping(r, p)
<1>1. t.year \in Nat /\ t.month \in Nat /\ t.day \in Nat /\ t.dotw \in Nat
  BY DEF TimeType
<1>2. R!DayNumber(t) \in Int
  BY <1>1, IntegerDay
<1>3. R!Valid(t) => t.dotw \in 0..6 /\ t.dotw = (t.dotw + R!DayNumber(t) - R!DayNumber(t)) % 7
  BY <1>1, <1>2 DEF R!Valid
<1>4. R!Seconds(t) = R!Seconds(t) + 0
  BY <1>2, ClockAssumption DEF R!Seconds, TimeType
<1>. QED
  BY <1>3, <1>4 DEF Timekeeping

\* The time after a reset and those that are loaded are made of numbers.
LEMMA FirstTime == TimeType(R!First)
BY DEF R!First, TimeType, TimeFields

LEMMA LoadedTimes == ASSUME NEW t \in Times PROVE TimeType(t)
BY TimesAssumption DEF TimeType, TimeFields

\* The clock starts at the time of its reset.
LEMMA RtcBegins ==
    ASSUME NEW div, NEW k, NEW w
    PROVE  /\ Timekeeping(R!Cleared(div), R!Fresh(k, w))
           /\ Timekeeping(R!CheckAlarm(R!Cleared(div)), R!Fresh(k, w))
<1>. DEFINE r == R!Cleared(div)
            p == R!Fresh(k, w)
<1>1. {"now", "setup"} \subseteq DOMAIN r /\ r.now = R!First /\ r.setup = R!First
  BY DEF R!Cleared
<1>2. {"base", "passed"} \subseteq DOMAIN p /\ p.base = R!First /\ p.passed = 0
  BY DEF R!Fresh
<1>. HIDE DEF r, p
<1>3. LET c == R!CheckAlarm(r) IN {"now", "setup"} \subseteq DOMAIN c /\ c.now = R!First /\ c.setup = R!First
  BY <1>1, CheckAlarmKeeps
<1>4. Timekeeping(r, p) /\ Timekeeping(R!CheckAlarm(r), p)
  BY <1>1, <1>2, <1>3, FirstTime, Begins
<1>. QED
  BY <1>4 DEF r, p

\* A tick moves the time and the count of seconds alike.
LEMMA RtcClock ==
    ASSUME Timekeeping(dev, past), R!Clock
    PROVE  Timekeeping(dev', past')
<1>. DEFINE t == dev.now
            n == R!TickSecond(t)
            b == past.base
<1>0. {"now", "setup"} \subseteq DOMAIN dev /\ {"base", "passed"} \subseteq DOMAIN past
  BY DEF Timekeeping
<1>1. CASE dev.count + 1 > dev.div
  <2>. DEFINE ticked == [dev EXCEPT !.count = 0, !.now = R!TickSecond(@)]
  <2>1. dev' = R!CheckAlarm(ticked) /\ \E k, g : past' = [past EXCEPT !.passed = @ + 1, !.seconds = k, !.rung = g]
    BY <1>1 DEF R!Clock
  <2>2. {"now", "setup"} \subseteq DOMAIN ticked /\ ticked.now = n /\ ticked.setup = dev.setup
    BY <1>0
  <2>3. {"base", "passed"} \subseteq DOMAIN past' /\ past'.base = b /\ past'.passed = past.passed + 1
    BY <1>0, <2>1
  <2>. HIDE DEF ticked
  <2>4. {"now", "setup"} \subseteq DOMAIN dev' /\ dev'.now = n /\ dev'.setup = dev.setup
    BY <2>1, <2>2, CheckAlarmKeeps
  <2>5. TimeType(t) /\ TimeType(b) /\ TimeType(n) /\ past.passed \in Nat
    BY TickTyped DEF Timekeeping
  <2>6. ASSUME R!Valid(b)
        PROVE  /\ R!Valid(n) /\ R!Seconds(n) = R!Seconds(b) + (past.passed + 1)
               /\ n.dotw = (b.dotw + R!DayNumber(n) - R!DayNumber(b)) % 7
    <3>1. /\ R!Valid(t) /\ R!Seconds(t) = R!Seconds(b) + past.passed
          /\ t.dotw = (b.dotw + R!DayNumber(t) - R!DayNumber(b)) % 7
      BY <2>6 DEF Timekeeping
    <3>2. /\ R!Valid(n) /\ R!Seconds(n) = R!Seconds(t) + 1
          /\ n.dotw = (t.dotw + R!DayNumber(n) - R!DayNumber(t)) % 7
      BY <2>5, <3>1, TickExact
    <3>3. /\ R!DayNumber(n) \in Int /\ R!DayNumber(t) \in Int /\ R!DayNumber(b) \in Int
          /\ b.dotw \in Int /\ t.dotw \in Int
      BY <2>5, IntegerDay DEF TimeType
    <3>4. R!Seconds(b) \in Int
      BY <2>5, <3>3, ClockAssumption DEF R!Seconds, TimeType
    <3>. HIDE DEF n, t, b
    <3>5. n.dotw = (b.dotw + R!DayNumber(n) - R!DayNumber(b)) % 7
      BY <3>1, <3>2, <3>3
    <3>. QED
      BY <2>5, <3>1, <3>2, <3>4, <3>5
  <2>7. TimeType(dev'.setup)
    BY <2>4 DEF Timekeeping
  <2>. HIDE DEF n, b
  <2>. QED
    BY <2>3, <2>4, <2>5, <2>6, <2>7 DEF Timekeeping
<1>2. CASE ~(dev.count + 1 > dev.div)
  BY <1>0, <1>2, SameTime DEF R!Clock, Timekeeping
<1>. QED
  BY <1>1, <1>2

\* Every step of the real-time clock keeps the invariant.
LEMMA RtcStep ==
    ASSUME Timekeeping(dev, past), R!Next
    PROVE  Timekeeping(dev', past')
<1>0. {"now", "setup"} \subseteq DOMAIN dev /\ {"base", "passed"} \subseteq DOMAIN past /\ TimeType(dev.setup)
  BY DEF Timekeeping
<1>1. ASSUME NEW new, R!Written(new), {"now", "setup"} \subseteq DOMAIN new, new.now = dev.now, TimeType(new.setup)
      PROVE  Timekeeping(dev', past')
  <2>1. {"base", "passed"} \subseteq DOMAIN past' /\ past'.base = past.base /\ past'.passed = past.passed
    BY <1>0, <1>1 DEF R!Written
  <2>2. {"now", "setup"} \subseteq DOMAIN dev' /\ dev'.now = dev.now /\ TimeType(dev'.setup)
    BY <1>1, CheckAlarmKeeps DEF R!Written
  <2>. QED
    BY <2>1, <2>2, SameTime
<1>2. CASE R!WriteDiv
  BY <1>0, <1>1, <1>2 DEF R!WriteDiv
<1>3. CASE R!WriteSetup
  BY <1>0, <1>1, <1>3, LoadedTimes DEF R!WriteSetup
<1>4. CASE R!WriteInts
  BY <1>0, <1>1, <1>4 DEF R!WriteInts
<1>5. CASE R!WriteCtrl
  <2>1. PICK e, load \in BOOLEAN :
            LET new == [dev EXCEPT !.enabled = e, !.now = IF load THEN dev.setup ELSE @, !.count = IF load THEN 0 ELSE @]
            IN  /\ dev' = R!CheckAlarm(new)
                /\ past' = IF load
                           THEN [past EXCEPT !.writes = @ - 1, !.base = dev.setup, !.passed = 0,
                                             !.set = R!Seconds(dev.setup), !.rung = FALSE]
                           ELSE [past EXCEPT !.writes = @ - 1, !.rung = @ \/ R!Rings(new)]
    BY <1>5 DEF R!WriteCtrl
  <2>. DEFINE new == [dev EXCEPT !.enabled = e, !.now = IF load THEN dev.setup ELSE @, !.count = IF load THEN 0 ELSE @]
  <2>2. /\ {"now", "setup"} \subseteq DOMAIN new /\ new.setup = dev.setup
        /\ new.now = IF load THEN dev.setup ELSE dev.now
    BY <1>0
  <2>3. dev' = R!CheckAlarm(new)
    BY <2>1
  <2>. HIDE DEF new
  <2>4. /\ {"now", "setup"} \subseteq DOMAIN dev' /\ dev'.setup = dev.setup
        /\ dev'.now = IF load THEN dev.setup ELSE dev.now
    BY <2>2, <2>3, CheckAlarmKeeps
  <2>5. CASE load
    <3>1. {"base", "passed"} \subseteq DOMAIN past' /\ past'.base = dev.setup /\ past'.passed = 0
      BY <1>0, <2>1, <2>5
    <3>. QED
      BY <1>0, <2>4, <2>5, <3>1, Begins
  <2>6. CASE ~load
    <3>1. {"base", "passed"} \subseteq DOMAIN past' /\ past'.base = past.base /\ past'.passed = past.passed
      BY <1>0, <2>1, <2>6
    <3>. QED
      BY <1>0, <2>4, <2>6, <3>1, SameTime
  <2>. QED
    BY <2>5, <2>6
<1>6. CASE R!WriteAlarm
  <2>1. {"base", "passed"} \subseteq DOMAIN past' /\ past'.base = past.base /\ past'.passed = past.passed
    BY <1>0, <1>6 DEF R!WriteAlarm
  <2>2. PICK d, m : dev' = R!CheckAlarm([dev EXCEPT !.date = d, !.intr = FALSE]) \/ dev' = R!CheckAlarm([dev EXCEPT !.moment = m, !.intr = FALSE])
    BY <1>6 DEF R!WriteAlarm
  <2>3. {"now", "setup"} \subseteq DOMAIN dev' /\ dev'.now = dev.now /\ TimeType(dev'.setup)
    BY <1>0, <2>2, CheckAlarmKeeps
  <2>. QED
    BY <2>1, <2>3, SameTime
<1>7. CASE R!Acknowledge
  <2>1. dev' = R!CheckAlarm([dev EXCEPT !.intr = FALSE]) /\ past' = past
    BY <1>7 DEF R!Acknowledge
  <2>2. {"now", "setup"} \subseteq DOMAIN dev' /\ dev'.now = dev.now /\ TimeType(dev'.setup)
    BY <1>0, <2>1, CheckAlarmKeeps
  <2>. QED
    BY <1>0, <2>1, <2>2, SameTime
<1>8. CASE R!EnterHandler \/ R!ResetCore \/ R!WriteNvic
  <2>1. past' = past /\ \E p, q : dev' = [dev EXCEPT !.pend = p, !.touched = q]
    BY <1>8 DEF R!EnterHandler, R!ResetCore, R!WriteNvic
  <2>2. {"now", "setup"} \subseteq DOMAIN dev' /\ dev'.now = dev.now /\ TimeType(dev'.setup)
    BY <1>0, <2>1
  <2>. QED
    BY <1>0, <2>1, <2>2, SameTime
<1>9. CASE R!Reset
  <2>1. dev' = R!CheckAlarm(R!Cleared(R!ResetDiv)) /\ past' = R!Fresh(past.seconds, past.writes - 1)
    BY <1>9 DEF R!Reset
  <2>. QED
    BY <2>1, RtcBegins
<1>10. CASE R!Rest
  BY <1>0, <1>10 DEF R!Rest, R!vars
<1>. QED
  BY <1>2, <1>3, <1>4, <1>5, <1>6, <1>7, <1>8, <1>9, <1>10, RtcClock DEF R!Next

\* Theorem
THEOREM CalendarExactHolds == Spec => []CalendarExact
<1>. DEFINE Inv == unit = "rtc" => Timekeeping(dev, past)
<1>1. Init => Inv
  <2>1. ASSUME R!Init PROVE Timekeeping(dev, past)
    BY <2>1, RtcBegins DEF R!Init
  <2>. QED
    BY <2>1 DEF Init
<1>2. Inv /\ [Next]_vars => Inv'
  <2>1. CASE UNCHANGED vars
    BY <2>1 DEF vars
  <2>2. CASE Next
    BY <2>2, RtcStep DEF Next
  <2>. QED
    BY <2>1, <2>2
<1>3. Inv => CalendarExact
  BY DEF CalendarExact, R!CalendarExact, R!Now, Timekeeping
<1>. QED
  BY <1>1, <1>2, <1>3, PTL DEF Spec

-----------------------------------------------------------------------------
(* The timer *)

Digits == 0..(Word - 1)
Counts == 0..(Word * Word - 1)

TimerShape ==
    [period : TickPeriods, acc : Nat, counter : Counts, staged : Digits, latched : Digits, paused : BOOLEAN,
     alarm : [Alarms -> Digits], armed : SUBSET Alarms, intr : SUBSET Alarms, inte : SUBSET Alarms,
     intf : SUBSET Alarms, pend : SUBSET Alarms, touched : SUBSET Alarms, left : [Alarms -> Int],
     missed : BOOLEAN, jumped : BOOLEAN]

\* An armed alarm is still ahead, and left tells how far.
Ahead(t) ==
    /\ ~t.missed
    /\ ~t.jumped => \A i \in t.armed : t.left[i] \in 1..(Word - 1) /\ t.left[i] = (t.alarm[i] - T!Low(t)) % Word

\* The alarms whose pending bit the unit set, and the core's side may have turned since
Left(t) == {i \in Alarms : i \in t.pend <=> i \notin t.touched}

\* They are those that have a cause.
Follows(t) == T!Cause(t) = Left(t)

TimerType == {t \in TimerShape : Ahead(t) /\ Follows(t)}

\* The counter has two words.
LEMMA Words ==
    /\ Word \in Nat /\ Word > 1 /\ Word * Word \in Nat /\ Word * Word > Word
    /\ 0 \in Digits /\ 0 \in Counts
<1>1. Word \in Nat /\ Word > 1
  BY WordAssumption
<1>2. Word * Word \in Nat /\ Word * Word > Word
  BY <1>1
<1>. QED
  BY <1>1, <1>2 DEF Digits, Counts

\* Its value is put together from them.
LEMMA LowAndHigh ==
    ASSUME NEW c \in Counts
    PROVE  c % Word \in Digits /\ c \div Word \in Digits /\ c = (c \div Word) * Word + (c % Word)
<1>1. Word \in Nat \ {0} /\ c \in Int /\ 0 <= c /\ c < Word * Word
  BY Words DEF Counts
<1>. DEFINE q == c \div Word
            r == c % Word
<1>2. q \in Int /\ r \in 0..(Word - 1) /\ c = q * Word + r
  BY <1>1, Quotient
<1>. HIDE DEF q, r
<1>3. q >= 0
  <2>1. ASSUME q <= -1 PROVE FALSE
    <3>1. q * Word <= -Word
      BY <1>1, <1>2, <2>1
    <3>. QED
      BY <1>1, <1>2, <3>1
  <2>. QED
    BY <1>2, <2>1
<1>4. q < Word
  <2>1. ASSUME q >= Word PROVE FALSE
    <3>1. q * Word >= Word * Word
      BY <1>1, <1>2, <2>1
    <3>. QED
      BY <1>1, <1>2, <3>1
  <2>. QED
    BY <1>1, <1>2, <2>1
<1>. QED
  BY <1>1, <1>2, <1>3, <1>4 DEF Digits, q, r

\* The low word of the next count is the next low word.
LEMMA NextLow ==
    ASSUME NEW c \in Counts
    PROVE  /\ (c + 1) % (Word * Word) \in Counts
           /\ ((c + 1) % (Word * Word)) % Word = ((c % Word) + 1) % Word
<1>1. Word \in Nat \ {0} /\ Word > 1 /\ c \in Int /\ 0 <= c /\ c < Word * Word /\ Word * Word \in Nat \ {0}
  BY Words DEF Counts
<1>. DEFINE q == c \div Word
            r == c % Word
<1>2. q \in Digits /\ r \in Digits /\ c = q * Word + r
  BY LowAndHigh
<1>. HIDE DEF q, r
<1>3. CASE c + 1 < Word * Word
  <2>1. (c + 1) % (Word * Word) = c + 1
    BY <1>1, <1>3
  <2>2. (c + 1) % Word = (r + 1) % Word
    <3>1. CASE r + 1 < Word
      <4>1. c + 1 = q * Word + (r + 1) /\ r + 1 \in 0..(Word - 1) /\ q \in Int
        BY <1>1, <1>2, <3>1 DEF Digits
      <4>2. (c + 1) % Word = r + 1
        BY <1>1, <4>1, Residue
      <4>3. (r + 1) % Word = r + 1
        BY <1>1, <4>1
      <4>. QED
        BY <4>2, <4>3
    <3>2. CASE r + 1 = Word
      <4>1. c + 1 = (q + 1) * Word + 0 /\ 0 \in 0..(Word - 1) /\ q + 1 \in Int
        BY <1>1, <1>2, <3>2 DEF Digits
      <4>2. (c + 1) % Word = 0
        BY <1>1, <4>1, Residue
      <4>3. (r + 1) % Word = 0
        BY <1>1, <3>2
      <4>. QED
        BY <4>2, <4>3
    <3>. QED
      BY <1>1, <1>2, <3>1, <3>2 DEF Digits
  <2>. QED
    BY <1>1, <1>3, <2>1, <2>2 DEF Counts, r
<1>4. CASE c + 1 = Word * Word
  <2>1. (c + 1) % (Word * Word) = 0
    BY <1>1, <1>4
  <2>2. r = Word - 1
    <3>1. c = (Word - 1) * Word + (Word - 1)
      BY <1>1, <1>4
    <3>2. c % Word = Word - 1
      <4>. DEFINE k == Word - 1
      <4>1. k \in Int /\ k \in 0..(Word - 1) /\ c = k * Word + k
        BY <1>1, <3>1
      <4>. HIDE DEF k
      <4>2. c % Word = k
        BY <1>1, <4>1, Residue
      <4>. QED
        BY <4>2 DEF k
    <3>. QED
      BY <3>2 DEF r
  <2>3. (r + 1) % Word = 0 /\ 0 % Word = 0
    BY <1>1, <2>2
  <2>. QED
    BY <1>1, <2>1, <2>3 DEF Counts, r
<1>. QED
  BY <1>1, <1>3, <1>4

\* No ticks are left to an alarm if and only if the low word is its own.
LEMMA DueNow ==
    ASSUME NEW a \in Digits, NEW l \in Digits
    PROVE  (a - l) % Word \in 0..(Word - 1) /\ ((a - l) % Word = 0 <=> a = l)
<1>1. Word \in Nat \ {0} /\ a \in 0..(Word - 1) /\ l \in 0..(Word - 1)
  BY Words DEF Digits
<1>2. CASE a >= l
  <2>1. (a - l) % Word = a - l
    BY <1>1, <1>2
  <2>. QED
    BY <1>1, <1>2, <2>1
<1>3. CASE a < l
  <2>1. a - l = (-1) * Word + (a - l + Word) /\ a - l + Word \in 0..(Word - 1)
    BY <1>1, <1>3
  <2>. DEFINE r == a - l + Word
  <2>2. ((-1) * Word + r) % Word = r
    BY <1>1, <2>1, Residue
  <2>3. (a - l) % Word = r
    BY <2>1, <2>2
  <2>. QED
    BY <1>1, <1>3, <2>1, <2>3
<1>. QED
  BY <1>1, <1>2, <1>3

\* left is how far ahead the armed alarms are, before those that are due fire.
Near(t) ==
    /\ ~t.missed
    /\ ~t.jumped => \A i \in t.armed : t.left[i] = (t.alarm[i] - T!Low(t)) % Word

\* What the reader sees of two timers is the same.
SameCount(t, u) ==
    u.counter = t.counter /\ u.latched = t.latched /\ u.staged = t.staged /\ u.period = t.period /\ u.acc = t.acc

\* refresh_irqs makes the lines follow the cause.
LEMMA RefreshKept ==
    ASSUME NEW t \in TimerShape, Ahead(t)
    PROVE  T!RefreshIrqs(t) \in TimerType /\ SameCount(t, T!RefreshIrqs(t))
<1>. DEFINE u == T!RefreshIrqs(t)
<1>1. T!Cause(t) \in SUBSET Alarms
  BY DEF T!Cause, TimerShape
<1>2. u = [t EXCEPT !.pend = T!Cause(t), !.touched = {}]
  BY DEF T!RefreshIrqs
<1>. DEFINE c == T!Cause(t)
<1>. HIDE DEF u, c
<1>3. u \in TimerShape
  BY <1>1, <1>2 DEF TimerShape, c
<1>4. /\ u.pend = c /\ u.touched = {} /\ u.intr = t.intr /\ u.intf = t.intf /\ u.inte = t.inte
      /\ u.missed = t.missed /\ u.jumped = t.jumped /\ u.armed = t.armed /\ u.left = t.left
      /\ u.alarm = t.alarm /\ u.counter = t.counter
  BY <1>2 DEF TimerShape, c
<1>5. SameCount(t, u)
  BY <1>2 DEF TimerShape, SameCount
<1>6. Ahead(u)
  BY <1>4 DEF Ahead, T!Low
<1>7. Follows(u)
  <2>1. T!Cause(u) = c /\ c \subseteq Alarms
    BY <1>1, <1>4 DEF T!Cause, c
  <2>. QED
    BY <1>4, <2>1 DEF Follows, Left
<1>. QED
  BY <1>3, <1>5, <1>6, <1>7 DEF TimerType, u

\* fire_due_alarms finds an alarm due when no ticks are left to it, and no other.
LEMMA FireKept ==
    ASSUME NEW t \in TimerShape, Near(t)
    PROVE  T!FireDueAlarms(t) \in TimerType /\ SameCount(t, T!FireDueAlarms(t))
<1>. DEFINE due == {i \in t.armed : t.alarm[i] = T!Low(t)}
            miss == t.missed \/ (~t.jumped /\ \E i \in due : t.left[i] # 0)
            u == [t EXCEPT !.armed = @ \ due, !.intr = @ \cup due, !.missed = miss]
<1>1. T!FireDueAlarms(t) = T!RefreshIrqs(u)
  BY DEF T!FireDueAlarms
<1>2. T!Low(t) \in Digits /\ t.armed \in SUBSET Alarms /\ t.alarm \in [Alarms -> Digits] /\ t.intr \in SUBSET Alarms
  BY LowAndHigh DEF T!Low, TimerShape
<1>3. ~t.jumped => \A i \in t.armed : t.left[i] \in 0..(Word - 1) /\ (t.left[i] = 0 <=> i \in due)
  BY <1>2, DueNow DEF Near
<1>4. miss = FALSE
  BY <1>3 DEF Near
<1>5. due \in SUBSET Alarms
  BY <1>2
<1>. HIDE DEF due, miss
<1>6. u \in TimerShape
  BY <1>2, <1>4, <1>5 DEF TimerShape
<1>7. /\ u.missed = FALSE /\ u.jumped = t.jumped /\ u.armed = t.armed \ due /\ u.left = t.left
      /\ u.alarm = t.alarm /\ u.counter = t.counter /\ SameCount(t, u)
  BY <1>4 DEF TimerShape, SameCount
<1>. HIDE DEF u
<1>8. Ahead(u)
  <2>1. ASSUME ~u.jumped, NEW i \in u.armed
        PROVE  u.left[i] \in 1..(Word - 1) /\ u.left[i] = (u.alarm[i] - T!Low(u)) % Word
    <3>1. i \in t.armed /\ i \notin due /\ ~t.jumped /\ T!Low(u) = T!Low(t)
      BY <1>7, <2>1 DEF T!Low
    <3>2. t.left[i] \in 1..(Word - 1)
      BY <1>3, <3>1, Words
    <3>3. t.left[i] = (t.alarm[i] - T!Low(t)) % Word
      BY <3>1 DEF Near
    <3>. QED
      BY <1>7, <3>1, <3>2, <3>3
  <2>. QED
    BY <1>7, <2>1 DEF Ahead
<1>9. T!RefreshIrqs(u) \in TimerType /\ SameCount(u, T!RefreshIrqs(u))
  BY <1>6, <1>8, RefreshKept
<1>. QED
  BY <1>1, <1>7, <1>9 DEF SameCount

\* A tick brings an alarm one tick nearer.
LEMMA OneNearer ==
    ASSUME NEW a \in Digits, NEW l \in Digits, (a - l) % Word \in 1..(Word - 1)
    PROVE  ((a - l) % Word) - 1 = (a - ((l + 1) % Word)) % Word
<1>. DEFINE r == (a - l) % Word
            q == (a - l) \div Word
            m == (l + 1) % Word
<1>1. Word \in Nat \ {0} /\ a \in Int /\ l \in 0..(Word - 1) /\ a - l \in Int
  BY Words DEF Digits
<1>2. a - l = q * Word + r /\ q \in Int /\ r \in 1..(Word - 1)
  <2>. DEFINE v == a - l
  <2>1. v \in Int
    BY <1>1
  <2>. HIDE DEF v
  <2>2. v = (v \div Word) * Word + (v % Word) /\ v \div Word \in Int
    BY <1>1, <2>1, Quotient
  <2>. QED
    BY <2>2 DEF v
<1>3. PICK k \in {0, 1} : m = l + 1 - k * Word
  <2>1. CASE l + 1 < Word
    <3>1. m = l + 1
      BY <1>1, <2>1
    <3>. QED
      BY <1>1, <3>1
  <2>2. CASE l + 1 = Word
    <3>1. m = 0
      BY <1>1, <2>2
    <3>. QED
      BY <1>1, <2>2, <3>1
  <2>. QED
    BY <1>1, <2>1, <2>2
<1>. HIDE DEF r, q, m
<1>4. a - m = (q + k) * Word + (r - 1) /\ q + k \in Int /\ r - 1 \in 0..(Word - 1)
  <2>1. (q + k) * Word = q * Word + k * Word /\ q * Word \in Int /\ k * Word \in Int
    BY <1>1, <1>2
  <2>. QED
    BY <1>1, <1>2, <1>3, <2>1
<1>5. ((q + k) * Word + (r - 1)) % Word = r - 1
  <2>. DEFINE x == q + k
              y == r - 1
  <2>1. x \in Int /\ y \in 0..(Word - 1)
    BY <1>4
  <2>. HIDE DEF x, y
  <2>2. (x * Word + y) % Word = y
    BY <1>1, <2>1, Residue
  <2>. QED
    BY <2>2 DEF x, y
<1>. QED
  BY <1>4, <1>5 DEF r, m

\* A tick of the timer keeps the invariant and counts one.
LEMMA TickKept ==
    ASSUME NEW t \in TimerType
    PROVE  LET u == T!Tick(t)
           IN  /\ u \in TimerType
               /\ u.latched = t.latched /\ u.staged = t.staged /\ u.period = t.period /\ u.acc = t.acc
               /\ u.counter = (t.counter + 1) % (Word * Word)
<1>. DEFINE c == (t.counter + 1) % (Word * Word)
            l == [i \in Alarms |-> IF i \in t.armed THEN t.left[i] - 1 ELSE 0]
            s == [t EXCEPT !.counter = c, !.left = l]
<1>1. T!Tick(t) = T!FireDueAlarms(s)
  BY DEF T!Tick
<1>2. t \in TimerShape /\ Ahead(t) /\ t.counter \in Counts /\ t.armed \in SUBSET Alarms /\ t.alarm \in [Alarms -> Digits]
        /\ t.left \in [Alarms -> Int]
  BY DEF TimerType, TimerShape
<1>3. c \in Counts /\ c % Word = (T!Low(t) + 1) % Word
  BY <1>2, NextLow DEF T!Low
<1>4. l \in [Alarms -> Int] /\ \A i \in t.armed : l[i] = t.left[i] - 1
  BY <1>2
<1>. HIDE DEF c, l
<1>5. s \in TimerShape
  BY <1>2, <1>3, <1>4 DEF TimerShape
<1>6. /\ s.missed = t.missed /\ s.jumped = t.jumped /\ s.armed = t.armed /\ s.alarm = t.alarm /\ s.left = l /\ s.counter = c
      /\ s.latched = t.latched /\ s.staged = t.staged /\ s.period = t.period /\ s.acc = t.acc
  BY <1>2 DEF TimerShape
<1>. HIDE DEF s
<1>7. Near(s)
  <2>1. ASSUME ~s.jumped, NEW i \in s.armed
        PROVE  s.left[i] = (s.alarm[i] - T!Low(s)) % Word
    <3>1. /\ i \in t.armed /\ i \in Alarms /\ t.left[i] \in 1..(Word - 1)
          /\ t.left[i] = (t.alarm[i] - T!Low(t)) % Word /\ s.left[i] = t.left[i] - 1
      BY <1>2, <1>4, <1>6, <2>1 DEF Ahead
    <3>2. T!Low(t) \in Digits /\ t.alarm[i] \in Digits /\ T!Low(s) = (T!Low(t) + 1) % Word
      BY <1>2, <1>3, <1>6, <3>1, LowAndHigh DEF T!Low
    <3>. QED
      BY <1>6, <3>1, <3>2, OneNearer
  <2>. QED
    BY <1>2, <1>6, <2>1 DEF Near, Ahead
<1>8. T!FireDueAlarms(s) \in TimerType /\ SameCount(s, T!FireDueAlarms(s))
  BY <1>5, <1>7, FireKept
<1>. QED
  BY <1>1, <1>6, <1>8 DEF SameCount, c

\* Ticks one after the other keep what a tick keeps.
LEMMA TicksKeep ==
    ASSUME NEW t \in TimerType, NEW N \in Nat, NEW n \in 0..N
    PROVE  LET after[k \in 0..N] == IF k = 0 THEN t ELSE T!Tick(after[k - 1])
           IN  after[n] \in TimerType /\ after[n].latched = t.latched /\ after[n].period = t.period
<1>. DEFINE X == {u \in TimerType : u.latched = t.latched /\ u.period = t.period}
            after[k \in 0..N] == IF k = 0 THEN t ELSE T!Tick(after[k - 1])
            Is(f) == f = [k \in 0..N |-> IF k = 0 THEN t ELSE T!Tick(f[k - 1])]
            F == [k \in 1..N |-> [u \in X |-> T!Tick(u)]]
<1>1. t \in X /\ \A u \in X : T!Tick(u) \in X
  BY TickKept
<1>2. F \in [1..N -> [X -> X]]
  BY <1>1
<1>. HIDE DEF X
<1>3. PICK g \in [0..N -> X] : Steps(g, t, F, N)
  <2>. HIDE DEF F
  <2>. QED
    BY <1>1, <1>2, Recursion
<1>4. Is(g)
  <2>1. ASSUME NEW k \in 0..N PROVE g[k] = IF k = 0 THEN t ELSE T!Tick(g[k - 1])
    <3>1. CASE k = 0
      BY <1>3, <3>1 DEF Steps
    <3>2. CASE k \in 1..N
      <4>1. g[k - 1] \in X
        BY <3>2
      <4>. QED
        BY <1>3, <3>2, <4>1 DEF Steps
    <3>. QED
      BY <2>1, <3>1, <3>2
  <2>. QED
    BY <2>1
<1>5. Is(after)
  <2>1. after = CHOOSE f : Is(f)
    OBVIOUS
  <2>. HIDE DEF after, Is
  <2>. QED
    BY <1>4, <2>1
<1>. HIDE DEF after
<1>6. \A k \in 0..N : after[k] \in X
  <2>. DEFINE M == {k \in Nat : k <= N => after[k] \in X}
  <2>1. 0 \in M
    BY <1>1, <1>5
  <2>2. ASSUME NEW k \in M PROVE k + 1 \in M
    <3>1. SUFFICES ASSUME k + 1 <= N PROVE after[k + 1] \in X
      OBVIOUS
    <3>2. after[k + 1] = T!Tick(after[k])
      <4>1. k + 1 \in 0..N /\ k + 1 # 0 /\ (k + 1) - 1 = k
        BY <3>1
      <4>. QED
        BY <1>5, <4>1
    <3>3. after[k] \in X
      BY <3>1
    <3>. QED
      BY <1>1, <3>2, <3>3
  <2>3. M = Nat
    <3>1. M \in SUBSET Nat
      OBVIOUS
    <3>. HIDE DEF M
    <3>. QED
      BY <2>1, <2>2, <3>1, Induction
  <2>. QED
    BY <2>3
<1>. QED
  BY <1>6 DEF after, X

-----------------------------------------------------------------------------
(* The reader of the timer *)

ReaderFields == {"at", "from", "high", "low", "torn", "wrong", "writes", "reads"}

Now(from, k) == (from + k) % (Word * Word)

\* How long the reader of t has been at it
Since(t, r) == (t.counter - r.from) % (Word * Word)

\* What the reader has read was there at times that followed each other.
Read(t, r) ==
    /\ r.from \in Counts
    /\ r.at # "idle" /\ ~r.torn => Since(t, r) <= (Word - 1) * Word
    /\ r.at = "latched" /\ ~r.torn => t.latched * Word + r.low = r.from
    /\ r.at = "high" /\ ~r.torn =>
            \E b \in 0..Since(t, r) : r.high = Now(r.from, b) \div Word
    /\ r.at = "low" /\ ~r.torn =>
            \E b, c \in 0..Since(t, r) :
                b <= c /\ r.high = Now(r.from, b) \div Word /\ r.low = Now(r.from, c) % Word

ReaderType(r) ==
    /\ ReaderFields \subseteq DOMAIN r
    /\ r.at \in {"idle", "latched", "high", "low"} /\ r.torn \in BOOLEAN
    /\ r.from \in Counts /\ r.high \in Digits /\ r.low \in Digits

TimerInv(t, r) == t \in TimerType /\ ReaderType(r) /\ ~r.wrong /\ Read(t, r)

\* A reader that has read nothing has read nothing wrong.
LEMMA IdleRead ==
    ASSUME NEW t \in TimerType, NEW b
    PROVE  TimerInv(t, T!Idle(b))
BY Words DEF T!Idle, TimerInv, Read, ReaderType, ReaderFields

\* The two words that the raw reader has were a time since it began.
LEMMA RawRead ==
    ASSUME NEW from \in Counts, NEW w \in 0..((Word - 1) * Word), NEW b \in 0..w, NEW c \in b..w,
           NEW high, NEW low, high = Now(from, b) \div Word, low = Now(from, c) % Word,
           Now(from, w) \div Word = high
    PROVE  (high * Word + low - from) % (Word * Word) = c
<1>. DEFINE W2 == Word * Word
<1>1. Word \in Nat \ {0} /\ Word > 1 /\ W2 \in Nat \ {0} /\ W2 > Word /\ from \in Int
        /\ w \in Int /\ b \in Int /\ c \in Int /\ (Word - 1) * Word = W2 - Word
  BY Words DEF Counts
<1>2. 0 <= b /\ b <= c /\ c <= w /\ w <= W2 - Word
  BY <1>1
<1>3. ASSUME NEW k \in Int
      PROVE  /\ Now(from, k) \in Counts
             /\ from + k = ((from + k) \div W2) * W2 + Now(from, k)
             /\ (from + k) \div W2 \in Int
  <2>. DEFINE v == from + k
  <2>1. v \in Int
    BY <1>1
  <2>. HIDE DEF v, W2
  <2>2. v % W2 = v - (v \div W2) * W2 /\ v \div W2 \in Int /\ v % W2 \in 0..(W2 - 1)
    BY <1>1, <2>1, Quotient
  <2>3. v = (v \div W2) * W2 + (v % W2)
    <3>1. (v \div W2) * W2 \in Int
      BY <1>1, <2>2
    <3>. QED
      BY <1>1, <2>1, <2>2, <3>1
  <2>. QED
    BY <2>2, <2>3 DEF v, W2, Now, Counts
<1>. DEFINE q1 == (from + b) \div W2
            q2 == (from + w) \div W2
            q3 == (from + c) \div W2
            l1 == Now(from, b) % Word
            l2 == Now(from, w) % Word
            h3 == Now(from, c) \div Word
<1>4. /\ from + b = q1 * W2 + high * Word + l1 /\ from + w = q2 * W2 + high * Word + l2
      /\ from + c = q3 * W2 + h3 * Word + low
      /\ q1 \in Int /\ q2 \in Int /\ q3 \in Int
      /\ l1 \in 0..(Word - 1) /\ l2 \in 0..(Word - 1) /\ low \in 0..(Word - 1)
      /\ high \in 0..(Word - 1) /\ h3 \in 0..(Word - 1)
  <2>. DEFINE nb == Now(from, b)
              nw == Now(from, w)
              nc == Now(from, c)
  <2>1. /\ from + b = q1 * W2 + nb /\ from + w = q2 * W2 + nw /\ from + c = q3 * W2 + nc
        /\ nb \in Counts /\ nw \in Counts /\ nc \in Counts /\ q1 \in Int /\ q2 \in Int /\ q3 \in Int
    BY <1>1, <1>3
  <2>2. nb = high * Word + l1 /\ nw = high * Word + l2 /\ nc = h3 * Word + low
    BY <2>1, LowAndHigh
  <2>3. /\ l1 \in 0..(Word - 1) /\ l2 \in 0..(Word - 1) /\ low \in 0..(Word - 1)
        /\ high \in 0..(Word - 1) /\ h3 \in 0..(Word - 1)
    BY <2>1, LowAndHigh DEF Digits
  <2>. HIDE DEF q1, q2, q3, l1, l2, h3, nb, nw, nc, W2
  <2>4. q1 * W2 \in Int /\ q2 * W2 \in Int /\ q3 * W2 \in Int /\ high * Word \in Int /\ h3 * Word \in Int
    BY <1>1, <2>1, <2>3
  <2>. QED
    BY <1>1, <2>1, <2>2, <2>3, <2>4
<1>. HIDE DEF q1, q2, q3, l1, l2, h3
\* From b to w the count does not come round: the high word would not be the same yet.
<1>5. q1 = q2
  <2>. DEFINE d == q2 - q1
  <2>1. d \in Int /\ q2 * W2 = q1 * W2 + d * W2 /\ q1 * W2 \in Int /\ d * W2 \in Int /\ high * Word \in Int
    BY <1>1, <1>4
  <2>. HIDE DEF d, W2
  <2>2. w - b = d * W2 + l2 - l1
    BY <1>1, <1>4, <2>1
  <2>3. CASE d >= 1
    <3>1. d * W2 >= W2
      BY <1>1, <2>1, <2>3
    <3>. QED
      BY <1>1, <1>2, <1>4, <2>1, <2>2, <3>1
  <2>4. CASE d <= -1
    <3>1. d * W2 <= -W2
      BY <1>1, <2>1, <2>4
    <3>. QED
      BY <1>1, <1>2, <1>4, <2>1, <2>2, <3>1
  <2>. QED
    BY <1>4, <2>1, <2>3, <2>4 DEF d
<1>6. q3 = q1 /\ h3 = high
  <2>. DEFINE e == q3 - q1
              x == h3 - high
              y == e * Word + x
  <2>1. e \in Int /\ x \in Int /\ y \in Int /\ y * Word \in Int
    BY <1>1, <1>4
  <2>2. q3 * W2 + h3 * Word = q1 * W2 + high * Word + y * Word
    BY <1>1, <1>4
  <2>3. q1 * W2 \in Int /\ q3 * W2 \in Int /\ high * Word \in Int /\ h3 * Word \in Int
    BY <1>1, <1>4
  <2>. HIDE DEF e, x, y, W2
  <2>4. c - b = y * Word + low - l1 /\ w - c = l2 - low - y * Word
    BY <1>1, <1>4, <1>5, <2>1, <2>2, <2>3
  <2>5. y = 0
    <3>1. CASE y >= 1
      <4>1. y * Word >= Word
        BY <1>1, <2>1, <3>1
      <4>. QED
        BY <1>1, <1>2, <1>4, <2>1, <2>4, <4>1
    <3>2. CASE y <= -1
      <4>1. y * Word <= -Word
        BY <1>1, <2>1, <3>2
      <4>. QED
        BY <1>1, <1>2, <1>4, <2>1, <2>4, <4>1
    <3>. QED
      BY <2>1, <3>1, <3>2
  <2>6. e = 0
    <3>1. e * Word = -x /\ x < Word /\ x > -Word
      <4>1. e * Word \in Int
        BY <1>1, <2>1
      <4>. QED
        BY <1>1, <1>4, <2>1, <2>5, <4>1 DEF x, y
    <3>2. CASE e >= 1
      <4>1. e * Word >= Word
        BY <1>1, <2>1, <3>2
      <4>. QED
        BY <1>1, <2>1, <3>1, <4>1
    <3>3. CASE e <= -1
      <4>1. e * Word <= -Word
        BY <1>1, <2>1, <3>3
      <4>. QED
        BY <1>1, <2>1, <3>1, <4>1
    <3>. QED
      BY <2>1, <3>2, <3>3
  <2>. QED
    <3>1. x = 0
      BY <1>1, <2>1, <2>5, <2>6 DEF y
    <3>. QED
      BY <1>4, <2>6, <3>1 DEF e, x
<1>7. high * Word + low - from = (-q3) * W2 + c /\ -q3 \in Int /\ c \in 0..(W2 - 1)
  <2>1. (-q3) * W2 = -(q3 * W2) /\ q3 * W2 \in Int /\ high * Word \in Int /\ -q3 \in Int
    BY <1>1, <1>4
  <2>. HIDE DEF W2
  <2>. QED
    <3>1. c \in 0..(W2 - 1)
      BY <1>1, <1>2
    <3>2. from + c = q3 * W2 + high * Word + low /\ low \in Int
      BY <1>4, <1>6
    <3>3. high * Word + low - from = -(q3 * W2) + c
      BY <1>1, <2>1, <3>2
    <3>. QED
      BY <2>1, <3>1, <3>3
<1>8. ((-q3) * W2 + c) % W2 = c
  <2>. DEFINE m == -q3
  <2>. HIDE DEF m, W2
  <2>1. m \in Int
    BY <1>7 DEF m
  <2>2. (m * W2 + c) % W2 = c
    BY <1>1, <1>7, <2>1, Residue
  <2>. QED
    BY <2>2 DEF m
<1>. QED
  BY <1>7, <1>8

-----------------------------------------------------------------------------
(* The steps of the timer *)

\* Where the count and the latch stay, the reader has read as much as before.
LEMMA StillRead ==
    ASSUME NEW t, NEW r, ReaderType(r), ~r.wrong, Read(t, r),
           NEW u \in TimerType, u.counter = t.counter, u.latched = t.latched,
           NEW w, \E n : w = [r EXCEPT !.writes = n]
    PROVE  TimerInv(u, w)
<1>1. /\ ReaderFields \subseteq DOMAIN w /\ w.at = r.at /\ w.from = r.from /\ w.high = r.high /\ w.low = r.low
      /\ w.torn = r.torn /\ w.wrong = r.wrong
  BY DEF ReaderType, ReaderFields
<1>2. Since(u, w) = Since(t, r)
  BY <1>1 DEF Since
<1>. QED
  BY <1>1, <1>2 DEF TimerInv, ReaderType, Read

\* A step that leaves the counter and its latch leaves what was read.
LEMMA SameReader ==
    ASSUME NEW t, NEW r, ReaderType(r), ~r.wrong, Read(t, r),
           NEW u \in TimerType, u.counter = t.counter, u.latched = t.latched
    PROVE  TimerInv(u, r)
BY DEF TimerInv, Read, Since

\* Waited is the time since the reader began.
LEMMA WaitedIsSince == \A t : T!Waited(t) = Since(t, past)
BY DEF T!Waited, Since

\* The counter is the time at which the reader began, so many ticks later.
LEMMA SinceTyped ==
    ASSUME NEW t \in TimerType, NEW r, r.from \in Counts
    PROVE  Since(t, r) \in 0..(Word * Word - 1) /\ Now(r.from, Since(t, r)) = t.counter
<1>1. Word * Word \in Nat \ {0} /\ t.counter \in 0..(Word * Word - 1) /\ r.from \in 0..(Word * Word - 1)
  BY Words DEF TimerType, TimerShape, Counts
<1>. DEFINE W2 == Word * Word
            v == t.counter - r.from
<1>2. v \in Int /\ t.counter = r.from + v
  BY <1>1
<1>3. v % W2 \in 0..(W2 - 1) /\ v % W2 = v - (v \div W2) * W2 /\ v \div W2 \in Int
  <2>. HIDE DEF v, W2
  <2>. QED
    BY <1>1, <1>2, Quotient DEF W2
<1>4. (r.from + (v % W2)) % W2 = t.counter
  <2>. DEFINE k == -(v \div W2)
  <2>1. k \in Int /\ (v \div W2) * W2 = -(k * W2) /\ k * W2 \in Int
    BY <1>1, <1>3
  <2>2. r.from + (v % W2) = k * W2 + t.counter
    <3>. HIDE DEF k, v, W2
    <3>. QED
      BY <1>1, <1>2, <1>3, <2>1 DEF W2
  <2>. HIDE DEF k
  <2>3. (k * W2 + t.counter) % W2 = t.counter
    BY <1>1, <2>1, Residue
  <2>. QED
    BY <2>2, <2>3
<1>. QED
  BY <1>3, <1>4 DEF Since, Now

\* A clock makes as many ticks as the watchdog's tick generator asks for; no bound on them is needed.
LEMMA TimerClock ==
    ASSUME TimerInv(dev, past), T!Clock
    PROVE  TimerInv(dev', past')
<1>. DEFINE total == dev.acc + 1
            N == total \div dev.period
            after[n \in 0..total] == IF n = 0 THEN dev ELSE T!Tick(after[n - 1])
<1>1. dev' = [after[N] EXCEPT !.acc = total % dev.period] /\ past' = IF T!Patient(dev') THEN past ELSE T!Idle(past)
  BY DEF T!Clock
<1>2. dev \in TimerType /\ dev \in TimerShape /\ dev.acc \in Nat /\ dev.period \in Nat \ {0} /\ total \in Nat
  <2>1. dev \in TimerShape /\ dev \in TimerType
    BY DEF TimerInv, TimerType
  <2>2. dev.acc \in Nat /\ dev.period \in TickPeriods
    BY <2>1 DEF TimerShape
  <2>3. dev.period \in Nat \ {0}
    BY <2>2, PeriodsAssumption
  <2>4. total \in Nat
    BY <2>2
  <2>. HIDE DEF total
  <2>. QED
    BY <2>1, <2>2, <2>3, <2>4
<1>3. N \in 0..total /\ total % dev.period \in Nat
  <2>. HIDE DEF total
  <2>. QED
    BY <1>2, QuotientBelow
<1>4. after[N] \in TimerType /\ after[N].latched = dev.latched
  <2>. HIDE DEF total, N
  <2>. QED
    BY <1>2, <1>3, TicksKeep
<1>. DEFINE u == after[N]
            a == total % dev.period
<1>. HIDE DEF after, N, u, total, a
<1>5. dev' = [u EXCEPT !.acc = a] /\ u \in TimerType /\ a \in Nat /\ u.latched = dev.latched
  BY <1>1, <1>3, <1>4 DEF u, a
<1>6. dev' \in TimerType /\ dev'.latched = dev.latched
  <2>1. dev' \in TimerShape
    BY <1>5 DEF TimerType, TimerShape
  <2>2. /\ dev'.latched = dev.latched /\ dev'.counter = u.counter /\ dev'.missed = u.missed /\ dev'.jumped = u.jumped
        /\ dev'.armed = u.armed /\ dev'.left = u.left /\ dev'.alarm = u.alarm /\ dev'.pend = u.pend
        /\ dev'.touched = u.touched /\ dev'.intr = u.intr /\ dev'.intf = u.intf /\ dev'.inte = u.inte
    BY <1>5 DEF TimerType, TimerShape
  <2>. QED
    BY <1>5, <2>1, <2>2 DEF TimerType, Ahead, Follows, Left, T!Cause, T!Low
<1>7. CASE ~T!Patient(dev')
  BY <1>1, <1>6, <1>7, IdleRead
<1>8. CASE T!Patient(dev')
  <2>1. past' = past /\ (past.at = "idle" \/ Since(dev', past) \in Since(dev, past)..((Word - 1) * Word))
    BY <1>1, <1>8, WaitedIsSince DEF T!Patient
  <2>2. Since(dev', past) \in Int /\ Since(dev, past) \in Int /\ (Word - 1) * Word \in Int
    BY <1>2, <1>6, SinceTyped, Words DEF TimerInv, ReaderType
  <2>3. past.at # "idle" => Since(dev, past) <= Since(dev', past) /\ Since(dev', past) <= (Word - 1) * Word
    BY <2>1, <2>2
  <2>4. past.at # "idle" => 0..Since(dev, past) \subseteq 0..Since(dev', past)
    BY <2>2, <2>3
  <2>5. Read(dev', past)
    BY <1>6, <2>3, <2>4 DEF TimerInv, Read
  <2>. QED
    BY <1>6, <2>1, <2>5 DEF TimerInv
<1>. QED
  BY <1>7, <1>8

\* The registers of the alarms do not move the count.
LEMMA TimerRegisters ==
    ASSUME TimerInv(dev, past),
           \/ T!WriteHigh \/ T!WriteAlarm \/ T!WritePause \/ T!Disarm \/ T!WriteEnables \/ T!WriteForce
           \/ T!Acknowledge \/ T!EnterHandler \/ T!ResetCore \/ T!WriteNvic \/ T!SetPeriod
    PROVE  dev' \in TimerType /\ dev'.counter = dev.counter /\ dev'.latched = dev.latched
<1>1. dev \in TimerShape /\ Ahead(dev) /\ Follows(dev)
  BY DEF TimerInv, TimerType
<1>2. ASSUME NEW u \in TimerShape, Ahead(u), SameCount(dev, u), dev' = T!RefreshIrqs(u)
      PROVE  dev' \in TimerType /\ dev'.counter = dev.counter /\ dev'.latched = dev.latched
  BY <1>2, RefreshKept DEF SameCount
<1>3. CASE T!WriteHigh
  <2>1. PICK h \in Digits : dev' = [dev EXCEPT !.staged = h]
    BY <1>3 DEF T!WriteHigh, Digits
  <2>2. dev' \in TimerShape
    BY <1>1, <2>1 DEF TimerShape
  <2>3. Ahead(dev') /\ Follows(dev') /\ dev'.counter = dev.counter /\ dev'.latched = dev.latched
    BY <1>1, <2>1 DEF TimerShape, Ahead, Follows, Left, T!Cause, T!Low
  <2>. QED
    BY <2>2, <2>3 DEF TimerType
<1>4. CASE T!WriteAlarm
  <2>1. PICK i \in Alarms, v \in Digits :
            dev' = T!FireDueAlarms([dev EXCEPT !.alarm[i] = v, !.armed = @ \cup {i}, !.left[i] = (v - T!Low(dev)) % Word])
    BY <1>4 DEF T!WriteAlarm, Digits
  <2>. DEFINE l == (v - T!Low(dev)) % Word
              u == [dev EXCEPT !.alarm[i] = v, !.armed = @ \cup {i}, !.left[i] = l]
  <2>2. T!Low(dev) \in Digits
    BY <1>1, LowAndHigh DEF T!Low, TimerShape
  <2>3. l \in Int
    BY <2>2, DueNow
  <2>. HIDE DEF l
  <2>4. u \in TimerShape
    BY <1>1, <2>3 DEF TimerShape
  <2>5. /\ u.alarm = [dev.alarm EXCEPT ![i] = v] /\ u.armed = dev.armed \cup {i} /\ u.left = [dev.left EXCEPT ![i] = l]
        /\ u.missed = dev.missed /\ u.jumped = dev.jumped /\ u.counter = dev.counter /\ u.latched = dev.latched
    BY <1>1 DEF TimerShape
  <2>6. dev.alarm \in [Alarms -> Digits] /\ dev.left \in [Alarms -> Int] /\ dev.armed \subseteq Alarms
    BY <1>1 DEF TimerShape
  <2>. HIDE DEF u
  <2>7. Near(u)
    <3>1. ASSUME ~u.jumped, NEW j \in u.armed
          PROVE  u.left[j] = (u.alarm[j] - T!Low(u)) % Word
      <4>1. T!Low(u) = T!Low(dev)
        BY <2>5 DEF T!Low
      <4>2. CASE j = i
        BY <2>5, <2>6, <4>1, <4>2 DEF l
      <4>3. CASE j # i
        BY <1>1, <2>5, <2>6, <3>1, <4>1, <4>3 DEF Ahead
      <4>. QED
        BY <4>2, <4>3
    <3>. QED
      BY <1>1, <2>5, <3>1 DEF Near, Ahead
  <2>. QED
    BY <2>1, <2>4, <2>5, <2>7, FireKept DEF SameCount, u, l
<1>5. CASE T!WritePause
  <2>1. PICK p \in BOOLEAN : dev' = [dev EXCEPT !.paused = p]
    BY <1>5 DEF T!WritePause
  <2>2. dev' \in TimerShape
    BY <1>1, <2>1 DEF TimerShape
  <2>3. Ahead(dev') /\ Follows(dev') /\ dev'.counter = dev.counter /\ dev'.latched = dev.latched
    BY <1>1, <2>1 DEF TimerShape, Ahead, Follows, Left, T!Cause, T!Low
  <2>. QED
    BY <2>2, <2>3 DEF TimerType
<1>6. CASE T!Disarm
  <2>1. PICK i \in Alarms : dev' = T!RefreshIrqs([dev EXCEPT !.armed = @ \ {i}])
    BY <1>6 DEF T!Disarm
  <2>. DEFINE u == [dev EXCEPT !.armed = @ \ {i}]
  <2>2. u \in TimerShape
    BY <1>1 DEF TimerShape
  <2>3. Ahead(u) /\ SameCount(dev, u)
    BY <1>1 DEF TimerShape, Ahead, T!Low, SameCount
  <2>. QED
    BY <1>2, <2>1, <2>2, <2>3
<1>7. CASE T!WriteEnables
  <2>1. PICK e \in SUBSET Alarms : dev' = T!RefreshIrqs([dev EXCEPT !.inte = e])
    <3>1. PICK alias \in {"set", "clear", "xor"}, bits \in {{i} : i \in Alarms} :
                dev' = T!RefreshIrqs([dev EXCEPT !.inte = T!Combined(alias, @, bits)])
      BY <1>7 DEF T!WriteEnables
    <3>2. bits \in SUBSET Alarms /\ dev.inte \in SUBSET Alarms
      BY <1>1 DEF TimerShape
    <3>3. T!Combined(alias, dev.inte, bits) \in SUBSET Alarms
      BY <3>2 DEF T!Combined
    <3>. QED
      BY <3>1, <3>3
  <2>. DEFINE u == [dev EXCEPT !.inte = e]
  <2>2. u \in TimerShape
    BY <1>1 DEF TimerShape
  <2>3. Ahead(u) /\ SameCount(dev, u)
    BY <1>1 DEF TimerShape, Ahead, T!Low, SameCount
  <2>. QED
    BY <1>2, <2>1, <2>2, <2>3
<1>8. CASE T!WriteForce
  <2>1. PICK e \in SUBSET Alarms : dev' = T!RefreshIrqs([dev EXCEPT !.intf = e])
    <3>1. PICK alias \in {"set", "clear", "xor"}, bits \in {{i} : i \in Alarms} :
                dev' = T!RefreshIrqs([dev EXCEPT !.intf = T!Combined(alias, @, bits)])
      BY <1>8 DEF T!WriteForce
    <3>2. bits \in SUBSET Alarms /\ dev.intf \in SUBSET Alarms
      BY <1>1 DEF TimerShape
    <3>3. T!Combined(alias, dev.intf, bits) \in SUBSET Alarms
      BY <3>2 DEF T!Combined
    <3>. QED
      BY <3>1, <3>3
  <2>. DEFINE u == [dev EXCEPT !.intf = e]
  <2>2. u \in TimerShape
    BY <1>1 DEF TimerShape
  <2>3. Ahead(u) /\ SameCount(dev, u)
    BY <1>1 DEF TimerShape, Ahead, T!Low, SameCount
  <2>. QED
    BY <1>2, <2>1, <2>2, <2>3
<1>9. CASE T!Acknowledge
  <2>1. PICK i \in dev.intr : dev' = T!RefreshIrqs([dev EXCEPT !.intr = @ \ {i}])
    BY <1>9 DEF T!Acknowledge
  <2>. DEFINE u == [dev EXCEPT !.intr = @ \ {i}]
  <2>2. u \in TimerShape
    BY <1>1 DEF TimerShape
  <2>3. Ahead(u) /\ SameCount(dev, u)
    BY <1>1 DEF TimerShape, Ahead, T!Low, SameCount
  <2>. QED
    BY <1>2, <2>1, <2>2, <2>3
<1>10. CASE T!EnterHandler \/ T!ResetCore \/ T!WriteNvic
  <2>0. dev.pend \in SUBSET Alarms /\ dev.touched \in SUBSET Alarms
    BY <1>1 DEF TimerShape
  <2>1. PICK bits \in SUBSET Alarms :
            dev' = [dev EXCEPT !.pend = T!Combined("xor", @, bits), !.touched = T!Combined("xor", @, bits)]
    <3>1. CASE T!EnterHandler
      <4>1. PICK i \in dev.pend : dev' = [dev EXCEPT !.pend = @ \ {i}, !.touched = T!Combined("xor", @, {i})]
        BY <3>1 DEF T!EnterHandler
      <4>2. dev.pend \ {i} = T!Combined("xor", dev.pend, {i}) /\ {i} \in SUBSET Alarms
        BY <2>0 DEF T!Combined
      <4>. QED
        BY <4>1, <4>2
    <3>2. CASE T!ResetCore
      <4>1. {} = T!Combined("xor", dev.pend, dev.pend)
        BY DEF T!Combined
      <4>. QED
        BY <2>0, <3>2, <4>1 DEF T!ResetCore
    <3>3. CASE T!WriteNvic
      BY <3>3 DEF T!WriteNvic
    <3>. QED
      BY <1>10, <3>1, <3>2, <3>3
  <2>. DEFINE p == T!Combined("xor", dev.pend, bits)
              q == T!Combined("xor", dev.touched, bits)
  <2>2. p \in SUBSET Alarms /\ q \in SUBSET Alarms /\ \A i \in Alarms : (i \in p <=> i \notin q) <=> (i \in dev.pend <=> i \notin dev.touched)
    BY <2>0 DEF T!Combined
  <2>. HIDE DEF p, q
  <2>3. dev' = [dev EXCEPT !.pend = p, !.touched = q]
    BY <2>1 DEF p, q
  <2>4. dev' \in TimerShape
    BY <1>1, <2>2, <2>3 DEF TimerShape
  <2>5. /\ dev'.pend = p /\ dev'.touched = q /\ dev'.intr = dev.intr /\ dev'.intf = dev.intf
        /\ dev'.inte = dev.inte /\ dev'.missed = dev.missed /\ dev'.jumped = dev.jumped /\ dev'.armed = dev.armed
        /\ dev'.left = dev.left /\ dev'.alarm = dev.alarm /\ dev'.counter = dev.counter /\ dev'.latched = dev.latched
    BY <1>1, <2>3 DEF TimerShape
  <2>6. Ahead(dev')
    BY <1>1, <2>5 DEF Ahead, T!Low
  <2>7. Follows(dev')
    <3>1. T!Cause(dev') = T!Cause(dev)
      BY <2>5 DEF T!Cause
    <3>2. Left(dev') = Left(dev)
      BY <2>2, <2>5 DEF Left
    <3>. QED
      BY <1>1, <3>1, <3>2 DEF Follows
  <2>. QED
    BY <2>4, <2>5, <2>6, <2>7 DEF TimerType
<1>11. CASE T!SetPeriod
  <2>1. PICK p \in TickPeriods : dev' = [dev EXCEPT !.period = p]
    BY <1>11 DEF T!SetPeriod
  <2>2. dev' \in TimerShape
    BY <1>1, <2>1 DEF TimerShape
  <2>3. Ahead(dev') /\ Follows(dev') /\ dev'.counter = dev.counter /\ dev'.latched = dev.latched
    BY <1>1, <2>1 DEF TimerShape, Ahead, Follows, Left, T!Cause, T!Low
  <2>. QED
    BY <2>2, <2>3 DEF TimerType
<1>. QED
  BY <1>3, <1>4, <1>5, <1>6, <1>7, <1>8, <1>9, <1>10, <1>11

\* A reset disarms the alarms.
LEMMA ClearedTimer ==
    ASSUME NEW p \in TickPeriods
    PROVE  T!Cleared(p) \in TimerShape /\ Ahead(T!Cleared(p)) /\ Follows(T!Cleared(p))
BY Words DEF T!Cleared, TimerShape, Ahead, Follows, Left, T!Cause

\* What the reader does, besides reading, only counts its writes.
LEMMA TimerWrites ==
    ASSUME \/ T!WriteHigh \/ T!WriteAlarm \/ T!WritePause \/ T!Disarm \/ T!WriteEnables \/ T!WriteForce
           \/ T!Acknowledge \/ T!EnterHandler \/ T!ResetCore \/ T!WriteNvic \/ T!SetPeriod
    PROVE  past' = past \/ past' = [past EXCEPT !.writes = @ - 1]
BY DEF T!WriteHigh, T!WriteAlarm, T!WritePause, T!Disarm, T!WriteEnables, T!WriteForce, T!Acknowledge,
       T!EnterHandler, T!ResetCore, T!WriteNvic, T!SetPeriod, T!Written

\* The latch taken over or the time set, what is read is nobody's time.
LEMMA TornRead ==
    ASSUME NEW t \in TimerType, NEW r, ReaderType(r), ~r.wrong, r.torn
    PROVE  TimerInv(t, r)
BY DEF TimerInv, Read, ReaderType

\* A write of the time tears what is being read of it.
LEMMA TimerSet ==
    ASSUME TimerInv(dev, past), T!WriteLow
    PROVE  TimerInv(dev', past')
<1>1. dev \in TimerShape /\ Ahead(dev) /\ Follows(dev) /\ ReaderType(past) /\ ~past.wrong
  BY DEF TimerInv, TimerType
<1>2. PICK l \in Digits :
          /\ past' = [past EXCEPT !.writes = @ - 1, !.torn = TRUE]
          /\ dev' = [dev EXCEPT !.counter = dev.staged * Word + l, !.jumped = TRUE]
  BY DEF T!WriteLow, Digits
<1>. DEFINE c == dev.staged * Word + l
<1>3. c \in Counts
  <2>1. Word \in Nat /\ Word > 1 /\ dev.staged \in 0..(Word - 1) /\ l \in 0..(Word - 1)
    BY <1>1, Words DEF TimerShape, Digits
  <2>2. dev.staged * Word \in Nat /\ dev.staged * Word <= (Word - 1) * Word /\ (Word - 1) * Word = Word * Word - Word
    BY <2>1
  <2>3. Word * Word \in Nat
    BY <2>1
  <2>. QED
    BY <2>1, <2>2, <2>3 DEF Counts
<1>. HIDE DEF c
<1>4. dev' = [dev EXCEPT !.counter = c, !.jumped = TRUE]
  BY <1>2 DEF c
<1>5. dev' \in TimerShape
  BY <1>1, <1>3, <1>4 DEF TimerShape
<1>6. /\ dev'.jumped /\ dev'.missed = dev.missed /\ dev'.pend = dev.pend /\ dev'.touched = dev.touched
      /\ dev'.intr = dev.intr /\ dev'.intf = dev.intf /\ dev'.inte = dev.inte
  BY <1>1, <1>4 DEF TimerShape
<1>7. dev' \in TimerType
  BY <1>1, <1>5, <1>6 DEF TimerType, Ahead, Follows, Left, T!Cause
<1>8. ReaderType(past') /\ ~past'.wrong /\ past'.torn
  BY <1>1, <1>2 DEF ReaderType, ReaderFields
<1>. QED
  BY <1>7, <1>8, TornRead

\* A timer that is reset has nothing armed and nobody reading.
LEMMA TimerReset ==
    ASSUME TimerInv(dev, past), T!Reset
    PROVE  TimerInv(dev', past')
<1>1. dev.period \in TickPeriods
  BY DEF TimerInv, TimerType, TimerShape
<1>2. T!Cleared(dev.period) \in TimerShape /\ Ahead(T!Cleared(dev.period))
  BY <1>1, ClearedTimer
<1>. QED
  BY <1>2, RefreshKept, IdleRead DEF T!Reset

\* A reading that begins has what it read from the time it began at.
LEMMA BeginsRead ==
    ASSUME NEW t \in TimerType, NEW r, ReaderType(r), ~r.wrong, r.from = t.counter,
           \/ r.at = "latched" /\ t.latched = T!High(t) /\ r.low = T!Low(t)
           \/ r.at = "high" /\ r.high = T!High(t)
    PROVE  TimerInv(t, r)
<1>1. t.counter \in Counts
  BY DEF TimerType, TimerShape
<1>2. Since(t, r) = 0
  <2>1. t.counter \in Int /\ t.counter - t.counter = 0 /\ 0 % (Word * Word) = 0
    BY <1>1, Words DEF Counts
  <2>. QED
    BY <2>1 DEF Since
<1>3. Now(r.from, 0) = t.counter
  BY <1>1, <1>2, SinceTyped
<1>4. t.latched = T!High(t) /\ r.low = T!Low(t) => t.latched * Word + r.low = r.from
  BY <1>1, LowAndHigh DEF T!Low, T!High
<1>5. (Word - 1) * Word \in Nat /\ 0 \in 0..0
  BY Words
<1>6. r.at = "high" => \E b \in 0..Since(t, r) : r.high = Now(r.from, b) \div Word
  <2>1. r.at = "high" => r.high = Now(r.from, 0) \div Word
    BY <1>3 DEF T!High
  <2>. QED
    BY <1>2, <1>5, <2>1
<1>7. Read(t, r)
  BY <1>1, <1>2, <1>4, <1>5, <1>6 DEF Read
<1>. QED
  BY <1>7 DEF TimerInv

\* What the reader gets from the two words of a time since it began is right.
LEMMA GetsRead ==
    ASSUME TimerInv(dev, past), NEW high, NEW low,
           ~past.torn => (high * Word + low - past.from) % (Word * Word) \in 0..Since(dev, past),
           past' = T!Gets(high, low), dev' = dev
    PROVE  TimerInv(dev', past')
<1>1. Since(dev, past) \in Nat
  BY SinceTyped, Words DEF TimerInv, ReaderType
<1>. DEFINE got == (high * Word + low - past.from) % (Word * Word)
<1>. HIDE DEF got
<1>2. ~past.torn => got \in Int /\ got <= Since(dev, past)
  BY <1>1 DEF got
<1>3. ~(past.wrong \/ (~past.torn /\ got > Since(dev, past)))
  BY <1>1, <1>2 DEF TimerInv
<1>4. /\ ReaderFields \subseteq DOMAIN past' /\ past'.at = "idle" /\ past'.from = 0 /\ past'.high = 0 /\ past'.low = 0
      /\ past'.torn = FALSE /\ past'.wrong = (past.wrong \/ (~past.torn /\ got > Since(dev, past)))
  BY DEF T!Gets, TimerInv, ReaderType, ReaderFields, Since, got
<1>. QED
  BY <1>3, <1>4, Words DEF TimerInv, ReaderType, Read

\* Every access of either reader keeps what it has read true.
LEMMA TimerReads ==
    ASSUME TimerInv(dev, past), T!ReadLow \/ T!ReadHigh \/ T!Relatch \/ T!ReadRaw
    PROVE  TimerInv(dev', past')
<1>1. /\ dev \in TimerShape /\ dev \in TimerType /\ Ahead(dev) /\ Follows(dev) /\ ReaderType(past) /\ ~past.wrong
      /\ Read(dev, past)
  BY DEF TimerInv, TimerType
<1>2. dev.counter \in Counts /\ T!High(dev) \in Digits /\ T!Low(dev) \in Digits
  BY <1>1, LowAndHigh DEF T!Low, T!High, TimerShape
<1>3. [dev EXCEPT !.latched = T!High(dev)] \in TimerType
  <2>. DEFINE u == [dev EXCEPT !.latched = T!High(dev)]
  <2>1. u \in TimerShape
    BY <1>1, <1>2 DEF TimerShape
  <2>2. Ahead(u) /\ Follows(u)
    BY <1>1 DEF TimerShape, Ahead, Follows, Left, T!Cause, T!Low
  <2>. QED
    BY <2>1, <2>2 DEF TimerType
<1>4. Since(dev, past) \in 0..(Word * Word - 1) /\ Now(past.from, Since(dev, past)) = dev.counter
  BY <1>1, SinceTyped DEF ReaderType
<1>5. 0 <= Since(dev, past) /\ Since(dev, past) \in Int /\ Since(dev, past) \in 0..Since(dev, past)
  BY <1>4, Words
<1>6. CASE T!ReadLow
  <2>1. /\ dev' = [dev EXCEPT !.latched = T!High(dev)] /\ dev' \in TimerType
        /\ past' = [T!Goes("latched") EXCEPT !.low = T!Low(dev)]
    BY <1>3, <1>6 DEF T!ReadLow
  <2>2. dev'.counter = dev.counter /\ dev'.latched = T!High(dev)
    BY <1>1, <2>1 DEF TimerShape
  <2>3. /\ ReaderFields \subseteq DOMAIN past' /\ past'.at = "latched" /\ past'.from = dev.counter /\ past'.torn = FALSE
        /\ past'.low = T!Low(dev) /\ past'.high = past.high /\ past'.wrong = past.wrong
    BY <1>1, <2>1 DEF T!Goes, ReaderType, ReaderFields
  <2>4. ReaderType(past')
    BY <1>1, <1>2, <2>3 DEF ReaderType
  <2>. QED
    BY <1>1, <2>1, <2>2, <2>3, <2>4, BeginsRead DEF T!High, T!Low
<1>7. CASE T!ReadHigh
  <2>1. past.at = "latched" /\ past' = T!Gets(dev.latched, past.low) /\ dev' = dev
    BY <1>7 DEF T!ReadHigh
  <2>2. ASSUME ~past.torn
        PROVE  (dev.latched * Word + past.low - past.from) % (Word * Word) \in 0..Since(dev, past)
    <3>1. dev.latched * Word + past.low = past.from /\ past.from \in Int
      BY <1>1, <2>1, <2>2 DEF Read, Counts
    <3>2. dev.latched * Word + past.low - past.from = 0
      <4>1. dev.latched \in Int /\ Word \in Int /\ past.low \in Int
        BY <1>1, Words DEF TimerShape, ReaderType, Digits
      <4>. QED
        BY <3>1, <4>1
    <3>3. 0 % (Word * Word) = 0
      BY Words
    <3>4. (dev.latched * Word + past.low - past.from) % (Word * Word) = 0
      BY <3>2, <3>3
    <3>. QED
      BY <1>5, <3>4
  <2>. QED
    BY <2>1, <2>2, GetsRead
<1>8. CASE T!Relatch
  <2>1. dev' \in TimerType /\ past' = [past EXCEPT !.torn = TRUE]
    BY <1>3, <1>8 DEF T!Relatch
  <2>2. ReaderType(past') /\ ~past'.wrong /\ past'.torn
    BY <1>1, <2>1 DEF ReaderType, ReaderFields
  <2>. QED
    BY <2>1, <2>2, TornRead
<1>9. CASE T!ReadRaw
  <2>1. dev' = dev
    BY <1>9 DEF T!ReadRaw
  <2>2. CASE past' = [T!Goes("high") EXCEPT !.high = T!High(dev)]
    <3>1. /\ ReaderFields \subseteq DOMAIN past' /\ past'.at = "high" /\ past'.from = dev.counter /\ past'.torn = FALSE
          /\ past'.high = T!High(dev) /\ past'.low = past.low /\ past'.wrong = past.wrong
      BY <1>1, <2>2 DEF T!Goes, ReaderType, ReaderFields
    <3>2. ReaderType(past')
      BY <1>1, <1>2, <3>1 DEF ReaderType
    <3>. QED
      BY <1>1, <2>1, <3>1, <3>2, BeginsRead
  <2>3. CASE past.at = "high" /\ past' = [past EXCEPT !.at = "low", !.low = T!Low(dev)]
    <3>1. /\ ReaderFields \subseteq DOMAIN past' /\ past'.at = "low" /\ past'.from = past.from /\ past'.torn = past.torn
          /\ past'.high = past.high /\ past'.low = T!Low(dev) /\ past'.wrong = past.wrong
      BY <1>1, <2>3 DEF ReaderType, ReaderFields
    <3>2. ReaderType(past') /\ Since(dev, past') = Since(dev, past)
      BY <1>1, <1>2, <3>1 DEF ReaderType, Since
    <3>3. ASSUME ~past.torn
          PROVE  \E b, c \in 0..Since(dev, past) :
                    b <= c /\ past.high = Now(past.from, b) \div Word /\ T!Low(dev) = Now(past.from, c) % Word
      <4>1. PICK b \in 0..Since(dev, past) : past.high = Now(past.from, b) \div Word
        BY <1>1, <2>3, <3>3 DEF Read
      <4>2. T!Low(dev) = Now(past.from, Since(dev, past)) % Word
        BY <1>4 DEF T!Low
      <4>3. b <= Since(dev, past)
        BY <1>5
      <4>. QED
        BY <1>5, <4>1, <4>2, <4>3
    <3>4. Read(dev, past')
      BY <1>1, <2>3, <3>1, <3>2, <3>3 DEF Read
    <3>. QED
      BY <1>1, <2>1, <3>1, <3>2, <3>4 DEF TimerInv
  <2>4. CASE past.at = "low" /\ T!High(dev) = past.high /\ past' = T!Gets(past.high, past.low)
    <3>1. ASSUME ~past.torn
          PROVE  (past.high * Word + past.low - past.from) % (Word * Word) \in 0..Since(dev, past)
      <4>1. PICK b, c \in 0..Since(dev, past) :
                b <= c /\ past.high = Now(past.from, b) \div Word /\ past.low = Now(past.from, c) % Word
        BY <1>1, <2>4, <3>1 DEF Read
      <4>2. Since(dev, past) \in 0..((Word - 1) * Word) /\ c \in b..Since(dev, past)
        <5>1. Since(dev, past) <= (Word - 1) * Word /\ (Word - 1) * Word \in Int
          BY <1>1, <2>4, <3>1, Words DEF Read
        <5>. QED
          BY <1>5, <4>1, <5>1
      <4>3. Now(past.from, Since(dev, past)) \div Word = past.high
        BY <1>4, <2>4 DEF T!High
      <4>4. (past.high * Word + past.low - past.from) % (Word * Word) = c
        BY <1>1, <4>1, <4>2, <4>3, RawRead DEF ReaderType
      <4>. QED
        BY <4>4
    <3>. QED
      BY <2>1, <2>4, <3>1, GetsRead
  <2>5. CASE past.at = "low" /\ past' = [past EXCEPT !.at = "high", !.high = T!High(dev), !.low = 0]
    <3>1. /\ ReaderFields \subseteq DOMAIN past' /\ past'.at = "high" /\ past'.from = past.from /\ past'.torn = past.torn
          /\ past'.high = T!High(dev) /\ past'.low = 0 /\ past'.wrong = past.wrong
      BY <1>1, <2>5 DEF ReaderType, ReaderFields
    <3>2. ReaderType(past') /\ Since(dev, past') = Since(dev, past)
      BY <1>1, <1>2, <3>1, Words DEF ReaderType, Since
    <3>3. \E b \in 0..Since(dev, past) : T!High(dev) = Now(past.from, b) \div Word
      BY <1>4, <1>5 DEF T!High
    <3>4. Read(dev, past')
      BY <1>1, <2>5, <3>1, <3>2, <3>3 DEF Read
    <3>. QED
      BY <1>1, <2>1, <3>1, <3>2, <3>4 DEF TimerInv
  <2>. QED
    BY <1>9, <2>2, <2>3, <2>4, <2>5 DEF T!ReadRaw
<1>. QED
  BY <1>6, <1>7, <1>8, <1>9

\* Every step of the timer and of its reader keeps the invariant.
LEMMA TimerStep ==
    ASSUME TimerInv(dev, past), T!Next
    PROVE  TimerInv(dev', past')
<1>1. ASSUME \/ T!WriteHigh \/ T!WriteAlarm \/ T!WritePause \/ T!Disarm \/ T!WriteEnables \/ T!WriteForce
             \/ T!Acknowledge \/ T!EnterHandler \/ T!ResetCore \/ T!WriteNvic \/ T!SetPeriod
      PROVE  TimerInv(dev', past')
  <2>1. dev' \in TimerType /\ dev'.counter = dev.counter /\ dev'.latched = dev.latched
    BY <1>1, TimerRegisters
  <2>2. ReaderType(past) /\ ~past.wrong /\ Read(dev, past)
    BY DEF TimerInv
  <2>3. CASE past' = past
    BY <2>1, <2>2, <2>3, SameReader
  <2>4. CASE past' = [past EXCEPT !.writes = @ - 1]
    <3>1. \E n : past' = [past EXCEPT !.writes = n]
      BY <2>4
    <3>. QED
      BY <2>1, <2>2, <3>1, StillRead
  <2>. QED
    BY <1>1, <2>3, <2>4, TimerWrites
<1>. QED
  BY <1>1, TimerClock, TimerSet, TimerReset, TimerReads DEF T!Next

\* Theorem: whatever the width of the words, however the ticks and the accesses interleave.
THEOREM ReadsTimeHolds == Spec => []ReadsTime
<1>. DEFINE Inv == unit = "timer" => TimerInv(dev, past)
<1>1. Init => Inv
  <2>1. ASSUME T!Init PROVE TimerInv(dev, past)
    BY <2>1, ClearedTimer, IdleRead DEF T!Init, TimerType
  <2>. QED
    BY <2>1 DEF Init
<1>2. Inv /\ [Next]_vars => Inv'
  <2>1. CASE UNCHANGED vars
    BY <2>1 DEF vars
  <2>2. CASE Next
    BY <2>2, TimerStep DEF Next
  <2>. QED
    BY <2>1, <2>2
<1>3. Inv => ReadsTime
  BY DEF ReadsTime, T!ReadsTime, TimerInv
<1>. QED
  BY <1>1, <1>2, <1>3, PTL DEF Spec

-----------------------------------------------------------------------------
(* What passes through a port, in order *)

\* What has passed, a FIFO, what is on the wire if there is, and a queue, one after the other
Idle(passed, fifo, queue) == (passed \o fifo) \o queue
Busy(passed, fifo, x, queue) == ((passed \o fifo) \o <<x>>) \o queue

Ordered(s, n, lost) ==
    /\ \A i, j \in DOMAIN s : i < j => s[i] < s[j]
    /\ {s[i] : i \in DOMAIN s} = (1..n) \ lost

Names(s) == [n \in DOMAIN s |-> s[n].id]

\* The first of a sequence goes to the end of the one before it.
LEMMA FirstMoves ==
    ASSUME NEW V, NEW a \in Seq(V), NEW b \in Seq(V), b # <<>>
    PROVE  /\ Head(b) \in V /\ Tail(b) \in Seq(V) /\ Append(a, Head(b)) \in Seq(V)
           /\ a \o b = Append(a, Head(b)) \o Tail(b)
<1>1. Head(b) \in V /\ Tail(b) \in Seq(V) /\ Append(a, Head(b)) \in Seq(V)
  BY HeadTailProperties, AppendProperties
<1>2. b = <<Head(b)>> \o Tail(b)
  <2>1. <<Head(b)>> \in Seq(V)
    BY <1>1
  <2>2. <<Head(b)>> \o Tail(b) \in Seq(V) /\ Len(<<Head(b)>> \o Tail(b)) = 1 + Len(Tail(b))
          /\ \A i \in 1..1 + Len(Tail(b)) :
                (<<Head(b)>> \o Tail(b))[i] = IF i <= 1 THEN <<Head(b)>>[i] ELSE Tail(b)[i - 1]
    BY <1>1, <2>1, ConcatProperties
  <2>3. Len(Tail(b)) = Len(b) - 1 /\ \A i \in 1..Len(Tail(b)) : Tail(b)[i] = b[i + 1]
    BY HeadTailProperties
  <2>4. Len(b) \in Nat \ {0} /\ Head(b) = b[1]
    BY EmptySeq
  <2>5. ASSUME NEW i \in 1..Len(b) PROVE (<<Head(b)>> \o Tail(b))[i] = b[i]
    <3>1. CASE i = 1
      BY <2>2, <2>3, <2>4, <3>1
    <3>2. CASE i > 1
      <4>1. i - 1 \in 1..Len(Tail(b)) /\ i \in 1..1 + Len(Tail(b)) /\ (i - 1) + 1 = i /\ ~(i <= 1)
        BY <2>3, <2>4, <3>2
      <4>2. (<<Head(b)>> \o Tail(b))[i] = Tail(b)[i - 1]
        BY <2>2, <4>1
      <4>. QED
        BY <2>3, <4>1, <4>2
    <3>. QED
      BY <3>1, <3>2, <2>4
  <2>. QED
    BY <2>2, <2>3, <2>4, <2>5, SeqEqual
<1>3. a \o (<<Head(b)>> \o Tail(b)) = (a \o <<Head(b)>>) \o Tail(b)
  BY <1>1, ConcatAssociative
<1>4. Append(a, Head(b)) = a \o <<Head(b)>>
  BY <1>1, AppendIsConcat
<1>. QED
  BY <1>1, <1>2, <1>3, <1>4

\* The names of a sequence are a sequence of as many.
LEMMA NamesTyped ==
    ASSUME NEW V, \A v \in V : v.id \in Nat, NEW s \in Seq(V)
    PROVE  Names(s) \in Seq(Nat) /\ Len(Names(s)) = Len(s)
<1>1. Len(s) \in Nat /\ DOMAIN s = 1..Len(s)
  BY LenProperties
<1>2. \A i \in 1..Len(s) : s[i].id \in Nat
  BY ElementOfSeq
<1>3. Names(s) \in [1..Len(s) -> Nat]
  BY <1>1, <1>2 DEF Names
<1>. QED
  BY <1>1, <1>3, SeqDef

LEMMA NamesOf ==
    ASSUME NEW V, \A v \in V : v.id \in Nat, NEW s \in Seq(V)
    PROVE  /\ Names(<<>>) = <<>>
           /\ \A v \in V : Names(Append(s, v)) = Append(Names(s), v.id)
           /\ s # <<>> => /\ Names(s) # <<>> /\ Head(Names(s)) = Head(s).id
                          /\ Names(Tail(s)) = Tail(Names(s))
<1>1. Names(s) \in Seq(Nat) /\ Len(Names(s)) = Len(s) /\ \A i \in 1..Len(s) : Names(s)[i] = s[i].id
  BY NamesTyped DEF Names
<1>2. Names(<<>>) = <<>>
  BY DEF Names
<1>3. ASSUME NEW v \in V PROVE Names(Append(s, v)) = Append(Names(s), v.id)
  <2>. DEFINE t == Append(s, v)
              m == Append(Names(s), v.id)
  <2>1. t \in Seq(V) /\ Len(t) = Len(s) + 1 /\ t[Len(s) + 1] = v /\ \A i \in 1..Len(s) : t[i] = s[i]
    BY AppendProperties
  <2>2. m \in Seq(Nat) /\ Len(m) = Len(s) + 1 /\ m[Len(s) + 1] = v.id /\ \A i \in 1..Len(s) : m[i] = Names(s)[i]
    BY <1>1, AppendProperties
  <2>. HIDE DEF t, m
  <2>3. Names(t) \in Seq(Nat) /\ Len(Names(t)) = Len(t) /\ \A i \in 1..Len(t) : Names(t)[i] = t[i].id
    BY <2>1, NamesTyped DEF Names
  <2>4. Len(s) \in Nat
    BY LenProperties
  <2>5. ASSUME NEW i \in 1..Len(t) PROVE Names(t)[i] = m[i]
    <3>1. i \in 1..Len(s) \/ i = Len(s) + 1
      BY <2>1, <2>4
    <3>2. Names(t)[i] = t[i].id
      BY <2>3
    <3>3. CASE i \in 1..Len(s)
      BY <1>1, <2>1, <2>2, <3>2, <3>3
    <3>4. CASE i = Len(s) + 1
      BY <2>1, <2>2, <3>2, <3>4
    <3>. QED
      BY <3>1, <3>3, <3>4
  <2>6. Names(t) = m
    BY <2>1, <2>2, <2>3, <2>5, SeqEqual
  <2>. QED
    BY <2>6 DEF t, m
<1>4. ASSUME s # <<>>
      PROVE  Names(s) # <<>> /\ Head(Names(s)) = Head(s).id /\ Names(Tail(s)) = Tail(Names(s))
  <2>. DEFINE t == Tail(s)
              m == Tail(Names(s))
  <2>1. Len(s) \in Nat \ {0} /\ Names(s) # <<>> /\ Head(s) = s[1] /\ Head(Names(s)) = Names(s)[1]
    BY <1>1, <1>4, EmptySeq
  <2>2. t \in Seq(V) /\ Len(t) = Len(s) - 1 /\ \A i \in 1..Len(t) : t[i] = s[i + 1]
    BY <1>4, HeadTailProperties
  <2>3. m \in Seq(Nat) /\ Len(m) = Len(s) - 1 /\ \A i \in 1..Len(m) : m[i] = Names(s)[i + 1]
    BY <1>1, <2>1, HeadTailProperties
  <2>. HIDE DEF t, m
  <2>4. Names(t) \in Seq(Nat) /\ Len(Names(t)) = Len(t) /\ \A i \in 1..Len(t) : Names(t)[i] = t[i].id
    BY <2>2, NamesTyped DEF Names
  <2>5. ASSUME NEW i \in 1..Len(t) PROVE Names(t)[i] = m[i]
    <3>1. i + 1 \in 1..Len(s) /\ i \in 1..Len(m)
      BY <2>1, <2>2, <2>3
    <3>. QED
      BY <1>1, <2>2, <2>3, <2>4, <3>1
  <2>6. Names(t) = m
    BY <2>2, <2>3, <2>4, <2>5, SeqEqual
  <2>7. Names(s)[1] = s[1].id
    BY <1>1, <2>1
  <2>. QED
    BY <2>1, <2>6, <2>7 DEF t, m
<1>. QED
  BY <1>2, <1>3, <1>4

LEMMA EndJoins ==
    ASSUME NEW V, NEW a \in Seq(V), NEW b \in Seq(V), NEW n \in V
    PROVE  a \o Append(b, n) = Append(a \o b, n)
<1>1. a \o b \in Seq(V)
  BY ConcatProperties
<1>2. Append(b, n) = b \o <<n>> /\ <<n>> \in Seq(V)
  BY AppendIsConcat
<1>3. Append(a \o b, n) = (a \o b) \o <<n>>
  BY <1>1, AppendIsConcat
<1>4. a \o (b \o <<n>>) = (a \o b) \o <<n>>
  BY <1>2, ConcatAssociative
<1>. QED
  BY <1>2, <1>3, <1>4

-----------------------------------------------------------------------------
\* What joins a queue does so at the end of it all.
LEMMA IdleJoined ==
    ASSUME NEW p \in Seq(Nat), NEW f \in Seq(Nat), NEW q \in Seq(Nat)
    PROVE  /\ Idle(p, f, q) \in Seq(Nat)
           /\ \A n \in Nat : Idle(p, f, Append(q, n)) = Append(Idle(p, f, q), n)
<1>. DEFINE a == p \o f
<1>1. a \in Seq(Nat)
  BY ConcatProperties
<1>. HIDE DEF a
<1>2. a \o q \in Seq(Nat) /\ \A n \in Nat : a \o Append(q, n) = Append(a \o q, n)
  BY <1>1, ConcatProperties, EndJoins, SMTT(60)
<1>. QED
  BY <1>2 DEF Idle, a

LEMMA BusyJoined ==
    ASSUME NEW p \in Seq(Nat), NEW f \in Seq(Nat), NEW x \in Nat, NEW q \in Seq(Nat)
    PROVE  /\ Busy(p, f, x, q) \in Seq(Nat)
           /\ \A n \in Nat : Busy(p, f, x, Append(q, n)) = Append(Busy(p, f, x, q), n)
<1>. DEFINE a == (p \o f) \o <<x>>
<1>1. a \in Seq(Nat)
  <2>1. p \o f \in Seq(Nat) /\ <<x>> \in Seq(Nat)
    BY ConcatProperties
  <2>. QED
    BY <2>1, ConcatProperties
<1>. HIDE DEF a
<1>2. a \o q \in Seq(Nat) /\ \A n \in Nat : a \o Append(q, n) = Append(a \o q, n)
  BY <1>1, ConcatProperties, EndJoins
<1>. QED
  BY <1>2 DEF Busy, a

\* What moves along leaves it as it is: from the queue to the wire,
LEMMA Starts ==
    ASSUME NEW p \in Seq(Nat), NEW f \in Seq(Nat), NEW q \in Seq(Nat), q # <<>>
    PROVE  Busy(p, f, Head(q), Tail(q)) = Idle(p, f, q)
<1>. DEFINE a == p \o f
<1>1. a \in Seq(Nat)
  BY ConcatProperties
<1>. HIDE DEF a
<1>2. Head(q) \in Nat /\ Tail(q) \in Seq(Nat) /\ a \o q = Append(a, Head(q)) \o Tail(q)
  BY <1>1, FirstMoves
<1>3. Append(a, Head(q)) = a \o <<Head(q)>>
  BY <1>1, <1>2, AppendIsConcat
<1>. QED
  BY <1>2, <1>3 DEF Busy, Idle, a

\* from the wire to the FIFO,
LEMMA Arrives ==
    ASSUME NEW p \in Seq(Nat), NEW f \in Seq(Nat), NEW x \in Nat, NEW q \in Seq(Nat)
    PROVE  Idle(p, Append(f, x), q) = Busy(p, f, x, q)
<1>1. Append(f, x) = f \o <<x>> /\ <<x>> \in Seq(Nat)
  BY AppendIsConcat
<1>2. p \o (f \o <<x>>) = (p \o f) \o <<x>>
  BY <1>1, ConcatAssociative
<1>. QED
  BY <1>1, <1>2 DEF Idle, Busy

\* and from the FIFO to what has passed.
LEMMA Passes ==
    ASSUME NEW p \in Seq(Nat), NEW f \in Seq(Nat), f # <<>>, NEW x, NEW q
    PROVE  /\ Append(p, Head(f)) \in Seq(Nat)
           /\ Idle(Append(p, Head(f)), Tail(f), q) = Idle(p, f, q)
           /\ Busy(Append(p, Head(f)), Tail(f), x, q) = Busy(p, f, x, q)
<1>1. Append(p, Head(f)) \in Seq(Nat) /\ p \o f = Append(p, Head(f)) \o Tail(f)
  BY FirstMoves
<1>. QED
  BY <1>1 DEF Idle, Busy

\* A sequence in order stays in order when the next number joins it,
LEMMA OrderGrows ==
    ASSUME NEW s \in Seq(Nat), NEW n \in Nat, NEW lost \in SUBSET (1..n), Ordered(s, n, lost)
    PROVE  Ordered(Append(s, n + 1), n + 1, lost)
<1>. DEFINE t == Append(s, n + 1)
            l == Len(s)
<1>1. t \in Seq(Nat) /\ Len(t) = l + 1 /\ t[l + 1] = n + 1 /\ \A i \in 1..l : t[i] = s[i]
  BY AppendProperties
<1>2. l \in Nat /\ DOMAIN s = 1..l /\ DOMAIN t = 1..(l + 1)
  BY <1>1, LenProperties
<1>. HIDE DEF t, l
<1>3. \A i \in 1..l : s[i] \in (1..n) \ lost
  BY <1>2 DEF Ordered
<1>4. \A i, j \in DOMAIN t : i < j => t[i] < t[j]
  <2>. SUFFICES ASSUME NEW i \in DOMAIN t, NEW j \in DOMAIN t, i < j PROVE t[i] < t[j]
    OBVIOUS
  <2>1. i \in 1..l /\ (j \in 1..l \/ j = l + 1)
    BY <1>2
  <2>2. CASE j \in 1..l
    BY <1>1, <1>2, <2>1, <2>2 DEF Ordered
  <2>3. CASE j = l + 1
    BY <1>1, <1>3, <2>1, <2>3
  <2>. QED
    BY <2>1, <2>2, <2>3
<1>5. {t[i] : i \in DOMAIN t} = {s[i] : i \in DOMAIN s} \cup {n + 1}
  <2>1. ASSUME NEW i \in DOMAIN t PROVE t[i] \in {s[k] : k \in DOMAIN s} \cup {n + 1}
    <3>1. i \in 1..l \/ i = l + 1
      BY <1>2
    <3>. QED
      BY <1>1, <1>2, <3>1
  <2>2. ASSUME NEW i \in DOMAIN s PROVE s[i] \in {t[k] : k \in DOMAIN t}
    <3>1. i \in DOMAIN t /\ t[i] = s[i]
      BY <1>1, <1>2
    <3>. QED
      BY <3>1
  <2>3. n + 1 \in {t[k] : k \in DOMAIN t}
    BY <1>1, <1>2
  <2>. QED
    BY <2>1, <2>2, <2>3
<1>6. (1..(n + 1)) \ lost = ((1..n) \ lost) \cup {n + 1}
  OBVIOUS
<1>7. Ordered(t, n + 1, lost)
  BY <1>4, <1>5, <1>6 DEF Ordered
<1>. QED
  BY <1>7 DEF t

\* and when one of it is lost.
LEMMA OrderLoses ==
    ASSUME NEW a \in Seq(Nat), NEW x \in Nat, NEW b \in Seq(Nat), NEW n \in Nat, NEW lost,
           Ordered((a \o <<x>>) \o b, n, lost)
    PROVE  Ordered(a \o b, n, lost \cup {x}) /\ x \in 1..n
<1>. DEFINE s == (a \o <<x>>) \o b
            t == a \o b
            l == Len(a)
            r == Len(b)
            up(i) == IF i <= l THEN i ELSE i + 1
<1>1. l \in Nat /\ r \in Nat
  BY LenProperties
<1>2. /\ t \in Seq(Nat) /\ Len(t) = l + r
      /\ \A i \in 1..(l + r) : t[i] = IF i <= l THEN a[i] ELSE b[i - l]
  BY ConcatProperties
<1>3. /\ a \o <<x>> \in Seq(Nat) /\ Len(a \o <<x>>) = l + 1
      /\ \A i \in 1..(l + 1) : (a \o <<x>>)[i] = IF i <= l THEN a[i] ELSE x
  <2>1. <<x>> \in Seq(Nat) /\ Len(<<x>>) = 1 /\ <<x>>[1] = x
    OBVIOUS
  <2>2. /\ a \o <<x>> \in Seq(Nat) /\ Len(a \o <<x>>) = l + 1
        /\ \A i \in 1..(l + 1) : (a \o <<x>>)[i] = IF i <= l THEN a[i] ELSE <<x>>[i - l]
    BY <2>1, ConcatProperties
  <2>3. \A i \in 1..(l + 1) : ~(i <= l) => i - l = 1
    BY <1>1
  <2>. QED
    BY <2>1, <2>2, <2>3
<1>4. /\ s \in Seq(Nat) /\ Len(s) = l + 1 + r
      /\ \A i \in 1..(l + 1 + r) : s[i] = IF i <= l + 1 THEN (a \o <<x>>)[i] ELSE b[i - (l + 1)]
  BY <1>3, ConcatProperties
<1>5. DOMAIN t = 1..(l + r) /\ DOMAIN s = 1..(l + 1 + r)
  BY <1>1, <1>2, <1>4, LenProperties
<1>. HIDE DEF s, t, l, r
<1>6. \A i \in 1..(l + r) : up(i) \in 1..(l + 1 + r) /\ up(i) # l + 1 /\ t[i] = s[up(i)]
  <2>. SUFFICES ASSUME NEW i \in 1..(l + r)
                PROVE  up(i) \in 1..(l + 1 + r) /\ up(i) # l + 1 /\ t[i] = s[up(i)]
    OBVIOUS
  <2>1. CASE i <= l
    <3>1. i \in 1..(l + 1) /\ i \in 1..(l + 1 + r) /\ i <= l + 1 /\ i # l + 1 /\ up(i) = i
      BY <1>1, <2>1
    <3>. HIDE DEF up
    <3>2. s[i] = a[i] /\ t[i] = a[i]
      BY <1>2, <1>3, <1>4, <2>1, <3>1
    <3>. QED
      BY <3>1, <3>2
  <2>2. CASE i > l
    <3>1. i + 1 \in 1..(l + 1 + r) /\ ~(i + 1 <= l + 1) /\ (i + 1) - (l + 1) = i - l /\ ~(i <= l)
            /\ i + 1 # l + 1 /\ up(i) = i + 1
      BY <1>1, <2>2
    <3>. HIDE DEF up
    <3>2. s[i + 1] = b[i - l] /\ t[i] = b[i - l]
      BY <1>2, <1>4, <3>1
    <3>. QED
      BY <3>1, <3>2
  <2>. QED
    BY <1>1, <2>1, <2>2
<1>7. s[l + 1] = x /\ l + 1 \in DOMAIN s
  BY <1>1, <1>3, <1>4, <1>5
<1>8. /\ \A i, j \in DOMAIN s : i < j => s[i] < s[j]
      /\ {s[i] : i \in DOMAIN s} = (1..n) \ lost
  BY DEF Ordered, s
<1>9. \A i \in DOMAIN s : s[i] \in Nat /\ (i # l + 1 => s[i] # x)
  <2>. SUFFICES ASSUME NEW i \in DOMAIN s PROVE s[i] \in Nat /\ (i # l + 1 => s[i] # x)
    OBVIOUS
  <2>1. s[i] \in Nat
    BY <1>4, <1>5, ElementOfSeq
  <2>2. i < l + 1 \/ i = l + 1 \/ l + 1 < i
    BY <1>1, <1>5
  <2>. QED
    BY <1>7, <1>8, <2>1, <2>2
<1>10. \A i, j \in DOMAIN t : i < j => t[i] < t[j]
  <2>. SUFFICES ASSUME NEW i \in DOMAIN t, NEW j \in DOMAIN t, i < j PROVE t[i] < t[j]
    OBVIOUS
  <2>1. up(i) < up(j)
    BY <1>1, <1>5
  <2>. QED
    BY <1>5, <1>6, <1>8, <2>1
<1>11. {t[i] : i \in DOMAIN t} = {s[i] : i \in DOMAIN s} \ {x}
  <2>1. ASSUME NEW i \in DOMAIN t PROVE t[i] \in {s[k] : k \in DOMAIN s} \ {x}
    <3>1. up(i) \in DOMAIN s /\ up(i) # l + 1 /\ t[i] = s[up(i)]
      BY <1>5, <1>6
    <3>. HIDE DEF up
    <3>. QED
      BY <1>9, <3>1
  <2>2. ASSUME NEW k \in DOMAIN s, s[k] # x PROVE s[k] \in {t[i] : i \in DOMAIN t}
    <3>1. k # l + 1
      BY <1>7, <2>2
    <3>2. CASE k <= l
      <4>1. k \in 1..(l + r) /\ up(k) = k
        BY <1>1, <1>5, <3>2
      <4>. HIDE DEF up
      <4>. QED
        BY <1>5, <1>6, <4>1
    <3>3. CASE k > l + 1
      <4>1. k - 1 \in 1..(l + r) /\ up(k - 1) = k
        BY <1>1, <1>5, <3>3
      <4>. HIDE DEF up
      <4>. QED
        BY <1>5, <1>6, <4>1
    <3>. QED
      BY <1>1, <1>5, <3>1, <3>2, <3>3
  <2>. QED
    BY <2>1, <2>2
<1>12. Ordered(t, n, lost \cup {x})
  <2>1. {t[i] : i \in DOMAIN t} = (1..n) \ (lost \cup {x})
    BY <1>8, <1>11
  <2>. QED
    BY <1>10, <2>1 DEF Ordered
<1>13. x \in 1..n
  BY <1>7, <1>8
<1>. QED
  BY <1>12, <1>13 DEF t

\* So with one on the wire.
LEMMA Drops ==
    ASSUME NEW p \in Seq(Nat), NEW f \in Seq(Nat), NEW x \in Nat, NEW q \in Seq(Nat), NEW n \in Nat, NEW lost,
           Ordered(Busy(p, f, x, q), n, lost)
    PROVE  Ordered(Idle(p, f, q), n, lost \cup {x}) /\ x \in 1..n
<1>. DEFINE a == p \o f
<1>1. a \in Seq(Nat)
  BY ConcatProperties
<1>. HIDE DEF a
<1>2. Ordered((a \o <<x>>) \o q, n, lost)
  BY DEF Busy, a
<1>3. Ordered(a \o q, n, lost \cup {x}) /\ x \in 1..n
  BY <1>1, <1>2, OrderLoses
<1>. QED
  BY <1>3 DEF Idle, a

\* With nothing on the wire
LEMMA NothingBetween ==
    ASSUME NEW p \in Seq(Nat), NEW f \in Seq(Nat), NEW q
    PROVE  ((p \o f) \o <<>>) \o q = Idle(p, f, q)
<1>1. p \o f \in Seq(Nat)
  BY ConcatProperties
<1>2. (p \o f) \o <<>> = p \o f
  BY <1>1, ConcatEmptySeq
<1>. QED
  BY <1>2 DEF Idle

-----------------------------------------------------------------------------
(* The words of the SPI *)

SpiAll ==
    {"tx", "rx", "shift", "bits", "size", "cpol", "cpha", "scr", "cpsdvsr", "sse", "lbm", "imsc", "txdma", "rxdma",
     "cycle", "sck", "mosi", "pend", "touched", "seen", "steady", "last", "crowded", "lost"}
Frames(Carried) == [id : Nat, word : Carried]

\* The fields that the account of the words depends on, and those that the wires do
WordFields == {"tx", "rx", "shift", "bits", "size", "crowded", "lost"}
WireFields ==
    {"shift", "bits", "size", "cpol", "cpha", "scr", "cpsdvsr", "cycle", "sck", "mosi", "seen", "steady", "last"}

SpiWords(s, p) ==
    IF s.bits > 0 THEN Busy(p.read, Names(s.rx), s.shift.id, Names(s.tx)) ELSE Idle(p.read, Names(s.rx), Names(s.tx))

SpiKept(s, p, Carried) ==
    /\ s.tx \in Seq(Frames(Carried)) /\ s.rx \in Seq(Frames(Carried)) /\ s.shift \in Frames(Carried)
    /\ s.bits \in Nat /\ s.size \in Nat \ {0}
    /\ {"read", "written"} \subseteq DOMAIN p /\ p.read \in Seq(Nat) /\ p.written \in Nat
    /\ s.lost \in SUBSET (1..p.written)
    /\ Ordered(SpiWords(s, p), p.written, s.lost)
    /\ s.crowded \in BOOLEAN
    /\ s.lost # {} => s.crowded
    /\ s.crowded \/ S!InFlight(s) <= Depth
    /\ Len(s.tx) <= Depth /\ Len(s.rx) <= Depth

\* Which half of the bit SCK is in, and what a device has by then seen of the word
WireHalf(s) == IF s.cycle >= S!BitPeriod(s) \div 2 THEN 1 ELSE 0
SeenOf(w, size, n) == [k \in 1..n |-> S!Bit(w, size - k)]
InHalf(s, h) ==
    /\ s.bits <= s.size
    /\ s.mosi = S!Bit(s.shift.word, s.bits - 1)
    /\ h = 0 => s.sck = (s.cpha # s.cpol)
    /\ h = 1 => s.sck = (s.cpha = s.cpol)
    /\ s.seen = SeenOf(s.shift.word, s.size, s.size - s.bits + h)

SpiWave(s) ==
    /\ s.bits \in Nat /\ s.size \in Nat \ {0} /\ s.cycle \in Nat /\ s.scr \in Nat /\ s.cpsdvsr \in Nat
    /\ s.cpol \in BOOLEAN /\ s.cpha \in BOOLEAN /\ s.steady \in BOOLEAN
    /\ s.last.seen = s.last.sent
    /\ s.steady /\ s.bits > 0 => S!BitPeriod(s) > 0 /\ s.cycle < S!BitPeriod(s) /\ InHalf(s, WireHalf(s))

SpiInv(s, p) == SpiAll \subseteq DOMAIN s /\ SpiWave(s) /\ \E Carried : SpiKept(s, p, Carried)

\* What leaves those fields alone
LEMMA WordsSame ==
    ASSUME NEW s, NEW p, NEW Carried, SpiKept(s, p, Carried), NEW v, \A f \in WordFields : v[f] = s[f]
    PROVE  SpiKept(v, p, Carried)
<1>1. v.tx = s.tx /\ v.rx = s.rx /\ v.shift = s.shift /\ v.bits = s.bits /\ v.size = s.size /\ v.crowded = s.crowded
        /\ v.lost = s.lost
  BY DEF WordFields
<1>2. SpiWords(v, p) = SpiWords(s, p) /\ S!InFlight(v) = S!InFlight(s)
  BY <1>1 DEF SpiWords, S!InFlight
<1>. QED
  BY <1>1, <1>2 DEF SpiKept

LEMMA WavesSame ==
    ASSUME NEW s, SpiWave(s), NEW v, \A f \in WireFields : v[f] = s[f]
    PROVE  SpiWave(v)
<1>1. /\ v.shift = s.shift /\ v.bits = s.bits /\ v.size = s.size /\ v.cpol = s.cpol /\ v.cpha = s.cpha /\ v.scr = s.scr
      /\ v.cpsdvsr = s.cpsdvsr /\ v.cycle = s.cycle /\ v.sck = s.sck /\ v.mosi = s.mosi /\ v.seen = s.seen
      /\ v.steady = s.steady /\ v.last = s.last
  BY DEF WireFields
<1>2. S!BitPeriod(v) = S!BitPeriod(s)
  BY <1>1 DEF S!BitPeriod
<1>3. WireHalf(v) = WireHalf(s)
  BY <1>1, <1>2 DEF WireHalf
<1>4. InHalf(v, WireHalf(v)) = InHalf(s, WireHalf(s))
  BY <1>1, <1>3 DEF InHalf
<1>. QED
  BY <1>1, <1>2, <1>4 DEF SpiWave

LEMMA Refreshing ==
    ASSUME NEW s, SpiAll \subseteq DOMAIN s
    PROVE  DOMAIN S!RefreshIrq(s) = DOMAIN s /\ \A f \in SpiAll \ {"pend", "touched"} : S!RefreshIrq(s)[f] = s[f]
BY DEF S!RefreshIrq, SpiAll

LEMMA RefreshKeeps ==
    ASSUME NEW s, NEW p, SpiInv(s, p)
    PROVE  SpiInv(S!RefreshIrq(s), p)
<1>. DEFINE v == S!RefreshIrq(s)
<1>1. DOMAIN v = DOMAIN s /\ \A f \in WordFields \cup WireFields : v[f] = s[f]
  BY Refreshing DEF SpiInv, WordFields, WireFields, SpiAll
<1>. HIDE DEF v
<1>2. SpiWave(v)
  BY <1>1, WavesSame DEF SpiInv
<1>3. PICK Carried : SpiKept(s, p, Carried)
  BY DEF SpiInv
<1>4. SpiKept(v, p, Carried)
  BY <1>1, <1>3, WordsSame
<1>. QED
  BY <1>1, <1>2, <1>4 DEF SpiInv, v

LEMMA BusyOrNot ==
    ASSUME NEW s, NEW p
    PROVE  /\ s.bits > 0 => SpiWords(s, p) = Busy(p.read, Names(s.rx), s.shift.id, Names(s.tx))
           /\ ~(s.bits > 0) => SpiWords(s, p) = Idle(p.read, Names(s.rx), Names(s.tx))
           /\ \A n, m \in Nat : n = Len(s.tx) /\ m = Len(s.rx)
                  => S!InFlight(s) = n + m + (IF s.bits > 0 THEN 1 ELSE 0)
<1>1. /\ s.bits > 0 => SpiWords(s, p) = Busy(p.read, Names(s.rx), s.shift.id, Names(s.tx))
      /\ ~(s.bits > 0) => SpiWords(s, p) = Idle(p.read, Names(s.rx), Names(s.tx))
  BY DEF SpiWords
<1>2. ASSUME NEW n \in Nat, NEW m \in Nat, n = Len(s.tx), m = Len(s.rx)
      PROVE  S!InFlight(s) = n + m + (IF s.bits > 0 THEN 1 ELSE 0)
  <2>1. S!InFlight(s) = n + (IF s.bits > 0 THEN 1 ELSE 0) + m
    BY <1>2 DEF S!InFlight
  <2>. QED
    BY <2>1
<1>. QED
  BY <1>1, <1>2

\* More words are possible.
LEMMA MoreWords ==
    ASSUME NEW s, NEW p, NEW Carried, SpiKept(s, p, Carried), NEW X, Carried \subseteq X
    PROVE  SpiKept(s, p, X)
<1>1. Frames(Carried) \subseteq Frames(X)
  BY DEF Frames
<1>2. s.tx \in Seq(Frames(X)) /\ s.rx \in Seq(Frames(X)) /\ s.shift \in Frames(X)
  BY <1>1, SeqMonotonic DEF SpiKept
<1>. QED
  BY <1>2 DEF SpiKept

\* A bit lasts two cycles or more.
LEMMA PeriodOfTwo ==
    ASSUME NEW s, s.scr \in Nat, s.cpsdvsr \in Nat
    PROVE  /\ S!BitPeriod(s) \in Nat
           /\ S!BitPeriod(s) > 0 => /\ S!BitPeriod(s) >= 2 /\ S!BitPeriod(s) \div 2 \in Nat
                                    /\ 0 < S!BitPeriod(s) \div 2 /\ S!BitPeriod(s) \div 2 <= S!BitPeriod(s) - 1
<1>. DEFINE q == s.cpsdvsr
            r == s.scr
            p == q * (1 + r)
<1>1. q >= 2 => p >= 2 /\ p \in Nat
  <2>. SUFFICES ASSUME q >= 2 PROVE p >= 2 /\ p \in Nat
    OBVIOUS
  <2>. HIDE DEF q, r
  <2>1. q \in Nat /\ r \in Nat
    BY DEF q, r
  <2>2. q * r >= 0 /\ q * r \in Nat
    BY <2>1
  <2>3. p = q + q * r
    BY <2>1
  <2>. QED
    BY <2>1, <2>2, <2>3
<1>2. S!BitPeriod(s) = 0 \/ (q >= 2 /\ S!BitPeriod(s) = p)
  BY DEF S!BitPeriod
<1>. HIDE DEF q, p
<1>3. p \in Nat /\ p >= 2 => p \div 2 \in Nat /\ 0 < p \div 2 /\ p \div 2 <= p - 1
  OBVIOUS
<1>. QED
  BY <1>1, <1>2, <1>3

-----------------------------------------------------------------------------
\* drive_waveform moves the wires alone.
LEMMA DrivenFields ==
    ASSUME NEW s, SpiAll \subseteq DOMAIN s, NEW h \in BOOLEAN
    PROVE  LET v == S!Driven(s, h)
               active == s.bits > 0 /\ s.cpha # h
               level == active # s.cpol
           IN  /\ DOMAIN v = DOMAIN s
               /\ \A f \in SpiAll \ {"sck", "mosi", "seen"} : v[f] = s[f]
               /\ v.sck = level
               /\ v.mosi = IF h THEN s.mosi ELSE s.bits > 0 /\ S!Bit(s.shift.word, s.bits - 1)
               /\ v.seen = IF s.sck # level /\ active # s.cpha THEN Append(s.seen, s.mosi) ELSE s.seen
BY DEF S!Driven, SpiAll

LEMMA DrivenKeeps ==
    ASSUME NEW s, SpiAll \subseteq DOMAIN s, NEW p, NEW Carried, SpiKept(s, p, Carried), NEW h \in BOOLEAN
    PROVE  SpiKept(S!Driven(s, h), p, Carried) /\ SpiAll \subseteq DOMAIN S!Driven(s, h)
<1>. DEFINE v == S!Driven(s, h)
<1>1. DOMAIN v = DOMAIN s /\ \A f \in WordFields : v[f] = s[f]
  BY DrivenFields DEF WordFields, SpiAll
<1>. HIDE DEF v
<1>2. SpiKept(v, p, Carried)
  BY <1>1, WordsSame
<1>. QED
  BY <1>1, <1>2 DEF v

\* A bit keeps the words in order.
LEMMA TickKeeps ==
    ASSUME NEW s, SpiAll \subseteq DOMAIN s, NEW p, NEW Carried, SpiKept(s, p, Carried), NEW answer
    PROVE  (\E X : SpiKept(S!TickBit(s, answer), p, X)) /\ DOMAIN S!TickBit(s, answer) = DOMAIN s
<1>. DEFINE v == S!TickBit(s, answer)
            out == Names(s.tx)
            in == Names(s.rx)
<1>1. out \in Seq(Nat) /\ in \in Seq(Nat) /\ s.shift.id \in Nat /\ p.read \in Seq(Nat) /\ p.written \in Nat
  BY NamesTyped DEF SpiKept, Frames
<1>2. s.bits \in Nat /\ Len(s.tx) \in Nat /\ Len(s.rx) \in Nat /\ Depth \in Nat /\ s.size \in Nat \ {0}
  BY LenProperties, UartAssumption DEF SpiKept
<1>3. \A X : \A g \in Frames(X) : g.id \in Nat
  BY DEF Frames
<1>. HIDE DEF v, out, in
<1>8. PICK n \in Nat : n = Len(s.tx)
  BY <1>2
<1>9. PICK m \in Nat : m = Len(s.rx)
  BY <1>2
<1>4. CASE s.bits > 1
  <2>1. v = [s EXCEPT !.bits = @ - 1]
    BY <1>4 DEF S!TickBit, v
  <2>2. DOMAIN v = DOMAIN s /\ v.bits = s.bits - 1 /\ v.tx = s.tx /\ v.rx = s.rx /\ v.shift = s.shift /\ v.size = s.size
          /\ v.crowded = s.crowded /\ v.lost = s.lost
    BY <2>1 DEF SpiAll
  <2>3. v.bits > 0 /\ s.bits > 0 /\ v.bits \in Nat
    BY <1>2, <1>4, <2>2
  <2>4. SpiWords(v, p) = SpiWords(s, p) /\ S!InFlight(v) = S!InFlight(s)
    <3>1. SpiWords(v, p) = SpiWords(s, p)
      BY <2>2, <2>3, BusyOrNot
    <3>2. S!InFlight(v) = n + m + 1 /\ S!InFlight(s) = n + m + 1
      BY <1>8, <1>9, <2>2, <2>3, BusyOrNot
    <3>. QED
      BY <3>1, <3>2
  <2>5. SpiKept(v, p, Carried)
    BY <2>2, <2>3, <2>4 DEF SpiKept
  <2>. QED
    BY <2>2, <2>5 DEF v
<1>5. CASE s.bits = 1
  <2>. DEFINE got == S!Frame(s.shift.id, (IF s.lbm THEN s.shift.word ELSE answer) % 2 ^ s.size)
              X == Carried \cup {got.word}
              room == Len(s.rx) < Depth
              fifo == IF room THEN Append(s.rx, got) ELSE s.rx
              gone == IF room THEN s.lost ELSE s.lost \cup {got.id}
              shown == IF s.steady THEN [seen |-> s.seen, sent |-> S!MsbFirst(s.shift.word, s.size)] ELSE s.last
              u == [s EXCEPT !.bits = 0, !.rx = fifo, !.lost = gone, !.last = shown]
  <2>1. v = S!RefreshIrq(u)
    BY <1>5 DEF S!TickBit, S!EndFrame, v
  <2>2. got.id = s.shift.id /\ got \in Frames(X)
    BY <1>1 DEF S!Frame, Frames
  <2>3. Len(s.rx) < Depth => fifo = Append(s.rx, got) /\ gone = s.lost
    OBVIOUS
  <2>4. Len(s.rx) >= Depth => fifo = s.rx /\ gone = s.lost \cup {s.shift.id}
    <3>1. Len(s.rx) >= Depth => ~room
      BY <1>2
    <3>. QED
      BY <2>2, <3>1
  <2>. HIDE DEF got, fifo, gone, shown, room
  <2>6. SpiKept(s, p, X)
    BY MoreWords
  <2>. HIDE DEF X
  <2>7. /\ DOMAIN u = DOMAIN s /\ u.bits = 0 /\ u.rx = fifo /\ u.lost = gone /\ u.tx = s.tx /\ u.shift = s.shift
        /\ u.size = s.size /\ u.crowded = s.crowded
    BY DEF SpiAll
  <2>. HIDE DEF u
  <2>8. ~(u.bits > 0) /\ s.bits > 0
    BY <1>5, <2>7
  <2>9. SpiWords(s, p) = Busy(p.read, in, s.shift.id, out) /\ S!InFlight(s) = n + m + 1
    BY <1>8, <1>9, <2>8, BusyOrNot DEF in, out
  <2>10. /\ SpiWords(u, p) = Idle(p.read, Names(fifo), out)
         /\ \A k \in Nat : k = Len(fifo) => S!InFlight(u) = n + k + 0
    BY <1>8, <2>7, <2>8, BusyOrNot DEF out
  <2>11. ASSUME Len(s.rx) < Depth PROVE SpiKept(u, p, X)
    <3>1. fifo \in Seq(Frames(X)) /\ Len(fifo) = Len(s.rx) + 1
      <4>1. s.rx \in Seq(Frames(X))
        BY <2>6 DEF SpiKept
      <4>. QED
        BY <2>2, <2>3, <2>11, <4>1, AppendProperties
    <3>2. Names(fifo) = Append(in, s.shift.id)
      <4>1. s.rx \in Seq(Frames(X))
        BY <2>6 DEF SpiKept
      <4>2. Names(Append(s.rx, got)) = Append(Names(s.rx), got.id)
        BY <1>3, <2>2, <4>1, NamesOf
      <4>. QED
        BY <2>2, <2>3, <2>11, <4>2 DEF in
    <3>3. Idle(p.read, Append(in, s.shift.id), out) = Busy(p.read, in, s.shift.id, out)
      BY <1>1, Arrives
    <3>4. SpiWords(u, p) = SpiWords(s, p)
      BY <2>9, <2>10, <3>2, <3>3
    <3>5. S!InFlight(u) = S!InFlight(s)
      <4>1. m + 1 \in Nat /\ m + 1 = Len(fifo)
        BY <1>9, <3>1
      <4>2. S!InFlight(u) = n + (m + 1) + 0
        BY <2>10, <4>1
      <4>. QED
        BY <2>9, <4>2
    <3>6. Len(fifo) <= Depth
      BY <1>2, <2>11, <3>1
    <3>. QED
      BY <1>2, <2>3, <2>6, <2>7, <2>11, <3>1, <3>4, <3>5, <3>6 DEF SpiKept
  <2>12. ASSUME Len(s.rx) >= Depth PROVE SpiKept(u, p, X)
    <3>1. Ordered(Busy(p.read, in, s.shift.id, out), p.written, s.lost)
      BY <2>9 DEF SpiKept
    <3>2. Ordered(Idle(p.read, in, out), p.written, s.lost \cup {s.shift.id}) /\ s.shift.id \in 1..p.written
      BY <1>1, <3>1, Drops
    <3>3. Ordered(SpiWords(u, p), p.written, gone)
      BY <2>4, <2>10, <2>12, <3>2 DEF in
    <3>4. s.crowded = TRUE
      <4>1. ~(S!InFlight(s) <= Depth)
        <5>1. n + m + 1 > Depth
          BY <1>2, <1>9, <2>12
        <5>. QED
          BY <1>2, <2>9, <5>1
      <4>. QED
        BY <4>1 DEF SpiKept
    <3>. QED
      BY <2>4, <2>6, <2>7, <2>12, <3>2, <3>3, <3>4 DEF SpiKept
  <2>13. SpiKept(u, p, X)
    BY <1>2, <2>11, <2>12
  <2>14. DOMAIN v = DOMAIN s /\ \A f \in WordFields : v[f] = u[f]
    BY <2>1, <2>7, Refreshing DEF WordFields, SpiAll
  <2>15. SpiKept(v, p, X)
    BY <2>13, <2>14, WordsSame
  <2>. QED
    BY <2>14, <2>15 DEF v
<1>6. CASE s.bits = 0 /\ s.tx # <<>>
  <2>. DEFINE first == Head(s.tx)
              rest == Tail(s.tx)
              u == [s EXCEPT !.shift = first, !.tx = rest, !.bits = s.size, !.seen = <<>>, !.steady = TRUE]
  <2>1. v = S!RefreshIrq(u)
    BY <1>6 DEF S!TickBit, v
  <2>2. first \in Frames(Carried) /\ rest \in Seq(Frames(Carried)) /\ Len(rest) = Len(s.tx) - 1
    BY <1>6, HeadTailProperties DEF SpiKept
  <2>3. out # <<>> /\ Head(out) = first.id /\ Names(rest) = Tail(out)
    <3>1. s.tx \in Seq(Frames(Carried))
      BY DEF SpiKept
    <3>. QED
      BY <1>3, <1>6, <3>1, NamesOf DEF out
  <2>. HIDE DEF first, rest
  <2>4. /\ DOMAIN u = DOMAIN s /\ u.bits = s.size /\ u.rx = s.rx /\ u.lost = s.lost /\ u.tx = rest /\ u.shift = first
        /\ u.size = s.size /\ u.crowded = s.crowded
    BY DEF SpiAll
  <2>. HIDE DEF u
  <2>5. u.bits > 0 /\ ~(s.bits > 0)
    BY <1>2, <1>6, <2>4
  <2>6. SpiWords(s, p) = Idle(p.read, in, out) /\ S!InFlight(s) = n + m + 0
    BY <1>8, <1>9, <2>5, BusyOrNot DEF in, out
  <2>7. SpiWords(u, p) = Busy(p.read, in, first.id, Names(rest)) /\ S!InFlight(u) = (n - 1) + m + 1
    <3>1. n - 1 \in Nat /\ n - 1 = Len(rest)
      BY <1>2, <1>8, <2>2, LenProperties
    <3>2. S!InFlight(u) = (n - 1) + m + 1
      BY <1>9, <2>4, <2>5, <3>1, BusyOrNot
    <3>. QED
      BY <2>4, <2>5, <3>2, BusyOrNot DEF in
  <2>8. SpiWords(u, p) = SpiWords(s, p)
    BY <1>1, <2>3, <2>6, <2>7, Starts
  <2>9. S!InFlight(u) = S!InFlight(s)
    BY <2>6, <2>7
  <2>10. Len(rest) <= Depth
    BY <1>2, <2>2 DEF SpiKept
  <2>11. SpiKept(u, p, Carried)
    BY <1>2, <2>2, <2>4, <2>8, <2>9, <2>10 DEF SpiKept
  <2>12. DOMAIN v = DOMAIN s /\ \A f \in WordFields : v[f] = u[f]
    BY <2>1, <2>4, Refreshing DEF WordFields, SpiAll
  <2>13. SpiKept(v, p, Carried)
    BY <2>11, <2>12, WordsSame
  <2>. QED
    BY <2>12, <2>13 DEF v
<1>7. CASE s.bits = 0 /\ s.tx = <<>>
  <2>1. v = s
    BY <1>7 DEF S!TickBit, v
  <2>. QED
    BY <2>1 DEF v
<1>. QED
  BY <1>2, <1>4, <1>5, <1>6, <1>7

\* A function on one more number is a sequence with one more at its end.
LEMMA OneLonger ==
    ASSUME NEW V, NEW n \in Nat, NEW a \in [1..n -> V], NEW b \in [1..(n + 1) -> V], \A i \in 1..n : a[i] = b[i]
    PROVE  Append(a, b[n + 1]) = b
<1>1. a \in Seq(V) /\ b \in Seq(V) /\ Len(a) = n /\ Len(b) = n + 1 /\ b[n + 1] \in V
  BY SeqDef, LenProperties
<1>2. /\ Append(a, b[n + 1]) \in Seq(V) /\ Len(Append(a, b[n + 1])) = n + 1 /\ Append(a, b[n + 1])[n + 1] = b[n + 1]
      /\ \A i \in 1..n : Append(a, b[n + 1])[i] = a[i]
  BY <1>1, AppendProperties
<1>3. ASSUME NEW i \in 1..(n + 1) PROVE Append(a, b[n + 1])[i] = b[i]
  <2>1. i = n + 1 \/ i \in 1..n
    OBVIOUS
  <2>. QED
    BY <1>2, <2>1
<1>. QED
  BY <1>1, <1>2, <1>3, SeqEqual

\* A device sees a bit of the word more.
LEMMA SeenMore ==
    ASSUME NEW w, NEW size \in Nat, NEW n \in Nat
    PROVE  Append(SeenOf(w, size, n), S!Bit(w, size - (n + 1))) = SeenOf(w, size, n + 1)
<1>. DEFINE a == SeenOf(w, size, n)
            b == SeenOf(w, size, n + 1)
<1>1. \A k : S!Bit(w, k) \in BOOLEAN
  BY DEF S!Bit
<1>2. a \in [1..n -> BOOLEAN] /\ b \in [1..(n + 1) -> BOOLEAN]
  BY <1>1 DEF SeenOf
<1>3. n + 1 \in 1..(n + 1) /\ \A i \in 1..n : i \in 1..(n + 1)
  OBVIOUS
<1>4. b[n + 1] = S!Bit(w, size - (n + 1)) /\ \A i \in 1..n : a[i] = b[i]
  BY <1>3 DEF SeenOf
<1>. HIDE DEF a, b
<1>5. Append(a, b[n + 1]) = b
  BY <1>2, <1>4, OneLonger
<1>. QED
  BY <1>4, <1>5 DEF a, b

LEMMA SeenNothing == ASSUME NEW w, NEW size PROVE SeenOf(w, size, 0) = <<>>
BY DEF SeenOf

\* In the middle of a bit the device takes it.
LEMMA MiddleTakes ==
    ASSUME NEW s, SpiAll \subseteq DOMAIN s, SpiWave(s), s.bits > 0, InHalf(s, 0)
    PROVE  InHalf(S!Driven(s, TRUE), 1)
<1>. DEFINE v == S!Driven(s, TRUE)
            active == s.bits > 0 /\ s.cpha # TRUE
            level == active # s.cpol
<1>1. /\ \A f \in SpiAll \ {"sck", "mosi", "seen"} : v[f] = s[f]
      /\ v.sck = level /\ v.mosi = s.mosi
      /\ v.seen = IF s.sck # level /\ active # s.cpha THEN Append(s.seen, s.mosi) ELSE s.seen
  BY DrivenFields
<1>2. v.bits = s.bits /\ v.size = s.size /\ v.cpha = s.cpha /\ v.cpol = s.cpol /\ v.shift = s.shift
  BY <1>1 DEF SpiAll
<1>3. s.cpha \in BOOLEAN /\ s.cpol \in BOOLEAN /\ s.bits \in Nat /\ s.size \in Nat
  BY DEF SpiWave
<1>4. s.sck = (s.cpha # s.cpol)
  BY DEF InHalf
<1>5. level = (s.cpha = s.cpol) /\ s.sck # level /\ active # s.cpha
  BY <1>3, <1>4
<1>6. v.sck = (v.cpha = v.cpol)
  BY <1>1, <1>2, <1>5
<1>7. v.seen = Append(s.seen, s.mosi)
  BY <1>1, <1>5
<1>. HIDE DEF v, active, level
<1>. DEFINE n == s.size - s.bits
<1>8. n \in Nat /\ s.size - (n + 1) = s.bits - 1 /\ n + 0 = n
  BY <1>3 DEF InHalf
<1>9. s.seen = SeenOf(s.shift.word, s.size, n) /\ s.mosi = S!Bit(s.shift.word, s.size - (n + 1))
  BY <1>8 DEF InHalf
<1>10. v.seen = SeenOf(s.shift.word, s.size, n + 1)
  BY <1>3, <1>7, <1>8, <1>9, SeenMore
<1>11. v.bits <= v.size /\ v.mosi = S!Bit(v.shift.word, v.bits - 1)
  BY <1>1, <1>2 DEF InHalf
<1>12. v.seen = SeenOf(v.shift.word, v.size, v.size - v.bits + 1)
  BY <1>2, <1>10
<1>. QED
  BY <1>6, <1>11, <1>12 DEF InHalf, v

\* At the start of a bit MOSI takes it, and SCK its level.
LEMMA StartShows ==
    ASSUME NEW s, SpiAll \subseteq DOMAIN s, s.bits \in Nat, s.size \in Nat, s.bits > 0, s.bits <= s.size,
           s.cpha \in BOOLEAN, s.cpol \in BOOLEAN,
           s.seen = SeenOf(s.shift.word, s.size, s.size - s.bits)
    PROVE  InHalf(S!Driven(s, FALSE), 0)
<1>. DEFINE v == S!Driven(s, FALSE)
            active == s.bits > 0 /\ s.cpha # FALSE
            level == active # s.cpol
<1>1. /\ \A f \in SpiAll \ {"sck", "mosi", "seen"} : v[f] = s[f]
      /\ v.sck = level
      /\ v.mosi = (s.bits > 0 /\ S!Bit(s.shift.word, s.bits - 1))
      /\ v.seen = IF s.sck # level /\ active # s.cpha THEN Append(s.seen, s.mosi) ELSE s.seen
  BY DrivenFields
<1>2. v.bits = s.bits /\ v.size = s.size /\ v.cpha = s.cpha /\ v.cpol = s.cpol /\ v.shift = s.shift
  BY <1>1 DEF SpiAll
<1>3. active = s.cpha
  OBVIOUS
<1>4. v.sck = (v.cpha # v.cpol)
  BY <1>1, <1>2, <1>3
<1>5. v.seen = s.seen
  BY <1>1, <1>3
<1>6. S!Bit(s.shift.word, s.bits - 1) \in BOOLEAN
  BY DEF S!Bit
<1>7. v.mosi = S!Bit(s.shift.word, s.bits - 1)
  BY <1>1, <1>6
<1>. HIDE DEF v
<1>8. v.seen = SeenOf(v.shift.word, v.size, v.size - v.bits + 0)
  <2>1. s.size - s.bits + 0 = s.size - s.bits
    OBVIOUS
  <2>. QED
    BY <1>2, <1>5, <2>1
<1>9. v.bits <= v.size /\ v.mosi = S!Bit(v.shift.word, v.bits - 1)
  BY <1>2, <1>7
<1>10. v.bits <= v.size /\ 0 = 0 /\ 0 # 1
  BY <1>9
<1>. QED
  BY <1>4, <1>8, <1>9, <1>10, Zenon DEF InHalf, v

\* What a bit does to the wires: it goes on with the word, shows it to be over, or takes the next.
LEMMA TickWires ==
    ASSUME NEW s, SpiAll \subseteq DOMAIN s, s.bits \in Nat, NEW answer
    PROVE  LET v == S!TickBit(s, answer)
           IN  /\ \A f \in {"size", "cpol", "cpha", "scr", "cpsdvsr", "sck", "mosi"} : v[f] = s[f]
               /\ s.bits > 1 => /\ v.bits = s.bits - 1 /\ v.shift = s.shift /\ v.seen = s.seen /\ v.steady = s.steady
                                /\ v.last = s.last
               /\ s.bits = 1 => /\ v.bits = 0 /\ v.steady = s.steady
                                /\ v.last = IF s.steady
                                            THEN [seen |-> s.seen, sent |-> S!MsbFirst(s.shift.word, s.size)]
                                            ELSE s.last
               /\ s.bits = 0 => /\ v.last = s.last
                                /\ \/ v.bits = s.size /\ v.seen = <<>> /\ v.steady = TRUE
                                   \/ v.bits = 0 /\ v.steady = s.steady
<1>. DEFINE v == S!TickBit(s, answer)
            Same == {"size", "cpol", "cpha", "scr", "cpsdvsr", "sck", "mosi"}
<1>1. CASE s.bits > 1
  <2>1. v = [s EXCEPT !.bits = @ - 1]
    BY <1>1 DEF S!TickBit
  <2>. HIDE DEF v
  <2>2. /\ \A f \in Same : v[f] = s[f]
        /\ v.bits = s.bits - 1 /\ v.shift = s.shift /\ v.seen = s.seen /\ v.steady = s.steady /\ v.last = s.last
    BY <2>1 DEF SpiAll
  <2>. QED
    BY <1>1, <2>2 DEF v
<1>2. CASE s.bits = 1
  <2>. DEFINE got == S!Frame(s.shift.id, (IF s.lbm THEN s.shift.word ELSE answer) % 2 ^ s.size)
              fifo == IF Len(s.rx) < Depth THEN Append(s.rx, got) ELSE s.rx
              gone == IF Len(s.rx) < Depth THEN s.lost ELSE s.lost \cup {got.id}
              shown == IF s.steady THEN [seen |-> s.seen, sent |-> S!MsbFirst(s.shift.word, s.size)] ELSE s.last
              t == [s EXCEPT !.bits = 0, !.rx = fifo, !.lost = gone, !.last = shown]
  <2>1. v = S!RefreshIrq(t)
    BY <1>2 DEF S!TickBit, S!EndFrame
  <2>. HIDE DEF v, got, fifo, gone, shown
  <2>2. DOMAIN t = DOMAIN s /\ (\A f \in Same : t[f] = s[f]) /\ t.bits = 0 /\ t.steady = s.steady /\ t.last = shown
    BY DEF SpiAll
  <2>. HIDE DEF t
  <2>3. \A f \in SpiAll \ {"pend", "touched"} : v[f] = t[f]
    BY <2>1, <2>2, Refreshing
  <2>4. (\A f \in Same : v[f] = s[f]) /\ v.bits = 0 /\ v.steady = s.steady /\ v.last = shown
    BY <2>2, <2>3 DEF SpiAll
  <2>. QED
    BY <1>2, <2>4 DEF v, shown
<1>3. CASE s.bits = 0 /\ s.tx # <<>>
  <2>. DEFINE first == Head(s.tx)
              rest == Tail(s.tx)
              t == [s EXCEPT !.shift = first, !.tx = rest, !.bits = s.size, !.seen = <<>>, !.steady = TRUE]
  <2>1. v = S!RefreshIrq(t)
    BY <1>3 DEF S!TickBit
  <2>. HIDE DEF v, first, rest
  <2>2. /\ DOMAIN t = DOMAIN s /\ (\A f \in Same : t[f] = s[f]) /\ t.bits = s.size /\ t.seen = <<>> /\ t.steady = TRUE
        /\ t.last = s.last
    BY DEF SpiAll
  <2>. HIDE DEF t
  <2>3. \A f \in SpiAll \ {"pend", "touched"} : v[f] = t[f]
    BY <2>1, <2>2, Refreshing
  <2>4. (\A f \in Same : v[f] = s[f]) /\ v.bits = s.size /\ v.seen = <<>> /\ v.steady = TRUE /\ v.last = s.last
    BY <2>2, <2>3 DEF SpiAll
  <2>. QED
    BY <1>3, <2>4 DEF v
<1>4. CASE s.bits = 0 /\ s.tx = <<>>
  <2>1. v = s
    BY <1>4 DEF S!TickBit
  <2>. QED
    BY <1>4, <2>1
<1>5. s.bits > 1 \/ s.bits = 1 \/ (s.bits = 0 /\ s.tx # <<>>) \/ (s.bits = 0 /\ s.tx = <<>>)
  OBVIOUS
<1>. QED
  BY <1>1, <1>2, <1>3, <1>4, <1>5, Zenon

\* At the end of a bit the next is shown, from the start of a bit on.
LEMMA PeriodEnds ==
    ASSUME NEW s, SpiAll \subseteq DOMAIN s, SpiWave(s), S!BitPeriod(s) > 0,
           s.steady /\ s.bits > 0 => InHalf(s, 1), NEW answer,
           NEW v, v = [S!TickBit(s, answer) EXCEPT !.cycle = 0], SpiAll \subseteq DOMAIN S!TickBit(s, answer)
    PROVE  SpiWave(S!Driven(v, FALSE))
<1>. DEFINE t == S!TickBit(s, answer)
            d == S!Driven(v, FALSE)
<1>1. /\ \A f \in {"size", "cpol", "cpha", "scr", "cpsdvsr", "sck", "mosi"} : t[f] = s[f]
      /\ s.bits > 1 => t.bits = s.bits - 1 /\ t.shift = s.shift /\ t.seen = s.seen /\ t.steady = s.steady /\ t.last = s.last
      /\ s.bits = 1 => /\ t.bits = 0 /\ t.steady = s.steady
                       /\ t.last = IF s.steady THEN [seen |-> s.seen, sent |-> S!MsbFirst(s.shift.word, s.size)]
                                               ELSE s.last
      /\ s.bits = 0 => /\ t.last = s.last
                       /\ \/ t.bits = s.size /\ t.seen = <<>> /\ t.steady = TRUE
                          \/ t.bits = 0 /\ t.steady = s.steady
  BY TickWires DEF SpiWave
<1>. HIDE DEF t
<1>2. DOMAIN v = DOMAIN t /\ v.cycle = 0 /\ \A f \in SpiAll \ {"cycle"} : v[f] = t[f]
  BY DEF t, SpiAll
<1>3. /\ v.size = s.size /\ v.cpol = s.cpol /\ v.cpha = s.cpha /\ v.scr = s.scr /\ v.cpsdvsr = s.cpsdvsr
      /\ v.bits = t.bits /\ v.shift = t.shift /\ v.seen = t.seen /\ v.steady = t.steady /\ v.last = t.last
  BY <1>1, <1>2 DEF SpiAll
<1>4. /\ s.bits \in Nat /\ s.size \in Nat \ {0} /\ s.cpol \in BOOLEAN /\ s.cpha \in BOOLEAN /\ s.steady \in BOOLEAN
      /\ s.scr \in Nat /\ s.cpsdvsr \in Nat /\ s.last.seen = s.last.sent
  BY DEF SpiWave
<1>5. s.bits > 1 \/ s.bits = 1 \/ s.bits = 0
  BY <1>4
<1>16. \/ s.bits > 1 /\ v.bits = s.bits - 1 /\ v.steady = s.steady /\ v.shift = s.shift /\ v.seen = s.seen
       \/ s.bits = 1 /\ v.bits = 0 /\ v.steady = s.steady
       \/ s.bits = 0 /\ v.bits = s.size /\ v.steady = TRUE /\ v.seen = <<>>
       \/ s.bits = 0 /\ v.bits = 0 /\ v.steady = s.steady
  BY <1>1, <1>3, <1>5, Zenon
<1>6. v.bits \in Nat /\ v.steady \in BOOLEAN
  <2>1. v.bits \in Nat
    BY <1>4, <1>16
  <2>2. v.steady \in BOOLEAN
    BY <1>4, <1>16, Zenon
  <2>. QED
    BY <2>1, <2>2
<1>7. v.last.seen = v.last.sent
  <2>1. CASE s.bits = 1 /\ s.steady
    <3>1. v.last.seen = s.seen /\ v.last.sent = S!MsbFirst(s.shift.word, s.size)
      BY <1>1, <1>3, <2>1
    <3>2. s.size - s.bits + 1 = s.size
      BY <1>4, <2>1
    <3>3. s.seen = SeenOf(s.shift.word, s.size, s.size)
      BY <1>4, <2>1, <3>2 DEF InHalf
    <3>. QED
      BY <3>1, <3>3 DEF SeenOf, S!MsbFirst
  <2>2. CASE ~(s.bits = 1 /\ s.steady)
    BY <1>1, <1>3, <1>4, <1>5, <2>2
  <2>. QED
    BY <2>1, <2>2
<1>8. ASSUME v.steady, v.bits > 0
      PROVE  v.bits <= v.size /\ v.seen = SeenOf(v.shift.word, v.size, v.size - v.bits)
  <2>1. CASE s.bits > 1
    <3>1. s.steady /\ InHalf(s, 1) /\ v.bits = s.bits - 1 /\ v.shift = s.shift /\ v.seen = s.seen
      <4>1. s.bits > 0 /\ s.bits # 1 /\ s.bits # 0
        BY <1>4, <2>1
      <4>2. v.bits = s.bits - 1 /\ v.steady = s.steady /\ v.shift = s.shift /\ v.seen = s.seen
        BY <1>16, <4>1, Zenon
      <4>. QED
        BY <1>8, <4>1, <4>2, Zenon
    <3>2. s.size - s.bits + 1 = v.size - v.bits
      BY <1>3, <1>4, <3>1
    <3>3. v.bits <= v.size
      BY <1>3, <1>4, <3>1 DEF InHalf
    <3>4. s.seen = SeenOf(s.shift.word, s.size, v.size - v.bits)
      BY <3>1, <3>2 DEF InHalf
    <3>. QED
      BY <1>3, <3>1, <3>3, <3>4
  <2>2. CASE s.bits = 0
    <3>1. v.bits = s.size /\ v.seen = <<>>
      <4>1. ~(s.bits > 1) /\ s.bits # 1 /\ v.bits # 0
        BY <1>4, <1>8, <2>2
      <4>. QED
        BY <1>16, <4>1, Zenon
    <3>2. v.size - v.bits = 0 /\ v.bits <= v.size
      BY <1>3, <1>4, <3>1
    <3>. QED
      BY <3>1, <3>2, SeenNothing
  <2>3. CASE s.bits = 1
    BY <1>1, <1>3, <1>8, <2>3
  <2>. QED
    BY <1>5, <2>1, <2>2, <2>3
<1>9. SpiAll \subseteq DOMAIN v
  BY <1>2 DEF t
<1>10. DOMAIN d = DOMAIN v /\ \A f \in SpiAll \ {"sck", "mosi", "seen"} : d[f] = v[f]
  BY <1>9, DrivenFields
<1>11. v.steady /\ v.bits > 0 => InHalf(d, 0)
  BY <1>3, <1>4, <1>6, <1>8, <1>9, StartShows
<1>. HIDE DEF d
<1>12. /\ d.bits = v.bits /\ d.size = v.size /\ d.cpol = v.cpol /\ d.cpha = v.cpha /\ d.scr = v.scr
       /\ d.cpsdvsr = v.cpsdvsr /\ d.steady = v.steady /\ d.last = v.last /\ d.cycle = 0
  BY <1>2, <1>10 DEF SpiAll
<1>13. S!BitPeriod(d) = S!BitPeriod(s)
  BY <1>3, <1>12 DEF S!BitPeriod
<1>14. S!BitPeriod(d) > 0 /\ 0 < S!BitPeriod(d) /\ 0 < S!BitPeriod(d) \div 2 /\ S!BitPeriod(d) \div 2 \in Nat
  BY <1>4, <1>13, PeriodOfTwo
<1>15. WireHalf(d) = 0
  BY <1>12, <1>14 DEF WireHalf
<1>17. /\ d.bits \in Nat /\ d.size \in Nat \ {0} /\ d.cycle \in Nat /\ d.scr \in Nat /\ d.cpsdvsr \in Nat
       /\ d.cpol \in BOOLEAN /\ d.cpha \in BOOLEAN /\ d.steady \in BOOLEAN /\ d.last.seen = d.last.sent
  BY <1>3, <1>4, <1>6, <1>7, <1>12
<1>18. ASSUME d.steady, d.bits > 0
       PROVE  S!BitPeriod(d) > 0 /\ d.cycle < S!BitPeriod(d) /\ InHalf(d, WireHalf(d))
  <2>1. v.steady /\ v.bits > 0
    BY <1>12, <1>18, Zenon
  <2>2. InHalf(d, WireHalf(d))
    BY <1>11, <1>15, <2>1, Zenon
  <2>3. S!BitPeriod(d) > 0 /\ d.cycle < S!BitPeriod(d)
    BY <1>12, <1>14
  <2>. QED
    BY <2>2, <2>3
<1>. QED
  BY <1>17, <1>18, Zenon DEF SpiWave, d

\* A cycle of the clock
Middle(s) == IF s.cycle + 1 = S!BitPeriod(s) \div 2 THEN S!Driven(s, TRUE) ELSE s
Cycled(s, answer) ==
    IF s.cycle + 1 >= S!BitPeriod(s)
    THEN S!Driven([S!TickBit(Middle(s), answer) EXCEPT !.cycle = 0], FALSE)
    ELSE [Middle(s) EXCEPT !.cycle = s.cycle + 1]

LEMMA SamePeriod ==
    ASSUME NEW s, NEW v, v.cpsdvsr = s.cpsdvsr, v.scr = s.scr
    PROVE  S!BitPeriod(v) = S!BitPeriod(s)
BY DEF S!BitPeriod

LEMMA SameHalf ==
    ASSUME NEW s, NEW h, InHalf(s, h), NEW v, v.bits = s.bits, v.size = s.size, v.mosi = s.mosi, v.shift = s.shift,
           v.cpha = s.cpha, v.cpol = s.cpol, v.sck = s.sck, v.seen = s.seen
    PROVE  InHalf(v, h)
BY DEF InHalf

LEMMA SpiClocked ==
    ASSUME NEW s, NEW p, SpiInv(s, p), S!BitPeriod(s) > 0, NEW answer
    PROVE  SpiInv(Cycled(s, answer), p)
<1>. DEFINE period == S!BitPeriod(s)
            middle == period \div 2
            c == s.cycle + 1
            half == Middle(s)
            v == Cycled(s, answer)
<1>13. period > 0 /\ period = S!BitPeriod(s) /\ middle = period \div 2 /\ c = s.cycle + 1
  OBVIOUS
<1>14. c = middle => half = S!Driven(s, TRUE)
  BY DEF Middle
<1>15. c # middle => half = s
  BY DEF Middle
<1>16. c >= period => v = S!Driven([S!TickBit(half, answer) EXCEPT !.cycle = 0], FALSE)
  BY DEF Cycled
<1>17. ~(c >= period) => v = [half EXCEPT !.cycle = c]
  BY DEF Cycled
<1>. HIDE DEF period, middle, c, half, v
<1>1. SpiAll \subseteq DOMAIN s /\ SpiWave(s)
  BY DEF SpiInv
<1>2. PICK Carried : SpiKept(s, p, Carried)
  BY DEF SpiInv
<1>3. /\ s.bits \in Nat /\ s.size \in Nat \ {0} /\ s.cycle \in Nat /\ s.scr \in Nat /\ s.cpsdvsr \in Nat
      /\ s.cpol \in BOOLEAN /\ s.cpha \in BOOLEAN /\ s.steady \in BOOLEAN /\ s.last.seen = s.last.sent
  BY <1>1 DEF SpiWave
<1>4. period \in Nat /\ middle \in Nat /\ 0 < middle /\ middle <= period - 1 /\ period > 0
  BY <1>3, <1>13, PeriodOfTwo
<1>5. s.steady /\ s.bits > 0 => s.cycle < period /\ InHalf(s, WireHalf(s))
  BY <1>1, <1>13 DEF SpiWave
<1>6. SpiAll \subseteq DOMAIN half /\ SpiKept(half, p, Carried) /\ \A f \in SpiAll \ {"sck", "mosi", "seen"} : half[f] = s[f]
  <2>1. CASE c = middle
    BY <1>1, <1>2, <1>14, <2>1, DrivenKeeps, DrivenFields, ZenonT(60)
  <2>2. CASE c # middle
    BY <1>1, <1>2, <1>15, <2>2
  <2>. QED
    BY <2>1, <2>2
<1>7. /\ half.bits = s.bits /\ half.size = s.size /\ half.cpol = s.cpol /\ half.cpha = s.cpha /\ half.scr = s.scr
      /\ half.cpsdvsr = s.cpsdvsr /\ half.cycle = s.cycle /\ half.shift = s.shift /\ half.steady = s.steady
      /\ half.last = s.last
  BY <1>6 DEF SpiAll
<1>8. S!BitPeriod(half) = period
  BY <1>7, <1>13, SamePeriod
<1>9. s.steady /\ s.bits > 0 => InHalf(half, IF c >= middle THEN 1 ELSE 0)
  <2>. SUFFICES ASSUME s.steady, s.bits > 0 PROVE InHalf(half, IF c >= middle THEN 1 ELSE 0)
    OBVIOUS
  <2>1. InHalf(s, WireHalf(s))
    BY <1>5
  <2>2. CASE c = middle
    <3>1. WireHalf(s) = 0 /\ (IF c >= middle THEN 1 ELSE 0) = 1
      BY <1>3, <1>4, <1>13, <2>2 DEF WireHalf
    <3>2. InHalf(s, 0)
      BY <2>1, <3>1
    <3>3. half = S!Driven(s, TRUE)
      BY <1>14, <2>2
    <3>4. InHalf(half, 1)
      BY <1>1, <3>2, <3>3, MiddleTakes
    <3>. QED
      BY <3>1, <3>4
  <2>3. CASE c # middle
    <3>1. WireHalf(s) = (IF c >= middle THEN 1 ELSE 0)
      BY <1>3, <1>4, <1>13, <2>3 DEF WireHalf
    <3>. QED
      BY <1>15, <2>1, <2>3, <3>1
  <2>. QED
    BY <2>2, <2>3
<1>11. CASE c < period
  <2>1. v = [half EXCEPT !.cycle = c]
    <3>1. ~(c >= period)
      BY <1>3, <1>4, <1>11, <1>13
    <3>. QED
      BY <1>17, <3>1
  <2>2. DOMAIN v = DOMAIN half /\ v.cycle = c /\ \A f \in SpiAll \ {"cycle"} : v[f] = half[f]
    BY <1>6, <2>1 DEF SpiAll
  <2>3. v.tx = half.tx /\ \A f \in WordFields : v[f] = half[f]
    BY <2>2 DEF WordFields, SpiAll
  <2>4. SpiKept(v, p, Carried)
    BY <1>6, <2>3, WordsSame
  <2>5. /\ v.bits = s.bits /\ v.size = s.size /\ v.cpol = s.cpol /\ v.cpha = s.cpha /\ v.scr = s.scr
        /\ v.cpsdvsr = s.cpsdvsr /\ v.steady = s.steady /\ v.last = s.last
    BY <1>7, <2>2 DEF SpiAll
  <2>6. v.shift = half.shift /\ v.mosi = half.mosi /\ v.sck = half.sck /\ v.seen = half.seen
    BY <2>2 DEF SpiAll
  <2>7. S!BitPeriod(v) = period
    BY <1>13, <2>5, SamePeriod
  <2>8. WireHalf(v) = IF c >= middle THEN 1 ELSE 0
    BY <1>13, <2>2, <2>7 DEF WireHalf
  <2>9. InHalf(half, WireHalf(v)) => InHalf(v, WireHalf(v))
    BY <1>7, <2>5, <2>6, SameHalf
  <2>10. c \in Nat
    BY <1>3, <1>13
  <2>11. ASSUME v.steady, v.bits > 0
         PROVE  S!BitPeriod(v) > 0 /\ v.cycle < S!BitPeriod(v) /\ InHalf(v, WireHalf(v))
    <3>1. InHalf(v, WireHalf(v))
      BY <1>9, <2>5, <2>8, <2>9, <2>11
    <3>2. S!BitPeriod(v) > 0 /\ v.cycle < S!BitPeriod(v)
      BY <1>4, <1>11, <2>2, <2>7
    <3>. QED
      BY <3>1, <3>2
  <2>12. SpiWave(v)
    <3>1. /\ v.bits \in Nat /\ v.size \in Nat \ {0} /\ v.cycle \in Nat /\ v.scr \in Nat /\ v.cpsdvsr \in Nat
          /\ v.cpol \in BOOLEAN /\ v.cpha \in BOOLEAN /\ v.steady \in BOOLEAN /\ v.last.seen = v.last.sent
      BY <1>3, <2>2, <2>5, <2>10
    <3>. QED
      BY <2>11, <3>1, Zenon DEF SpiWave
  <2>. QED
    BY <1>6, <2>2, <2>4, <2>12 DEF SpiInv, v
<1>12. CASE ~(c < period)
  <2>. DEFINE t == S!TickBit(half, answer)
              w == [S!TickBit(half, answer) EXCEPT !.cycle = 0]
  <2>1. v = S!Driven(w, FALSE)
    <3>1. c >= period
      BY <1>3, <1>4, <1>12, <1>13
    <3>. QED
      BY <1>16, <3>1
  <2>2. PICK X : SpiKept(t, p, X)
    BY <1>6, TickKeeps
  <2>3. DOMAIN t = DOMAIN half
    BY <1>6, TickKeeps
  <2>4. s.cycle >= middle
    BY <1>3, <1>4, <1>12, <1>13
  <2>5. half = s
    <3>1. c # middle
      BY <1>3, <1>4, <1>12, <1>13
    <3>. QED
      BY <1>15, <3>1
  <2>6. s.steady /\ s.bits > 0 => InHalf(s, 1)
    <3>1. WireHalf(s) = 1
      BY <1>13, <2>4 DEF WireHalf
    <3>. QED
      BY <1>5, <3>1
  <2>7. SpiWave(S!Driven(w, FALSE))
    BY <1>1, <1>6, <1>13, <2>3, <2>5, <2>6, PeriodEnds
  <2>. HIDE DEF t
  <2>8. DOMAIN w = DOMAIN t /\ \A f \in WordFields : w[f] = t[f]
    BY <1>6, <2>3 DEF t, WordFields, SpiAll
  <2>. HIDE DEF w
  <2>9. SpiKept(w, p, X) /\ SpiAll \subseteq DOMAIN w
    BY <1>6, <2>2, <2>3, <2>8, WordsSame
  <2>10. SpiKept(S!Driven(w, FALSE), p, X) /\ SpiAll \subseteq DOMAIN S!Driven(w, FALSE)
    BY <2>9, DrivenKeeps
  <2>. QED
    BY <2>1, <2>7, <2>10 DEF SpiInv, v
<1>. QED
  BY <1>11, <1>12 DEF v

\* A word for SSPDR goes to the end of the queue.
LEMMA SpiWrites ==
    ASSUME NEW s, NEW p, SpiInv(s, p), Len(s.tx) < Depth, NEW w,
           NEW x, DOMAIN x = DOMAIN s, x.tx = Append(s.tx, S!Frame(p.written + 1, w)),
           \A f \in SpiAll \ {"tx", "crowded"} : x[f] = s[f], x.crowded = (s.crowded \/ S!InFlight(x) > Depth),
           NEW q, DOMAIN q = DOMAIN p, q.read = p.read, q.written = p.written + 1
    PROVE  SpiInv(x, q)
<1>1. SpiAll \subseteq DOMAIN s /\ SpiWave(s)
  BY DEF SpiInv
<1>2. PICK Some : SpiKept(s, p, Some)
  BY DEF SpiInv
<1>. DEFINE Carried == Some \cup {w}
            one == S!Frame(p.written + 1, w)
            out == Names(s.tx)
            in == Names(s.rx)
<1>3. SpiKept(s, p, Carried)
  BY <1>2, MoreWords
<1>4. p.written \in Nat /\ p.read \in Seq(Nat) /\ {"read", "written"} \subseteq DOMAIN p
  BY <1>3 DEF SpiKept
<1>5. one \in Frames(Carried) /\ one.id = p.written + 1 /\ p.written + 1 \in Nat
  BY <1>4 DEF S!Frame, Frames
<1>11. x.tx = Append(s.tx, one)
  OBVIOUS
<1>. HIDE DEF Carried, one
<1>7. \A X : \A g \in Frames(X) : g.id \in Nat
  BY DEF Frames
<1>8. s.tx \in Seq(Frames(Carried)) /\ s.rx \in Seq(Frames(Carried)) /\ s.shift.id \in Nat
  BY <1>3, <1>7 DEF SpiKept
<1>9. out \in Seq(Nat) /\ in \in Seq(Nat) /\ Names(Append(s.tx, one)) = Append(out, p.written + 1)
  BY <1>5, <1>7, <1>8, NamesTyped, NamesOf
<1>10. Append(s.tx, one) \in Seq(Frames(Carried)) /\ Len(Append(s.tx, one)) = Len(s.tx) + 1
  BY <1>5, <1>8, AppendProperties
<1>13. x.rx = s.rx /\ x.shift = s.shift /\ x.bits = s.bits /\ x.size = s.size /\ x.lost = s.lost
  BY DEF SpiAll
<1>15. x.crowded \in BOOLEAN /\ (s.crowded => x.crowded) /\ (x.crowded \/ S!InFlight(x) <= Depth)
  <2>1. s.crowded \in BOOLEAN /\ x.crowded = (s.crowded \/ S!InFlight(x) > Depth)
    BY <1>3 DEF SpiKept
  <2>2. Depth \in Nat /\ S!InFlight(x) \in Nat
    <3>1. Len(x.tx) \in Nat /\ Len(x.rx) \in Nat
      BY <1>8, <1>10, <1>11, <1>13, LenProperties
    <3>2. PICK n \in Nat : n = Len(x.tx)
      BY <3>1
    <3>3. PICK m \in Nat : m = Len(x.rx)
      BY <3>1
    <3>4. S!InFlight(x) = n + m + (IF x.bits > 0 THEN 1 ELSE 0)
      BY <3>2, <3>3, BusyOrNot
    <3>. QED
      BY <3>4, UartAssumption
  <2>3. S!InFlight(x) > Depth \/ S!InFlight(x) <= Depth
    BY <2>2
  <2>. QED
    BY <2>1, <2>3, Zenon
<1>16. q.read = p.read /\ q.written = p.written + 1 /\ DOMAIN q = DOMAIN p
  OBVIOUS
<1>17. Ordered(SpiWords(x, q), q.written, x.lost)
  <2>1. Ordered(SpiWords(s, p), p.written, s.lost) /\ s.lost \in SUBSET (1..p.written)
    BY <1>3 DEF SpiKept
  <2>2. SpiWords(x, q) = Append(SpiWords(s, p), p.written + 1) /\ SpiWords(s, p) \in Seq(Nat)
    <3>1. CASE s.bits > 0
      <4>1. /\ SpiWords(s, p) = Busy(p.read, in, s.shift.id, out)
            /\ SpiWords(x, q) = Busy(p.read, in, s.shift.id, Append(out, p.written + 1))
        BY <1>9, <1>11, <1>13, <1>16, <3>1, BusyOrNot
      <4>. HIDE DEF in, out
      <4>2. out \in Seq(Nat) /\ in \in Seq(Nat)
        BY <1>9
      <4>3. /\ Busy(p.read, in, s.shift.id, out) \in Seq(Nat)
            /\ \A n \in Nat : Busy(p.read, in, s.shift.id, Append(out, n)) = Append(Busy(p.read, in, s.shift.id, out), n)
        BY <1>4, <1>8, <4>2, BusyJoined, ZenonT(60)
      <4>. QED
        BY <1>5, <4>1, <4>3
    <3>2. CASE ~(s.bits > 0)
      <4>1. /\ SpiWords(s, p) = Idle(p.read, in, out)
            /\ SpiWords(x, q) = Idle(p.read, in, Append(out, p.written + 1))
        BY <1>9, <1>11, <1>13, <1>16, <3>2, BusyOrNot
      <4>. HIDE DEF in, out
      <4>2. out \in Seq(Nat) /\ in \in Seq(Nat)
        BY <1>9
      <4>3. /\ Idle(p.read, in, out) \in Seq(Nat)
            /\ \A n \in Nat : Idle(p.read, in, Append(out, n)) = Append(Idle(p.read, in, out), n)
        BY <1>4, <1>8, <4>2, IdleJoined
      <4>. QED
        BY <1>5, <4>1, <4>3
    <3>. QED
      BY <3>1, <3>2
  <2>. QED
    BY <1>4, <1>13, <1>16, <2>1, <2>2, OrderGrows
<1>18. x.lost \in SUBSET (1..q.written)
  <2>1. s.lost \in SUBSET (1..p.written)
    BY <1>3 DEF SpiKept
  <2>2. 1..p.written \subseteq 1..(p.written + 1)
    BY <1>4
  <2>. QED
    BY <1>13, <1>16, <2>1, <2>2
<1>19. Len(x.tx) <= Depth
  <2>1. Len(s.tx) \in Nat /\ Depth \in Nat
    BY <1>8, LenProperties, UartAssumption
  <2>. QED
    BY <1>10, <1>11, <2>1
<1>20. SpiKept(x, q, Carried)
  <2>1. s.shift \in Frames(Carried) /\ s.bits \in Nat /\ s.size \in Nat \ {0} /\ (s.lost # {} => s.crowded)
          /\ Len(s.rx) <= Depth
    BY <1>3 DEF SpiKept
  <2>. QED
    BY <1>4, <1>5, <1>8, <1>10, <1>11, <1>13, <1>15, <1>16, <1>17, <1>18, <1>19, <2>1 DEF SpiKept
<1>21. \A f \in WireFields : x[f] = s[f]
  BY DEF WireFields, SpiAll
<1>22. SpiWave(x)
  BY <1>1, <1>21, WavesSame
<1>. QED
  BY <1>1, <1>11, <1>20, <1>22 DEF SpiInv

\* A word read from SSPDR is the first of the FIFO.
LEMMA SpiReads ==
    ASSUME NEW s, NEW p, SpiInv(s, p), s.rx # <<>>,
           NEW x, DOMAIN x = DOMAIN s, x.rx = Tail(s.rx), \A f \in SpiAll \ {"rx"} : x[f] = s[f],
           NEW q, DOMAIN q = DOMAIN p, q.read = Append(p.read, Head(s.rx).id), q.written = p.written
    PROVE  SpiInv(x, q)
<1>1. SpiAll \subseteq DOMAIN s /\ SpiWave(s)
  BY DEF SpiInv
<1>2. PICK Carried : SpiKept(s, p, Carried)
  BY DEF SpiInv
<1>. DEFINE out == Names(s.tx)
            in == Names(s.rx)
<1>4. p.written \in Nat /\ p.read \in Seq(Nat) /\ {"read", "written"} \subseteq DOMAIN p
  BY <1>2 DEF SpiKept
<1>7. \A X : \A g \in Frames(X) : g.id \in Nat
  BY DEF Frames
<1>8. s.tx \in Seq(Frames(Carried)) /\ s.rx \in Seq(Frames(Carried)) /\ s.shift.id \in Nat
  BY <1>2, <1>7 DEF SpiKept
<1>9. in \in Seq(Nat) /\ in # <<>> /\ Head(in) = Head(s.rx).id /\ Names(Tail(s.rx)) = Tail(in)
  BY <1>7, <1>8, NamesTyped, NamesOf
<1>10. Tail(s.rx) \in Seq(Frames(Carried)) /\ Len(Tail(s.rx)) = Len(s.rx) - 1
  BY <1>8, HeadTailProperties
<1>11. x.rx = Tail(s.rx)
  OBVIOUS
<1>13. x.tx = s.tx /\ x.shift = s.shift /\ x.bits = s.bits /\ x.size = s.size /\ x.lost = s.lost /\ x.crowded = s.crowded
  BY DEF SpiAll
<1>16. q.read = Append(p.read, Head(in)) /\ q.written = p.written /\ DOMAIN q = DOMAIN p
  BY <1>9
<1>14. SpiWords(x, q) = SpiWords(s, p) /\ q.read \in Seq(Nat)
  <2>1. CASE s.bits > 0
    <3>1. /\ SpiWords(s, p) = Busy(p.read, in, s.shift.id, out)
          /\ SpiWords(x, q) = Busy(q.read, Tail(in), s.shift.id, out)
      BY <1>9, <1>11, <1>13, <2>1, BusyOrNot
    <3>. HIDE DEF in, out
    <3>. QED
      BY <1>4, <1>9, <1>16, <3>1, Passes
  <2>2. CASE ~(s.bits > 0)
    <3>1. /\ SpiWords(s, p) = Idle(p.read, in, out)
          /\ SpiWords(x, q) = Idle(q.read, Tail(in), out)
      BY <1>9, <1>11, <1>13, <2>2, BusyOrNot
    <3>. HIDE DEF in, out
    <3>. QED
      BY <1>4, <1>9, <1>16, <3>1, Passes, ZenonT(60)
  <2>. QED
    BY <2>1, <2>2
<1>15. s.crowded \/ S!InFlight(x) <= Depth
  <2>1. Len(s.tx) \in Nat /\ Len(s.rx) \in Nat \ {0} /\ Depth \in Nat
    BY <1>8, LenProperties, EmptySeq, UartAssumption
  <2>2. PICK n \in Nat : n = Len(s.tx)
    BY <2>1
  <2>3. PICK m \in Nat \ {0} : m = Len(s.rx)
    BY <2>1
  <2>4. m - 1 \in Nat /\ m - 1 = Len(x.rx)
    BY <1>10, <1>11, <2>3
  <2>5. S!InFlight(s) = n + m + (IF s.bits > 0 THEN 1 ELSE 0)
    BY <2>2, <2>3, BusyOrNot
  <2>6. S!InFlight(x) = n + (m - 1) + (IF s.bits > 0 THEN 1 ELSE 0)
    BY <1>13, <2>2, <2>4, BusyOrNot
  <2>7. S!InFlight(s) <= Depth => S!InFlight(x) <= Depth
    BY <2>1, <2>5, <2>6
  <2>. QED
    BY <1>2, <2>7 DEF SpiKept
<1>17. Len(x.rx) <= Depth
  <2>1. Len(s.rx) \in Nat /\ Depth \in Nat /\ Len(s.rx) <= Depth
    BY <1>2, <1>8, LenProperties, UartAssumption DEF SpiKept
  <2>. QED
    BY <1>10, <1>11, <2>1
<1>20. SpiKept(x, q, Carried)
  <2>1. /\ s.shift \in Frames(Carried) /\ s.bits \in Nat /\ s.size \in Nat \ {0} /\ (s.lost # {} => s.crowded)
        /\ Len(s.tx) <= Depth /\ s.lost \in SUBSET (1..p.written) /\ s.crowded \in BOOLEAN
        /\ Ordered(SpiWords(s, p), p.written, s.lost)
    BY <1>2 DEF SpiKept
  <2>. QED
    BY <1>4, <1>8, <1>10, <1>11, <1>13, <1>14, <1>15, <1>16, <1>17, <2>1 DEF SpiKept
<1>21. \A f \in WireFields : x[f] = s[f]
  BY DEF WireFields, SpiAll
<1>22. SpiWave(x)
  BY <1>1, <1>21, WavesSame
<1>. QED
  BY <1>1, <1>11, <1>20, <1>22 DEF SpiInv

\* Nothing under way, and nothing yet passed
LEMMA SpiStarts ==
    ASSUME NEW s, SpiAll \subseteq DOMAIN s, NEW sck, NEW mosi, \A f \in SpiAll : s[f] = S!Cleared(sck, mosi)[f],
           NEW p, {"read", "written"} \subseteq DOMAIN p, p.read = <<>>, p.written = 0
    PROVE  SpiInv(s, p)
<1>1. /\ s.tx = <<>> /\ s.rx = <<>> /\ s.shift = S!Frame(0, 0) /\ s.bits = 0 /\ s.size = 1 /\ s.cycle = 0 /\ s.scr = 0
      /\ s.cpsdvsr = 0 /\ s.cpol = FALSE /\ s.cpha = FALSE /\ s.steady = FALSE /\ s.crowded = FALSE /\ s.lost = {}
      /\ s.last = [seen |-> <<>>, sent |-> <<>>]
  BY DEF SpiAll, S!Cleared
<1>. DEFINE Carried == {0}
<1>2. s.tx \in Seq(Frames(Carried)) /\ s.rx \in Seq(Frames(Carried)) /\ s.shift \in Frames(Carried) /\ p.read \in Seq(Nat)
  BY <1>1 DEF Frames, S!Frame
<1>3. Names(<<>>) = <<>>
  BY DEF Names
<1>4. SpiWords(s, p) = Idle(<<>>, <<>>, <<>>) /\ S!InFlight(s) = 0
  <2>1. ~(s.bits > 0)
    BY <1>1
  <2>2. SpiWords(s, p) = Idle(<<>>, <<>>, <<>>)
    BY <1>1, <1>3, <2>1, BusyOrNot
  <2>3. 0 \in Nat /\ 0 = Len(s.tx) /\ 0 = Len(s.rx)
    BY <1>1
  <2>4. S!InFlight(s) = 0 + 0 + (IF s.bits > 0 THEN 1 ELSE 0)
    BY <2>3, BusyOrNot
  <2>. QED
    BY <2>1, <2>2, <2>4
<1>5. Idle(<<>>, <<>>, <<>>) = <<>>
  <2>1. <<>> \in Seq(Nat)
    OBVIOUS
  <2>. QED
    BY <2>1, ConcatEmptySeq DEF Idle
<1>6. Ordered(<<>>, 0, {})
  BY DEF Ordered
<1>7. SpiKept(s, p, Carried)
  <2>1. Depth \in Nat /\ 0 <= Depth /\ Len(<<>>) = 0
    BY UartAssumption
  <2>2. Ordered(SpiWords(s, p), p.written, s.lost)
    BY <1>1, <1>4, <1>5, <1>6
  <2>. HIDE DEF Carried
  <2>. QED
    <3>1. Len(s.tx) <= Depth /\ Len(s.rx) <= Depth /\ S!InFlight(s) <= Depth
      BY <1>1, <1>4, <2>1
    <3>2. s.lost \in SUBSET (1..p.written) /\ s.lost = {} /\ s.bits \in Nat /\ s.size \in Nat \ {0}
      BY <1>1
    <3>3. p.written \in Nat /\ s.crowded \in BOOLEAN
      <4>1. p.written \in Nat
        OBVIOUS
      <4>. QED
        BY <1>1, <4>1, Zenon
    <3>. QED
      BY <1>2, <2>2, <3>1, <3>2, <3>3, Zenon DEF SpiKept
<1>8. SpiWave(s)
  <2>1. /\ s.bits \in Nat /\ s.size \in Nat \ {0} /\ s.cycle \in Nat /\ s.scr \in Nat /\ s.cpsdvsr \in Nat
        /\ ~(s.bits > 0)
    BY <1>1
  <2>2. s.cpol \in BOOLEAN /\ s.cpha \in BOOLEAN /\ s.steady \in BOOLEAN
    BY <1>1
  <2>3. s.last.seen = s.last.sent
    BY <1>1
  <2>. QED
    BY <2>1, <2>2, <2>3, Zenon DEF SpiWave
<1>. QED
  BY <1>7, <1>8 DEF SpiInv

LEMMA SpiBegins == ASSUME S!Init PROVE SpiInv(dev, past)
<1>1. PICK bounds \in SpiTraffic : dev = S!Cleared(FALSE, FALSE) /\ past = S!Fresh(bounds)
  BY DEF S!Init
<1>2. {"read", "written"} \subseteq DOMAIN past /\ past.read = <<>> /\ past.written = 0
  BY <1>1 DEF S!Fresh
<1>3. SpiAll \subseteq DOMAIN dev
  BY <1>1 DEF S!Cleared, SpiAll
<1>. QED
  BY <1>1, <1>2, <1>3, SpiStarts

\* Every step of the SPI keeps the words and the wires.
LEMMA SpiSettles ==
    ASSUME SpiInv(dev, past), S!WriteSettings
    PROVE  SpiInv(dev', past')
<1>. DEFINE Harmless == {"sse", "lbm", "imsc", "txdma", "rxdma"}
            put(s) == [f \in DOMAIN dev |-> IF f \in DOMAIN s THEN s[f] ELSE dev[f]]
            new(s) == [put(s) EXCEPT !.steady = @ /\ DOMAIN s \subseteq Harmless]
<1>1. PICK s \in SpiSettings :
        /\ dev' = IF DOMAIN s \cap {"sse", "lbm", "imsc"} # {} THEN S!RefreshIrq(new(s)) ELSE new(s)
        /\ past' = [past EXCEPT !.changes = @ + 1]
  BY DEF S!WriteSettings
<1>. DEFINE x == new(s)
<1>2. SpiAll \subseteq DOMAIN dev /\ SpiWave(dev)
  BY DEF SpiInv
<1>3. PICK Carried : SpiKept(dev, past, Carried)
  BY DEF SpiInv
<1>4. DOMAIN s \subseteq {"cpol", "cpha", "sse", "lbm", "txdma", "rxdma", "scr", "cpsdvsr", "size", "imsc"}
  BY SpiSettingsAssumption
<1>5. DOMAIN put(s) = DOMAIN dev /\ \A f \in DOMAIN dev : put(s)[f] = IF f \in DOMAIN s THEN s[f] ELSE dev[f]
  OBVIOUS
<1>. HIDE DEF put
<1>6. /\ DOMAIN x = DOMAIN dev
      /\ \A f \in SpiAll \ {"steady"} : x[f] = IF f \in DOMAIN s THEN s[f] ELSE dev[f]
      /\ x.steady = (dev.steady /\ DOMAIN s \subseteq Harmless)
  BY <1>2, <1>4, <1>5 DEF SpiAll
<1>. HIDE DEF new, Harmless
<1>7. /\ x.tx = dev.tx /\ x.rx = dev.rx /\ x.shift = dev.shift /\ x.bits = dev.bits /\ x.crowded = dev.crowded
      /\ x.lost = dev.lost /\ x.cycle = dev.cycle /\ x.sck = dev.sck /\ x.mosi = dev.mosi /\ x.seen = dev.seen
      /\ x.last = dev.last
  BY <1>4, <1>6 DEF SpiAll
<1>8. x.size \in Nat \ {0} /\ x.scr \in Nat /\ x.cpsdvsr \in Nat /\ x.cpol \in BOOLEAN /\ x.cpha \in BOOLEAN
  <2>1. dev.size \in Nat \ {0} /\ dev.scr \in Nat /\ dev.cpsdvsr \in Nat /\ dev.cpol \in BOOLEAN /\ dev.cpha \in BOOLEAN
    BY <1>2 DEF SpiWave
  <2>2. \A f \in {"size", "scr", "cpsdvsr", "cpol", "cpha"} : x[f] = IF f \in DOMAIN s THEN s[f] ELSE dev[f]
    BY <1>6 DEF SpiAll
  <2>3. \A f \in DOMAIN s : /\ f = "size" => s[f] \in Nat \ {0}
                            /\ f \in {"scr", "cpsdvsr"} => s[f] \in Nat
                            /\ f \in {"cpol", "cpha"} => s[f] \in BOOLEAN
    BY SpiSettingsAssumption
  <2>. HIDE DEF x
  <2>. QED
    BY <2>1, <2>2, <2>3
<1>9. past'.read = past.read /\ past'.written = past.written /\ DOMAIN past' = DOMAIN past
  BY <1>1, <1>3 DEF SpiKept
<1>. HIDE DEF x
<1>10. SpiKept(x, past', Carried)
  <2>1. SpiWords(x, past') = SpiWords(dev, past)
    BY <1>7, <1>9 DEF SpiWords
  <2>2. S!InFlight(x) = S!InFlight(dev)
    BY <1>7 DEF S!InFlight
  <2>. QED
    BY <1>3, <1>7, <1>8, <1>9, <2>1, <2>2 DEF SpiKept
<1>11. SpiWave(x)
  <2>1. dev.bits \in Nat /\ dev.cycle \in Nat /\ dev.steady \in BOOLEAN /\ dev.last.seen = dev.last.sent
    BY <1>2 DEF SpiWave
  <2>2. x.steady \in BOOLEAN
    BY <1>6
  <2>3. ASSUME x.steady, x.bits > 0
        PROVE  S!BitPeriod(x) > 0 /\ x.cycle < S!BitPeriod(x) /\ InHalf(x, WireHalf(x))
    <3>1. dev.steady /\ DOMAIN s \subseteq Harmless
      BY <1>6, <2>3
    <3>2. x.size = dev.size /\ x.scr = dev.scr /\ x.cpsdvsr = dev.cpsdvsr /\ x.cpol = dev.cpol /\ x.cpha = dev.cpha
      BY <1>6, <3>1 DEF Harmless, SpiAll
    <3>3. S!BitPeriod(dev) > 0 /\ dev.cycle < S!BitPeriod(dev) /\ InHalf(dev, WireHalf(dev))
      BY <1>2, <1>7, <2>3, <3>1 DEF SpiWave
    <3>4. S!BitPeriod(x) = S!BitPeriod(dev)
      BY <3>2, SamePeriod
    <3>5. WireHalf(x) = WireHalf(dev)
      BY <1>7, <3>4 DEF WireHalf
    <3>6. InHalf(x, WireHalf(dev))
      BY <1>7, <3>2, <3>3, SameHalf
    <3>. QED
      BY <1>7, <3>3, <3>4, <3>5, <3>6
  <2>. QED
    BY <1>7, <1>8, <2>1, <2>2, <2>3 DEF SpiWave
<1>12. SpiInv(x, past')
  BY <1>2, <1>6, <1>10, <1>11 DEF SpiInv
<1>13. SpiInv(S!RefreshIrq(x), past')
  BY <1>12, RefreshKeeps
<1>. QED
  BY <1>1, <1>12, <1>13 DEF x

LEMMA SpiStepKeeps ==
    ASSUME SpiInv(dev, past), S!Next
    PROVE  SpiInv(dev', past')
<1>1. SpiAll \subseteq DOMAIN dev /\ {"read", "written"} \subseteq DOMAIN past
  BY DEF SpiInv, SpiKept
<1>2. CASE S!Clock
  <2>1. PICK answer : S!BitPeriod(dev) > 0 /\ dev' = Cycled(dev, answer) /\ past' = past
    BY <1>2 DEF S!Clock, Cycled, Middle
  <2>. QED
    BY <2>1, SpiClocked
<1>3. ASSUME S!WriteData PROVE SpiInv(dev', past')
  <2>1. CASE dev' = S!RefreshIrq(dev) /\ past' = past
    BY <2>1, RefreshKeeps
  <2>2. CASE ~(dev' = S!RefreshIrq(dev) /\ past' = past)
    <3>1. PICK word : /\ Len(dev.tx) < Depth
                      /\ LET queued == [dev EXCEPT !.tx = Append(@, S!Frame(past.written + 1, word % 2 ^ dev.size))]
                         IN  dev' = S!RefreshIrq([queued EXCEPT !.crowded = @ \/ S!InFlight(queued) > Depth])
                      /\ past' = [past EXCEPT !.written = @ + 1]
      BY <1>3, <2>2 DEF S!WriteData
    <3>. DEFINE w == word % 2 ^ dev.size
                one == S!Frame(past.written + 1, w)
                v == [dev EXCEPT !.tx = Append(@, one)]
                over == v.crowded \/ S!InFlight(v) > Depth
                x == [v EXCEPT !.crowded = over]
    <3>2. dev' = S!RefreshIrq(x) /\ one = S!Frame(past.written + 1, w)
      BY <3>1
    <3>. HIDE DEF w, one
    <3>3. /\ DOMAIN v = DOMAIN dev /\ v.tx = Append(dev.tx, one) /\ \A f \in SpiAll \ {"tx"} : v[f] = dev[f]
      BY <1>1 DEF SpiAll
    <3>4. over = (v.crowded \/ S!InFlight(v) > Depth)
      OBVIOUS
    <3>. HIDE DEF v, over
    <3>5. DOMAIN x = DOMAIN v /\ x.crowded = over /\ \A f \in SpiAll \ {"crowded"} : x[f] = v[f]
      BY <1>1, <3>3 DEF SpiAll
    <3>. HIDE DEF x
    <3>6. x.tx = v.tx /\ x.rx = v.rx /\ x.bits = v.bits /\ v.crowded = dev.crowded
      BY <3>3, <3>5 DEF SpiAll
    <3>7. S!InFlight(x) = S!InFlight(v)
      BY <3>6 DEF S!InFlight
    <3>8. x.crowded = (dev.crowded \/ S!InFlight(x) > Depth)
      BY <3>4, <3>5, <3>6, <3>7
    <3>9. \A f \in SpiAll \ {"tx", "crowded"} : x[f] = dev[f]
      BY <3>3, <3>5
    <3>10. DOMAIN past' = DOMAIN past /\ past'.read = past.read /\ past'.written = past.written + 1
      BY <1>1, <3>1
    <3>11. SpiInv(x, past')
      <4>1. Len(dev.tx) < Depth
        BY <3>1
      <4>2. DOMAIN x = DOMAIN dev /\ x.tx = Append(dev.tx, S!Frame(past.written + 1, w))
        BY <3>2, <3>3, <3>5, <3>6
      <4>. QED
        BY <3>8, <3>9, <3>10, <4>1, <4>2, SpiWrites
    <3>. QED
      BY <3>2, <3>11, RefreshKeeps
  <2>. QED
    BY <2>1, <2>2
<1>4. ASSUME S!ReadData PROVE SpiInv(dev', past')
  <2>. DEFINE x == [dev EXCEPT !.rx = Tail(@)]
  <2>1. dev.rx # <<>> /\ dev' = S!RefreshIrq(x) /\ past' = [past EXCEPT !.read = Append(@, Head(dev.rx).id)]
    BY <1>4 DEF S!ReadData
  <2>2. DOMAIN x = DOMAIN dev /\ x.rx = Tail(dev.rx) /\ \A f \in SpiAll \ {"rx"} : x[f] = dev[f]
    BY <1>1 DEF SpiAll
  <2>. HIDE DEF x
  <2>3. DOMAIN past' = DOMAIN past /\ past'.read = Append(past.read, Head(dev.rx).id) /\ past'.written = past.written
    BY <1>1, <2>1
  <2>4. SpiInv(x, past')
    BY <2>1, <2>2, <2>3, SpiReads
  <2>. QED
    BY <2>1, <2>4, RefreshKeeps
<1>5. CASE S!WriteSettings
  BY <1>5, SpiSettles
<1>6. CASE S!EnterHandler \/ S!ResetCore \/ S!WriteNvic
  <2>1. past' = past /\ \E p, q : dev' = [dev EXCEPT !.pend = p, !.touched = q]
    BY <1>6 DEF S!EnterHandler, S!ResetCore, S!WriteNvic
  <2>2. DOMAIN dev' = DOMAIN dev /\ \A f \in WordFields \cup WireFields : dev'[f] = dev[f]
    BY <1>1, <2>1 DEF SpiAll, WordFields, WireFields
  <2>3. SpiWave(dev')
    BY <2>2, WavesSame DEF SpiInv
  <2>4. PICK Carried : SpiKept(dev, past, Carried)
    BY DEF SpiInv
  <2>5. SpiKept(dev', past, Carried)
    BY <2>2, <2>4, WordsSame
  <2>. QED
    BY <1>1, <2>1, <2>2, <2>3, <2>5 DEF SpiInv
<1>7. CASE S!Reset
  <2>. DEFINE x == S!Cleared(dev.sck, dev.mosi)
  <2>1. dev' = S!RefreshIrq(x) /\ past' = [S!Fresh(past.bounds) EXCEPT !.changes = past.changes]
    BY <1>7 DEF S!Reset
  <2>2. {"read", "written"} \subseteq DOMAIN past' /\ past'.read = <<>> /\ past'.written = 0
    BY <2>1 DEF S!Fresh
  <2>3. SpiAll \subseteq DOMAIN x
    BY DEF S!Cleared, SpiAll
  <2>4. SpiInv(x, past')
    BY <2>2, <2>3, SpiStarts
  <2>. QED
    BY <2>1, <2>4, RefreshKeeps
<1>. QED
  BY <1>2, <1>3, <1>4, <1>5, <1>6, <1>7 DEF S!Next, S!DmaPaced

\* So what the SPI says of its words is so.
LEMMA SpiAccounted == ASSUME SpiInv(dev, past) PROVE S!Accounted /\ S!SampledAsSent
<1>1. PICK Carried : SpiKept(dev, past, Carried)
  BY DEF SpiInv
<1>2. \A X : \A g \in Frames(X) : g.id \in Nat
  BY DEF Frames
<1>. DEFINE out == Names(dev.tx)
            in == Names(dev.rx)
<1>3. past.read \in Seq(Nat) /\ in \in Seq(Nat) /\ Ordered(SpiWords(dev, past), past.written, dev.lost)
  BY <1>1, <1>2, NamesTyped DEF SpiKept
<1>4. S!Ids(dev.rx) = in /\ S!Ids(dev.tx) = out
  BY DEF S!Ids, Names
<1>5. SpiWords(dev, past)
        = ((past.read \o in) \o (IF dev.bits > 0 THEN <<dev.shift.id>> ELSE <<>>)) \o out
  <2>1. CASE dev.bits > 0
    BY <2>1 DEF SpiWords, Busy
  <2>2. CASE ~(dev.bits > 0)
    <3>1. ((past.read \o in) \o <<>>) \o out = Idle(past.read, in, out)
      BY <1>3, NothingBetween
    <3>. QED
      BY <2>2, <3>1 DEF SpiWords
  <2>. QED
    BY <2>1, <2>2
<1>. HIDE DEF in, out
<1>6. S!InOrder(SpiWords(dev, past), past.written, dev.lost)
  BY <1>3 DEF Ordered, S!InOrder
<1>7. S!Accounted
  BY <1>1, <1>4, <1>5, <1>6 DEF S!Accounted, SpiKept
<1>. QED
  BY <1>7 DEF SpiInv, SpiWave, S!SampledAsSent

-----------------------------------------------------------------------------
(* Commands, answers and bytes of I2C *)

\* What is in order stays so as its first part takes from the second, as a number comes at
\* the end, and as a number is lost on its way.
LEMMA LineMoves ==
    ASSUME NEW a \in Seq(Nat), NEW b \in Seq(Nat), b # <<>>, NEW n, NEW lost, Ordered(a \o b, n, lost)
    PROVE  /\ Append(a, Head(b)) \in Seq(Nat) /\ Tail(b) \in Seq(Nat)
           /\ Ordered(Append(a, Head(b)) \o Tail(b), n, lost)
BY FirstMoves

LEMMA LineGrows ==
    ASSUME NEW a \in Seq(Nat), NEW b \in Seq(Nat), NEW n \in Nat, NEW lost \in SUBSET (1..n), Ordered(a \o b, n, lost)
    PROVE  /\ n + 1 \in Nat /\ lost \in SUBSET (1..n + 1) /\ Append(b, n + 1) \in Seq(Nat)
           /\ Ordered(a \o Append(b, n + 1), n + 1, lost)
<1>1. a \o b \in Seq(Nat)
  BY ConcatProperties
<1>2. Ordered(Append(a \o b, n + 1), n + 1, lost)
  BY <1>1, OrderGrows
<1>3. a \o Append(b, n + 1) = Append(a \o b, n + 1)
  <2>1. n + 1 \in Nat
    OBVIOUS
  <2>. QED
    BY <2>1, EndJoins
<1>4. Append(b, n + 1) \in Seq(Nat) /\ n + 1 \in Nat /\ 1..n \subseteq 1..n + 1
  BY AppendProperties
<1>. QED
  BY <1>2, <1>3, <1>4

LEMMA LineLoses ==
    ASSUME NEW s, NEW n \in Nat, NEW lost \in SUBSET (1..n), Ordered(s, n, lost)
    PROVE  Ordered(s, n + 1, lost \cup {n + 1}) /\ lost \cup {n + 1} \in SUBSET (1..n + 1)
<1>1. (1..n + 1) \ (lost \cup {n + 1}) = (1..n) \ lost
  OBVIOUS
<1>. QED
  BY <1>1 DEF Ordered

-----------------------------------------------------------------------------
(* The bytes of the I2C controller *)

Commands == [id : Nat, rd : BOOLEAN, stop : BOOLEAN]

Asked(s) == {n \in DOMAIN s : s[n].rd}

LEMMA AskedCounted ==
    ASSUME NEW s \in Seq(Commands)
    PROVE  IsFiniteSet(Asked(s)) /\ Cardinality(Asked(s)) \in Nat
<1>1. DOMAIN s = 1..Len(s) /\ Len(s) \in Nat
  BY LenProperties
<1>2. IsFiniteSet(1..Len(s))
  BY <1>1, FS_Interval
<1>3. Asked(s) \in SUBSET (1..Len(s))
  BY <1>1 DEF Asked
<1>. QED
  BY <1>2, <1>3, FS_Subset, FS_CardinalityType

\* Once a command is run its byte is not asked for any more.
LEMMA AskedLess ==
    ASSUME NEW s \in Seq(Commands), s # <<>>
    PROVE  /\ Cardinality(Asked(Tail(s))) <= Cardinality(Asked(s))
           /\ Head(s).rd => Cardinality(Asked(Tail(s))) <= Cardinality(Asked(s)) - 1 /\ Cardinality(Asked(s)) > 0
<1>. DEFINE t == Tail(s)
            f == [n \in Asked(t) |-> n + 1]
            B == Asked(s) \ {1}
<1>1. Len(s) \in Nat \ {0} /\ DOMAIN s = 1..Len(s) /\ Head(s) = s[1]
  BY EmptySeq, LenProperties
<1>2. t \in Seq(Commands) /\ Len(t) = Len(s) - 1 /\ \A i \in 1..Len(t) : t[i] = s[i + 1]
  BY HeadTailProperties
<1>3. DOMAIN t = 1..Len(t)
  BY <1>2, LenProperties
<1>. HIDE DEF t
<1>4. f \in Injection(Asked(t), B)
  <2>1. ASSUME NEW n \in Asked(t) PROVE n + 1 \in B
    BY <1>1, <1>2, <1>3 DEF Asked
  <2>2. \A n \in Asked(t) : n \in Nat
    BY <1>3 DEF Asked
  <2>3. f \in [Asked(t) -> B]
    BY <2>1
  <2>4. \A m, n \in Asked(t) : f[m] = f[n] => m = n
    BY <2>2
  <2>. QED
    BY <2>3, <2>4 DEF Injection, IsInjective
<1>5. IsFiniteSet(Asked(s)) /\ Cardinality(Asked(s)) \in Nat /\ Cardinality(Asked(t)) \in Nat
  BY <1>2, AskedCounted
<1>6. IsFiniteSet(B) /\ Cardinality(B) = IF 1 \in Asked(s) THEN Cardinality(Asked(s)) - 1 ELSE Cardinality(Asked(s))
  BY <1>5, FS_RemoveElement
<1>7. Cardinality(Asked(t)) <= Cardinality(B)
  BY <1>4, <1>6, FS_Injection
<1>8. Head(s).rd => 1 \in Asked(s)
  BY <1>1 DEF Asked
<1>. HIDE DEF B
<1>9. CASE 1 \in Asked(s)
  BY <1>5, <1>6, <1>7, <1>9 DEF t
<1>10. CASE 1 \notin Asked(s)
  BY <1>5, <1>6, <1>7, <1>8, <1>10 DEF t
<1>. QED
  BY <1>9, <1>10

\* Commands are run in order,
Ran(c, p) ==
    /\ c.cmds \in Seq(Commands) /\ Len(c.cmds) <= Depth /\ p.queued \in Nat /\ p.ran \in Seq(Nat)
    /\ Ordered(p.ran \o Names(c.cmds), p.queued, {})
    /\ (c.left # 0 => c.cmds # <<>>)
\* a request has one answer,
Heard(c, p) ==
    /\ c.slaveTx \in Seq(Nat) /\ p.answered \in Nat /\ p.heard \in Seq(Nat)
    /\ Ordered(p.heard \o c.slaveTx, p.answered, {})
    /\ (c.rdReq => c.slaveTx = <<>>)
\* the bytes that come are read in order,
Come(c, p) ==
    /\ c.rx \in Seq(Nat) /\ Len(c.rx) <= Depth /\ p.came \in Nat /\ p.read \in Seq(Nat)
    /\ c.lost \in SUBSET (1..p.came) /\ Ordered(p.read \o c.rx, p.came, c.lost)
    /\ (c.lost # {} => c.crowded)
    /\ (c.rx # <<>> => "RX_FULL" \in c.raw \/ c.silenced)
\* there is room for those under way, but where firmware asked for more,
Roomy(c) == c.crowded \/ C!Expected(c) <= Depth
\* and what failed is reported.
Reported(c) == c.failed = c.abort /\ (c.failed # {} => "TX_ABRT" \in c.raw)

BusFields == {"cmds", "slaveTx", "rdReq", "rx", "raw", "abort", "crowded", "lost", "silenced", "failed", "left"}
BusPast == {"queued", "ran", "came", "read", "answered", "heard"}

BusKept(c, p) ==
    /\ BusFields \subseteq DOMAIN c /\ BusPast \subseteq DOMAIN p
    /\ Ran(c, p) /\ Heard(c, p) /\ Come(c, p) /\ Roomy(c) /\ Reported(c)

LEMMA RanSame ==
    ASSUME NEW c, NEW p, Ran(c, p), NEW v, v.cmds = c.cmds, v.left = c.left, NEW q, q.queued = p.queued, q.ran = p.ran
    PROVE  Ran(v, q)
BY DEF Ran

LEMMA HeardSame ==
    ASSUME NEW c, NEW p, Heard(c, p), NEW v, v.slaveTx = c.slaveTx, v.rdReq = c.rdReq,
           NEW q, q.answered = p.answered, q.heard = p.heard
    PROVE  Heard(v, q)
BY DEF Heard

LEMMA ComeSame ==
    ASSUME NEW c, NEW p, Come(c, p), NEW v, v.rx = c.rx, v.lost = c.lost, v.crowded = c.crowded,
           "RX_FULL" \in c.raw \/ c.silenced => "RX_FULL" \in v.raw \/ v.silenced,
           NEW q, q.came = p.came, q.read = p.read
    PROVE  Come(v, q)
BY DEF Come

LEMMA RoomSame ==
    ASSUME NEW c, Roomy(c), NEW v, v.rx = c.rx, v.cmds = c.cmds, v.crowded = c.crowded
    PROVE  Roomy(v)
BY DEF Roomy, C!Expected

LEMMA BusSame ==
    ASSUME NEW c, NEW p, BusKept(c, p), NEW v, \A f \in BusFields : v[f] = c[f], DOMAIN v = DOMAIN c,
           NEW q, \A f \in BusPast : q[f] = p[f], DOMAIN q = DOMAIN p
    PROVE  BusKept(v, q)
<1>1. /\ v.cmds = c.cmds /\ v.slaveTx = c.slaveTx /\ v.rdReq = c.rdReq /\ v.rx = c.rx /\ v.raw = c.raw
      /\ v.abort = c.abort /\ v.crowded = c.crowded /\ v.lost = c.lost /\ v.silenced = c.silenced /\ v.failed = c.failed
      /\ v.left = c.left
  BY DEF BusFields
<1>2. /\ q.queued = p.queued /\ q.ran = p.ran /\ q.came = p.came /\ q.read = p.read /\ q.answered = p.answered
      /\ q.heard = p.heard
  BY DEF BusPast
<1>3. Ran(v, q)
  BY <1>1, <1>2, RanSame DEF BusKept
<1>4. Heard(v, q)
  BY <1>1, <1>2, HeardSame DEF BusKept
<1>5. Come(v, q)
  BY <1>1, <1>2, ComeSame DEF BusKept
<1>6. Roomy(v)
  BY <1>1, RoomSame DEF BusKept
<1>7. Reported(v)
  BY <1>1 DEF BusKept, Reported
<1>. QED
  BY <1>3, <1>4, <1>5, <1>6, <1>7 DEF BusKept

\* refresh_irq leaves them alone.
LEMMA BusRefreshed ==
    ASSUME NEW c, NEW p, BusKept(c, p)
    PROVE  BusKept(C!RefreshIrq(c), p)
<1>. DEFINE v == C!RefreshIrq(c)
<1>1. DOMAIN v = DOMAIN c /\ \A f \in BusFields : v[f] = c[f]
  BY DEF C!RefreshIrq, BusFields, BusKept
<1>. HIDE DEF v
<1>2. BusKept(v, p)
  BY <1>1, BusSame
<1>. QED
  BY <1>2 DEF v

\* Of what is under way and what has come, as numbers
LEMMA Expectation ==
    ASSUME NEW c, c.rx \in Seq(Nat), c.cmds \in Seq(Commands)
    PROVE  /\ Len(c.rx) \in Nat /\ Cardinality(Asked(c.cmds)) \in Nat
           /\ C!Expected(c) = Len(c.rx) + Cardinality(Asked(c.cmds))
<1>1. C!Cardinality(Asked(c.cmds)) = Cardinality(Asked(c.cmds))
  BY DEF C!Cardinality, Cardinality
<1>. QED
  BY <1>1, AskedCounted, LenProperties DEF C!Expected, Asked

\* Another interrupt changes nothing of it.
LEMMA BusInterrupts ==
    ASSUME NEW c, NEW p, BusKept(c, p), NEW e
    PROVE  BusKept([c EXCEPT !.raw = @ \cup e], p)
<1>. DEFINE v == [c EXCEPT !.raw = @ \cup e]
<1>1. DOMAIN v = DOMAIN c /\ v.raw = c.raw \cup e /\ \A f \in BusFields \ {"raw"} : v[f] = c[f]
  BY DEF BusFields, BusKept
<1>. HIDE DEF v
<1>2. /\ v.cmds = c.cmds /\ v.slaveTx = c.slaveTx /\ v.rdReq = c.rdReq /\ v.rx = c.rx /\ c.raw \subseteq v.raw
      /\ v.abort = c.abort /\ v.crowded = c.crowded /\ v.lost = c.lost /\ v.silenced = c.silenced /\ v.failed = c.failed
      /\ v.left = c.left
  BY <1>1 DEF BusFields
<1>3. Ran(v, p) /\ Heard(v, p)
  BY <1>2, RanSame, HeardSame DEF BusKept
<1>4. Come(v, p)
  <2>1. "RX_FULL" \in c.raw \/ c.silenced => "RX_FULL" \in v.raw \/ v.silenced
    BY <1>2
  <2>. QED
    BY <1>2, <2>1, ComeSame DEF BusKept
<1>5. Roomy(v) /\ Reported(v)
  BY <1>2, RoomSame DEF BusKept, Reported
<1>6. BusKept(v, p)
  BY <1>1, <1>3, <1>4, <1>5 DEF BusKept
<1>. QED
  BY <1>6 DEF v

\* Nor does the time that a command takes.
LEMMA BusStays ==
    ASSUME NEW c, NEW p, BusKept(c, p), c.cmds # <<>>, NEW v, DOMAIN v = DOMAIN c,
           \A f \in BusFields \ {"left"} : v[f] = c[f]
    PROVE  BusKept(v, p)
<1>1. /\ v.cmds = c.cmds /\ v.slaveTx = c.slaveTx /\ v.rdReq = c.rdReq /\ v.rx = c.rx /\ v.raw = c.raw
      /\ v.abort = c.abort /\ v.crowded = c.crowded /\ v.lost = c.lost /\ v.silenced = c.silenced /\ v.failed = c.failed
  BY DEF BusFields
<1>2. Ran(v, p)
  BY <1>1 DEF BusKept, Ran
<1>3. Heard(v, p) /\ Come(v, p)
  BY <1>1, HeardSame, ComeSame DEF BusKept
<1>4. Roomy(v) /\ Reported(v)
  BY <1>1, RoomSame DEF BusKept, Reported
<1>. QED
  BY <1>2, <1>3, <1>4 DEF BusKept

LEMMA CommandsNamed == \A g \in Commands : g.id \in Nat
BY DEF Commands

\* A command that is run is the first.
LEMMA RanNext ==
    ASSUME NEW c, NEW p, Ran(c, p), c.cmds # <<>>, NEW v, v.cmds = Tail(c.cmds), v.left = 0,
           NEW q, q.queued = p.queued, q.ran = Append(p.ran, Head(c.cmds).id)
    PROVE  Ran(v, q)
<1>. DEFINE names == Names(c.cmds)
<1>1. c.cmds \in Seq(Commands) /\ p.ran \in Seq(Nat) /\ Len(c.cmds) <= Depth
  BY DEF Ran
<1>2. /\ names \in Seq(Nat) /\ names # <<>> /\ Head(names) = Head(c.cmds).id /\ Names(Tail(c.cmds)) = Tail(names)
  BY <1>1, CommandsNamed, NamesTyped, NamesOf
<1>. HIDE DEF names
<1>3. /\ Append(p.ran, Head(names)) \in Seq(Nat)
      /\ Ordered(Append(p.ran, Head(names)) \o Tail(names), p.queued, {})
  BY <1>1, <1>2, LineMoves DEF Ran, names
<1>4. Tail(c.cmds) \in Seq(Commands) /\ Len(Tail(c.cmds)) <= Depth
  <2>1. Tail(c.cmds) \in Seq(Commands) /\ Len(Tail(c.cmds)) = Len(c.cmds) - 1 /\ Len(c.cmds) \in Nat /\ Depth \in Nat
    BY <1>1, HeadTailProperties, LenProperties, UartAssumption
  <2>. QED
    BY <1>1, <2>1
<1>. QED
  BY <1>2, <1>3, <1>4 DEF Ran

\* A byte that comes while there is room is the last of the FIFO;
LEMMA ComeMore ==
    ASSUME NEW c, NEW p, Come(c, p), Len(c.rx) < Depth,
           NEW v, v.rx = Append(c.rx, p.came + 1), v.lost = c.lost, c.crowded => v.crowded, "RX_FULL" \in v.raw,
           NEW q, q.came = p.came + 1, q.read = p.read
    PROVE  Come(v, q)
<1>1. /\ c.rx \in Seq(Nat) /\ p.read \in Seq(Nat) /\ p.came \in Nat /\ c.lost \in SUBSET (1..p.came)
      /\ Ordered(p.read \o c.rx, p.came, c.lost)
  BY DEF Come
<1>2. /\ p.came + 1 \in Nat /\ c.lost \in SUBSET (1..p.came + 1) /\ Append(c.rx, p.came + 1) \in Seq(Nat)
      /\ Ordered(p.read \o Append(c.rx, p.came + 1), p.came + 1, c.lost)
  BY <1>1, LineGrows
<1>3. Len(v.rx) <= Depth
  <2>1. Len(v.rx) = Len(c.rx) + 1 /\ Len(c.rx) \in Nat /\ Depth \in Nat
    BY <1>1, <1>2, AppendProperties, LenProperties, UartAssumption
  <2>. QED
    BY <2>1
<1>. QED
  BY <1>1, <1>2, <1>3 DEF Come

\* one that comes otherwise is lost, to firmware that asked for too many;
LEMMA ComeLost ==
    ASSUME NEW c, NEW p, Come(c, p), c.crowded,
           NEW v, v.rx = c.rx, v.lost = c.lost \cup {p.came + 1}, v.crowded = c.crowded, v.raw = c.raw,
           v.silenced = c.silenced,
           NEW q, q.came = p.came + 1, q.read = p.read
    PROVE  Come(v, q)
<1>1. /\ p.came \in Nat /\ c.lost \in SUBSET (1..p.came) /\ Ordered(p.read \o c.rx, p.came, c.lost)
  BY DEF Come
<1>2. /\ Ordered(p.read \o c.rx, p.came + 1, c.lost \cup {p.came + 1})
      /\ c.lost \cup {p.came + 1} \in SUBSET (1..p.came + 1)
  BY <1>1, LineLoses
<1>. QED
  BY <1>1, <1>2 DEF Come

\* and one that is read is the first.
LEMMA ComeRead ==
    ASSUME NEW c, NEW p, Come(c, p), c.rx # <<>>,
           NEW v, v.rx = Tail(c.rx), v.lost = c.lost, v.crowded = c.crowded,
           v.raw = (IF Len(c.rx) = 1 THEN c.raw \ {"RX_FULL"} ELSE c.raw), v.silenced = c.silenced,
           NEW q, q.came = p.came, q.read = Append(p.read, Head(c.rx))
    PROVE  Come(v, q)
<1>1. /\ c.rx \in Seq(Nat) /\ p.read \in Seq(Nat) /\ Ordered(p.read \o c.rx, p.came, c.lost) /\ Len(c.rx) <= Depth
  BY DEF Come
<1>2. /\ q.read \in Seq(Nat) /\ v.rx \in Seq(Nat) /\ Ordered(q.read \o v.rx, p.came, c.lost)
  BY <1>1, LineMoves
<1>3. Len(v.rx) = Len(c.rx) - 1 /\ Len(c.rx) \in Nat /\ Depth \in Nat
  BY <1>1, HeadTailProperties, LenProperties, UartAssumption
<1>4. Len(v.rx) <= Depth
  BY <1>1, <1>3
<1>5. v.rx # <<>> => v.raw = c.raw
  <2>1. v.rx # <<>> => Len(v.rx) # 0
    BY <1>2, EmptySeq
  <2>. QED
    BY <1>3, <2>1
<1>. QED
  BY <1>2, <1>4, <1>5 DEF Come

\* run_command keeps the account, whoever answers.
LEMMA TransferKeeps ==
    ASSUME NEW c, NEW p, BusKept(c, p), c.cmds # <<>>, NEW ok \in BOOLEAN,
           NEW q, DOMAIN q = DOMAIN p, q.queued = p.queued, q.ran = Append(p.ran, Head(c.cmds).id), q.read = p.read,
           q.answered = p.answered, q.heard = p.heard,
           q.came = IF ok /\ Head(c.cmds).rd /\ C!Addressed(c) THEN p.came + 1 ELSE p.came
    PROVE  BusKept(C!Transferred(c, ok, p.came + 1), q)
<1>. DEFINE v == C!Transferred(c, ok, p.came + 1)
            rd == Head(c.cmds).rd
            here == C!Addressed(c)
            free == Len(c.rx) < Depth
            reads == Asked(c.cmds)
            kept == Asked(Tail(c.cmds))
<1>1. /\ BusFields \subseteq DOMAIN c /\ BusPast \subseteq DOMAIN p
      /\ Ran(c, p) /\ Heard(c, p) /\ Come(c, p) /\ Roomy(c) /\ Reported(c)
  BY DEF BusKept
<1>2. c.cmds \in Seq(Commands) /\ Tail(c.cmds) \in Seq(Commands) /\ c.rx \in Seq(Nat) /\ p.came \in Nat
  BY <1>1, HeadTailProperties DEF Ran, Come
<1>3. /\ Len(c.rx) \in Nat /\ Depth \in Nat /\ Cardinality(reads) \in Nat /\ Cardinality(kept) \in Nat
      /\ Cardinality(kept) <= Cardinality(reads)
      /\ rd => Cardinality(kept) <= Cardinality(reads) - 1 /\ Cardinality(reads) > 0
      /\ C!Expected(c) = Len(c.rx) + Cardinality(reads)
  BY <1>2, AskedLess, AskedCounted, Expectation, UartAssumption
<1>4. ASSUME v.cmds = Tail(c.cmds), v.left = 0, v.slaveTx = c.slaveTx, v.rdReq = c.rdReq, DOMAIN v = DOMAIN c
      PROVE  Ran(v, q) /\ Heard(v, q) /\ BusFields \subseteq DOMAIN v /\ BusPast \subseteq DOMAIN q
  <2>. HIDE DEF v
  <2>1. Ran(v, q)
    BY <1>1, <1>4, RanNext
  <2>. QED
    BY <1>1, <1>4, <2>1, HeardSame
<1>5. ASSUME v.cmds = Tail(c.cmds), v.crowded = c.crowded, v.rx = c.rx
      PROVE  Roomy(v)
  <2>. HIDE DEF v
  <2>1. C!Expected(v) = Len(c.rx) + Cardinality(kept)
    BY <1>2, <1>5, Expectation
  <2>2. C!Expected(c) <= Depth => C!Expected(v) <= Depth
    <3>. HIDE DEF reads, kept
    <3>. QED
      BY <1>3, <2>1
  <2>. QED
    BY <1>1, <1>5, <2>2 DEF Roomy
<1>. HIDE DEF reads, kept
<1>6. CASE ~here
  <2>1. v = [[c EXCEPT !.cmds = Tail(@), !.left = 0]
                EXCEPT !.abort = @ \cup {"ADDR"}, !.failed = @ \cup {"ADDR"}, !.raw = @ \cup {"TX_ABRT"}]
    BY <1>6 DEF C!Transferred
  <2>. HIDE DEF v
  <2>2. /\ v.cmds = Tail(c.cmds) /\ v.left = 0 /\ v.slaveTx = c.slaveTx /\ v.rdReq = c.rdReq /\ DOMAIN v = DOMAIN c
        /\ v.rx = c.rx /\ v.lost = c.lost /\ v.crowded = c.crowded /\ v.silenced = c.silenced
        /\ v.abort = c.abort \cup {"ADDR"} /\ v.failed = c.failed \cup {"ADDR"} /\ v.raw = c.raw \cup {"TX_ABRT"}
    BY <1>1, <2>1 DEF BusFields
  <2>3. q.came = p.came
    BY <1>6
  <2>4. Come(v, q)
    <3>1. "RX_FULL" \in c.raw \/ c.silenced => "RX_FULL" \in v.raw \/ v.silenced
      BY <2>2
    <3>. QED
      BY <1>1, <2>2, <2>3, <3>1, ComeSame
  <2>5. Reported(v)
    BY <1>1, <2>2 DEF Reported
  <2>. QED
    BY <1>4, <1>5, <2>2, <2>4, <2>5 DEF BusKept, v
<1>7. CASE here /\ rd /\ ok /\ free
  <2>1. v = C!Received([c EXCEPT !.cmds = Tail(@), !.left = 0], p.came + 1)
    <3>1. ~(Len(c.rx) >= Depth)
      BY <1>3, <1>7
    <3>. QED
      BY <1>7, <3>1 DEF C!Transferred
  <2>. HIDE DEF v
  <2>2. /\ v.cmds = Tail(c.cmds) /\ v.left = 0 /\ v.slaveTx = c.slaveTx /\ v.rdReq = c.rdReq /\ DOMAIN v = DOMAIN c
        /\ v.rx = Append(c.rx, p.came + 1) /\ v.lost = c.lost /\ v.crowded = c.crowded
        /\ v.abort = c.abort /\ v.failed = c.failed /\ v.raw = c.raw \cup {"RX_FULL"}
    BY <1>1, <2>1 DEF BusFields, C!Received
  <2>3. q.came = p.came + 1
    BY <1>7
  <2>4. Come(v, q)
    <3>1. "RX_FULL" \in v.raw /\ (c.crowded => v.crowded)
      BY <2>2
    <3>. QED
      BY <1>1, <1>7, <2>2, <2>3, <3>1, ComeMore
  <2>5. Reported(v)
    BY <1>1, <2>2 DEF Reported
  <2>6. Roomy(v)
    <3>1. Len(v.rx) = Len(c.rx) + 1 /\ v.rx \in Seq(Nat)
      BY <1>2, <2>2, <2>4, AppendProperties DEF Come
    <3>2. C!Expected(v) = Len(v.rx) + Cardinality(kept)
      BY <1>2, <2>2, <3>1, Expectation DEF kept
    <3>3. C!Expected(c) <= Depth => C!Expected(v) <= Depth
      BY <1>3, <1>7, <3>1, <3>2
    <3>. QED
      BY <1>1, <2>2, <3>3 DEF Roomy
  <2>. QED
    BY <1>4, <2>2, <2>4, <2>5, <2>6 DEF BusKept, v
<1>8. CASE here /\ rd /\ ok /\ ~free
  <2>1. v = [[c EXCEPT !.cmds = Tail(@), !.left = 0] EXCEPT !.lost = @ \cup {p.came + 1}]
    <3>1. Len(c.rx) >= Depth
      BY <1>3, <1>8
    <3>. QED
      BY <1>8, <3>1 DEF C!Transferred
  <2>. HIDE DEF v
  <2>2. /\ v.cmds = Tail(c.cmds) /\ v.left = 0 /\ v.slaveTx = c.slaveTx /\ v.rdReq = c.rdReq /\ DOMAIN v = DOMAIN c
        /\ v.rx = c.rx /\ v.lost = c.lost \cup {p.came + 1} /\ v.crowded = c.crowded /\ v.silenced = c.silenced
        /\ v.abort = c.abort /\ v.failed = c.failed /\ v.raw = c.raw
    BY <1>1, <2>1 DEF BusFields
  <2>3. q.came = p.came + 1
    BY <1>8
  <2>4. c.crowded
    <3>1. ~(C!Expected(c) <= Depth)
      BY <1>3, <1>8
    <3>. QED
      BY <1>1, <3>1 DEF Roomy
  <2>5. Come(v, q)
    BY <1>1, <2>2, <2>3, <2>4, ComeLost
  <2>6. Reported(v)
    BY <1>1, <2>2 DEF Reported
  <2>. QED
    BY <1>4, <1>5, <2>2, <2>5, <2>6 DEF BusKept, v
<1>9. CASE here /\ ~rd /\ ~ok
  <2>1. v = [[c EXCEPT !.cmds = Tail(@), !.left = 0]
                EXCEPT !.abort = @ \cup {"DATA"}, !.failed = @ \cup {"DATA"}, !.raw = @ \cup {"TX_ABRT"}]
    BY <1>9 DEF C!Transferred
  <2>. HIDE DEF v
  <2>2. /\ v.cmds = Tail(c.cmds) /\ v.left = 0 /\ v.slaveTx = c.slaveTx /\ v.rdReq = c.rdReq /\ DOMAIN v = DOMAIN c
        /\ v.rx = c.rx /\ v.lost = c.lost /\ v.crowded = c.crowded /\ v.silenced = c.silenced
        /\ v.abort = c.abort \cup {"DATA"} /\ v.failed = c.failed \cup {"DATA"} /\ v.raw = c.raw \cup {"TX_ABRT"}
    BY <1>1, <2>1 DEF BusFields
  <2>3. q.came = p.came
    BY <1>9
  <2>4. Come(v, q)
    <3>1. "RX_FULL" \in c.raw \/ c.silenced => "RX_FULL" \in v.raw \/ v.silenced
      BY <2>2
    <3>. QED
      BY <1>1, <2>2, <2>3, <3>1, ComeSame
  <2>5. Reported(v)
    BY <1>1, <2>2 DEF Reported
  <2>. QED
    BY <1>4, <1>5, <2>2, <2>4, <2>5 DEF BusKept, v
<1>10. CASE here /\ ((rd /\ ~ok) \/ (~rd /\ ok))
  <2>1. v = [c EXCEPT !.cmds = Tail(@), !.left = 0]
    BY <1>10 DEF C!Transferred
  <2>. HIDE DEF v
  <2>2. /\ v.cmds = Tail(c.cmds) /\ v.left = 0 /\ v.slaveTx = c.slaveTx /\ v.rdReq = c.rdReq /\ DOMAIN v = DOMAIN c
        /\ v.rx = c.rx /\ v.lost = c.lost /\ v.crowded = c.crowded /\ v.silenced = c.silenced
        /\ v.abort = c.abort /\ v.failed = c.failed /\ v.raw = c.raw
    BY <1>1, <2>1 DEF BusFields
  <2>3. q.came = p.came
    BY <1>10
  <2>4. Come(v, q)
    BY <1>1, <2>2, <2>3, ComeSame
  <2>5. Reported(v)
    BY <1>1, <2>2 DEF Reported
  <2>. QED
    BY <1>4, <1>5, <2>2, <2>4, <2>5 DEF BusKept, v
<1>11. here \/ ~here
  OBVIOUS
<1>12. (rd \/ ~rd) /\ (ok \/ ~ok) /\ (free \/ ~free)
  OBVIOUS
<1>. HIDE DEF v, rd, here, free
<1>. QED
  BY <1>6, <1>7, <1>8, <1>9, <1>10, <1>11, <1>12

\* A cycle of SCL, with a command at its end or none,
LEMMA I2cClockKeeps ==
    ASSUME BusKept(dev, past), C!Clock
    PROVE  BusKept(dev', past')
<1>1. BusFields \subseteq DOMAIN dev /\ BusPast \subseteq DOMAIN past /\ (dev.left # 0 => dev.cmds # <<>>)
  BY DEF BusKept, Ran
<1>2. CASE dev.left = 1 /\ C!RunCommand
  <2>1. PICK ok \in BOOLEAN :
            /\ dev' = C!RefreshIrq([C!Transferred(dev, ok, past.came + 1)
                                        EXCEPT !.raw = IF Head(dev.cmds).stop THEN @ \cup {"STOP_DET"} ELSE @])
            /\ past' = [past EXCEPT !.ran = Append(@, Head(dev.cmds).id),
                                    !.came = IF ok /\ Head(dev.cmds).rd /\ C!Addressed(dev) THEN @ + 1 ELSE @]
    BY <1>2 DEF C!RunCommand
  <2>2. /\ DOMAIN past' = DOMAIN past /\ past'.queued = past.queued /\ past'.read = past.read
        /\ past'.ran = Append(past.ran, Head(dev.cmds).id)
        /\ past'.answered = past.answered /\ past'.heard = past.heard
        /\ past'.came = IF ok /\ Head(dev.cmds).rd /\ C!Addressed(dev) THEN past.came + 1 ELSE past.came
    BY <1>1, <2>1 DEF BusPast
  <2>. DEFINE done == C!Transferred(dev, ok, past.came + 1)
              e == IF Head(dev.cmds).stop THEN {"STOP_DET"} ELSE {}
  <2>3. BusKept(done, past')
    <3>1. dev.cmds # <<>>
      BY <1>1, <1>2
    <3>. QED
      BY <2>2, <3>1, TransferKeeps
  <2>4. dev' = C!RefreshIrq([done EXCEPT !.raw = @ \cup e])
    <3>. HIDE DEF done
    <3>1. (IF Head(dev.cmds).stop THEN done.raw \cup {"STOP_DET"} ELSE done.raw) = done.raw \cup e
      OBVIOUS
    <3>. HIDE DEF e
    <3>. QED
      BY <2>1, <3>1 DEF done
  <2>. HIDE DEF done, e
  <2>. QED
    BY <2>3, <2>4, BusInterrupts, BusRefreshed
<1>3. CASE dev.left > 1 /\ dev' = [dev EXCEPT !.left = @ - 1] /\ UNCHANGED past
  <2>1. DOMAIN dev' = DOMAIN dev /\ \A f \in BusFields \ {"left"} : dev'[f] = dev[f]
    BY <1>1, <1>3 DEF BusFields
  <2>2. dev.cmds # <<>>
    BY <1>1, <1>3
  <2>. QED
    BY <1>3, <2>1, <2>2, BusStays
<1>4. CASE dev.left = 0 /\ dev.cmds # <<>> /\ dev' = [dev EXCEPT !.left = C!Period(dev) * BitsOfByte + dev.stretch, !.stretch = 0]
            /\ UNCHANGED past
  <2>. DEFINE n == C!Period(dev) * BitsOfByte + dev.stretch
  <2>1. dev' = [dev EXCEPT !.left = n, !.stretch = 0]
    BY <1>4
  <2>. HIDE DEF n
  <2>2. DOMAIN dev' = DOMAIN dev /\ \A f \in BusFields \ {"left"} : dev'[f] = dev[f]
    BY <1>1, <2>1 DEF BusFields
  <2>. QED
    BY <1>4, <2>2, BusStays
<1>. QED
  BY <1>2, <1>3, <1>4 DEF C!Clock

\* a transfer that another master addresses to the controller,
LEMMA SlaveKeeps ==
    ASSUME BusKept(dev, past), NEW addr, C!SlaveRead(addr) \/ C!SlaveWrite(addr)
    PROVE  BusKept(dev', past')
<1>1. /\ BusFields \subseteq DOMAIN dev /\ BusPast \subseteq DOMAIN past
      /\ Ran(dev, past) /\ Heard(dev, past) /\ Come(dev, past) /\ Roomy(dev) /\ Reported(dev)
  BY DEF BusKept
<1>2. CASE /\ dev.slaveTx = <<>>
           /\ dev' = C!RefreshIrq([dev EXCEPT !.rdReq = TRUE, !.raw = @ \cup {"RD_REQ"}])
           /\ past' = [past EXCEPT !.polled = @ + 1]
  <2>. DEFINE v == [dev EXCEPT !.rdReq = TRUE, !.raw = @ \cup {"RD_REQ"}]
  <2>1. dev' = C!RefreshIrq(v)
    BY <1>2
  <2>2. /\ DOMAIN v = DOMAIN dev /\ v.cmds = dev.cmds /\ v.left = dev.left /\ v.slaveTx = dev.slaveTx
        /\ v.rx = dev.rx /\ v.lost = dev.lost /\ v.crowded = dev.crowded /\ v.silenced = dev.silenced
        /\ v.abort = dev.abort /\ v.failed = dev.failed /\ v.raw = dev.raw \cup {"RD_REQ"}
    BY <1>1 DEF BusFields
  <2>. HIDE DEF v
  <2>3. DOMAIN past' = DOMAIN past /\ \A f \in BusPast : past'[f] = past[f]
    BY <1>1, <1>2 DEF BusPast
  <2>4. /\ past'.queued = past.queued /\ past'.ran = past.ran /\ past'.came = past.came /\ past'.read = past.read
        /\ past'.answered = past.answered /\ past'.heard = past.heard
    BY <2>3 DEF BusPast
  <2>5. Ran(v, past') /\ Roomy(v)
    BY <1>1, <2>2, <2>4, RanSame, RoomSame
  <2>6. Heard(v, past')
    BY <1>1, <1>2, <2>2, <2>4 DEF Heard
  <2>7. Come(v, past')
    <3>1. "RX_FULL" \in dev.raw \/ dev.silenced => "RX_FULL" \in v.raw \/ v.silenced
      BY <2>2
    <3>. QED
      BY <1>1, <2>2, <2>4, <3>1, ComeSame
  <2>8. Reported(v)
    BY <1>1, <2>2 DEF Reported
  <2>9. BusKept(v, past')
    BY <1>1, <2>2, <2>3, <2>5, <2>6, <2>7, <2>8 DEF BusKept
  <2>. QED
    BY <2>1, <2>9, BusRefreshed
<1>3. CASE /\ dev.slaveTx # <<>>
           /\ dev' = [dev EXCEPT !.slaveTx = Tail(@)]
           /\ past' = [past EXCEPT !.heard = Append(@, Head(dev.slaveTx))]
  <2>1. /\ DOMAIN dev' = DOMAIN dev /\ dev'.slaveTx = Tail(dev.slaveTx) /\ dev'.rdReq = dev.rdReq
        /\ dev'.cmds = dev.cmds /\ dev'.left = dev.left
        /\ dev'.rx = dev.rx /\ dev'.lost = dev.lost /\ dev'.crowded = dev.crowded /\ dev'.silenced = dev.silenced
        /\ dev'.abort = dev.abort /\ dev'.failed = dev.failed /\ dev'.raw = dev.raw
    BY <1>1, <1>3 DEF BusFields
  <2>2. /\ DOMAIN past' = DOMAIN past /\ past'.queued = past.queued /\ past'.ran = past.ran
        /\ past'.came = past.came /\ past'.read = past.read
        /\ past'.answered = past.answered /\ past'.heard = Append(past.heard, Head(dev.slaveTx))
    BY <1>1, <1>3 DEF BusPast
  <2>3. Ran(dev', past') /\ Roomy(dev') /\ Reported(dev')
    BY <1>1, <2>1, <2>2, RanSame, RoomSame DEF Reported
  <2>4. Heard(dev', past')
    <3>1. /\ Append(past.heard, Head(dev.slaveTx)) \in Seq(Nat) /\ Tail(dev.slaveTx) \in Seq(Nat)
          /\ Ordered(Append(past.heard, Head(dev.slaveTx)) \o Tail(dev.slaveTx), past.answered, {})
      BY <1>1, <1>3, LineMoves DEF Heard
    <3>. QED
      BY <1>1, <1>3, <2>1, <2>2, <3>1 DEF Heard
  <2>5. Come(dev', past')
    BY <1>1, <2>1, <2>2, ComeSame
  <2>. QED
    BY <1>1, <2>1, <2>2, <2>3, <2>4, <2>5 DEF BusKept
<1>4. CASE C!SlaveWrite(addr)
  <2>. DEFINE new == C!Received(dev, past.came + 1)
              v == [new EXCEPT !.crowded = @ \/ C!Expected(new) > Depth]
  <2>1. Len(dev.rx) < Depth /\ dev' = C!RefreshIrq(v) /\ past' = [past EXCEPT !.came = @ + 1, !.polled = @ + 1]
    BY <1>4 DEF C!SlaveWrite
  <2>2. /\ DOMAIN new = DOMAIN dev /\ new.cmds = dev.cmds /\ new.left = dev.left /\ new.slaveTx = dev.slaveTx
        /\ new.rdReq = dev.rdReq
        /\ new.rx = Append(dev.rx, past.came + 1) /\ new.lost = dev.lost /\ new.crowded = dev.crowded
        /\ new.abort = dev.abort /\ new.failed = dev.failed /\ new.raw = dev.raw \cup {"RX_FULL"}
    BY <1>1 DEF BusFields, C!Received
  <2>. HIDE DEF new
  <2>3. /\ DOMAIN v = DOMAIN new /\ v.cmds = new.cmds /\ v.left = new.left /\ v.slaveTx = new.slaveTx
        /\ v.rdReq = new.rdReq /\ v.rx = new.rx /\ v.lost = new.lost
        /\ v.abort = new.abort /\ v.failed = new.failed /\ v.raw = new.raw
        /\ v.crowded = (new.crowded \/ C!Expected(new) > Depth)
    BY <1>1, <2>2 DEF BusFields
  <2>. HIDE DEF v
  <2>4. /\ DOMAIN past' = DOMAIN past /\ past'.queued = past.queued /\ past'.ran = past.ran
        /\ past'.came = past.came + 1 /\ past'.read = past.read
        /\ past'.answered = past.answered /\ past'.heard = past.heard
    BY <1>1, <2>1 DEF BusPast
  <2>5. Ran(v, past') /\ Heard(v, past')
    BY <1>1, <2>2, <2>3, <2>4, RanSame, HeardSame
  <2>6. Come(v, past')
    <3>1. "RX_FULL" \in v.raw /\ (dev.crowded => v.crowded)
      BY <2>2, <2>3
    <3>2. v.rx = Append(dev.rx, past.came + 1) /\ v.lost = dev.lost
      BY <2>2, <2>3
    <3>. QED
      BY <1>1, <2>1, <2>4, <3>1, <3>2, ComeMore
  <2>7. Roomy(v)
    <3>1. v.rx \in Seq(Nat) /\ v.cmds \in Seq(Commands)
      BY <2>5, <2>6 DEF Come, Ran
    <3>2. C!Expected(v) = C!Expected(new) /\ C!Expected(v) \in Nat
      BY <2>3, <3>1, Expectation
    <3>. DEFINE many == C!Expected(new) > Depth
    <3>3. many \/ C!Expected(v) <= Depth
      BY <3>2, UartAssumption
    <3>4. v.crowded = (new.crowded \/ many)
      BY <2>3
    <3>. HIDE DEF many
    <3>. QED
      BY <3>3, <3>4 DEF Roomy
  <2>8. Reported(v)
    BY <1>1, <2>2, <2>3 DEF Reported
  <2>9. BusKept(v, past')
    BY <1>1, <2>2, <2>3, <2>4, <2>5, <2>6, <2>7, <2>8 DEF BusKept
  <2>. QED
    BY <2>1, <2>9, BusRefreshed
<1>. QED
  BY <1>2, <1>3, <1>4 DEF C!SlaveRead

\* the data register,
LEMMA DataCmdKeeps ==
    ASSUME BusKept(dev, past), C!Answer \/ C!QueueCommand \/ C!ReadData
    PROVE  BusKept(dev', past')
<1>1. /\ BusFields \subseteq DOMAIN dev /\ BusPast \subseteq DOMAIN past
      /\ Ran(dev, past) /\ Heard(dev, past) /\ Come(dev, past) /\ Roomy(dev) /\ Reported(dev)
  BY DEF BusKept
<1>2. CASE C!Answer
  <2>. DEFINE v == [dev EXCEPT !.rdReq = FALSE, !.raw = @ \ {"RD_REQ"}, !.slaveTx = Append(@, past.answered + 1)]
  <2>1. dev.rdReq /\ dev.slaveTx = <<>> /\ past' = [past EXCEPT !.answered = @ + 1]
    BY <1>1, <1>2 DEF C!Answer, Heard
  <2>2. dev' = C!RefreshIrq(v)
    <3>1. Len(dev.slaveTx) < Depth
      BY <2>1, UartAssumption
    <3>. QED
      BY <1>2, <3>1 DEF C!Answer
  <2>3. /\ DOMAIN v = DOMAIN dev /\ v.cmds = dev.cmds /\ v.left = dev.left /\ v.rdReq = FALSE
        /\ v.slaveTx = Append(dev.slaveTx, past.answered + 1)
        /\ v.rx = dev.rx /\ v.lost = dev.lost /\ v.crowded = dev.crowded /\ v.silenced = dev.silenced
        /\ v.abort = dev.abort /\ v.failed = dev.failed /\ v.raw = dev.raw \ {"RD_REQ"}
    BY <1>1 DEF BusFields
  <2>. HIDE DEF v
  <2>4. /\ DOMAIN past' = DOMAIN past /\ past'.queued = past.queued /\ past'.ran = past.ran
        /\ past'.came = past.came /\ past'.read = past.read
        /\ past'.answered = past.answered + 1 /\ past'.heard = past.heard
    BY <1>1, <2>1 DEF BusPast
  <2>5. Ran(v, past') /\ Roomy(v)
    BY <1>1, <2>3, <2>4, RanSame, RoomSame
  <2>6. Heard(v, past')
    <3>1. /\ past.answered + 1 \in Nat /\ Append(dev.slaveTx, past.answered + 1) \in Seq(Nat)
          /\ Ordered(past.heard \o Append(dev.slaveTx, past.answered + 1), past.answered + 1, {})
      BY <1>1, LineGrows DEF Heard
    <3>. QED
      BY <1>1, <2>3, <2>4, <3>1 DEF Heard
  <2>7. Come(v, past')
    <3>1. "RX_FULL" \in dev.raw \/ dev.silenced => "RX_FULL" \in v.raw \/ v.silenced
      BY <2>3
    <3>. QED
      BY <1>1, <2>3, <2>4, <3>1, ComeSame
  <2>8. Reported(v)
    BY <1>1, <2>3 DEF Reported
  <2>9. BusKept(v, past')
    BY <1>1, <2>3, <2>4, <2>5, <2>6, <2>7, <2>8 DEF BusKept
  <2>. QED
    BY <2>2, <2>9, BusRefreshed
<1>3. ASSUME C!QueueCommand PROVE BusKept(dev', past')
  <2>1. PICK rd \in BOOLEAN, stop \in BOOLEAN :
            LET new == [dev EXCEPT !.cmds = Append(@, [id |-> past.queued + 1, rd |-> rd, stop |-> stop])]
            IN  \/ /\ Len(dev.cmds) < Depth
                   /\ dev' = [new EXCEPT !.crowded = @ \/ C!Expected(new) > Depth]
                   /\ past' = [past EXCEPT !.queued = @ + 1]
                \/ UNCHANGED C!vars
    BY <1>3 DEF C!QueueCommand
  <2>. DEFINE g == [id |-> past.queued + 1, rd |-> rd, stop |-> stop]
              new == [dev EXCEPT !.cmds = Append(@, g)]
  <2>2. CASE UNCHANGED C!vars
    BY <2>2 DEF C!vars
  <2>3. CASE /\ Len(dev.cmds) < Depth
             /\ dev' = [new EXCEPT !.crowded = @ \/ C!Expected(new) > Depth]
             /\ past' = [past EXCEPT !.queued = @ + 1]
    <3>1. g \in Commands /\ g.id = past.queued + 1
      BY <1>1 DEF Commands, Ran
    <3>. HIDE DEF g
    <3>2. /\ DOMAIN new = DOMAIN dev /\ new.cmds = Append(dev.cmds, g) /\ new.left = dev.left /\ new.slaveTx = dev.slaveTx
          /\ new.rdReq = dev.rdReq /\ new.rx = dev.rx /\ new.lost = dev.lost /\ new.crowded = dev.crowded
          /\ new.silenced = dev.silenced
          /\ new.abort = dev.abort /\ new.failed = dev.failed /\ new.raw = dev.raw
      BY <1>1 DEF BusFields
    <3>. HIDE DEF new
    <3>3. /\ DOMAIN dev' = DOMAIN new /\ dev'.cmds = new.cmds /\ dev'.left = new.left /\ dev'.slaveTx = new.slaveTx
          /\ dev'.rdReq = new.rdReq /\ dev'.rx = new.rx /\ dev'.lost = new.lost /\ dev'.silenced = new.silenced
          /\ dev'.abort = new.abort /\ dev'.failed = new.failed /\ dev'.raw = new.raw
          /\ dev'.crowded = (new.crowded \/ C!Expected(new) > Depth)
      BY <1>1, <2>3, <3>2 DEF BusFields
    <3>4. /\ DOMAIN past' = DOMAIN past /\ past'.queued = past.queued + 1 /\ past'.ran = past.ran
          /\ past'.came = past.came /\ past'.read = past.read
          /\ past'.answered = past.answered /\ past'.heard = past.heard
      BY <1>1, <2>3 DEF BusPast
    <3>5. Ran(dev', past')
      <4>1. /\ dev.cmds \in Seq(Commands) /\ Len(dev.cmds) < Depth /\ past.queued \in Nat /\ past.ran \in Seq(Nat)
            /\ Ordered(past.ran \o Names(dev.cmds), past.queued, {})
        BY <1>1, <2>3 DEF Ran
      <4>2. Names(dev.cmds) \in Seq(Nat) /\ Names(Append(dev.cmds, g)) = Append(Names(dev.cmds), past.queued + 1)
        <5>1. dev.cmds \in Seq(Commands) /\ \A v \in Commands : v.id \in Nat
          BY <4>1, CommandsNamed
        <5>2. Names(dev.cmds) \in Seq(Nat) /\ \A v \in Commands : Names(Append(dev.cmds, v)) = Append(Names(dev.cmds), v.id)
          BY <5>1, NamesTyped, NamesOf
        <5>. QED
          BY <3>1, <5>2
      <4>3. /\ past.queued + 1 \in Nat
            /\ Ordered(past.ran \o Append(Names(dev.cmds), past.queued + 1), past.queued + 1, {})
        BY <4>1, <4>2, LineGrows
      <4>4. Append(dev.cmds, g) \in Seq(Commands) /\ Len(Append(dev.cmds, g)) <= Depth /\ Append(dev.cmds, g) # <<>>
        <5>1. /\ Append(dev.cmds, g) \in Seq(Commands) /\ Len(Append(dev.cmds, g)) = Len(dev.cmds) + 1
              /\ Len(dev.cmds) \in Nat /\ Depth \in Nat
          BY <3>1, <4>1, AppendProperties, LenProperties, UartAssumption
        <5>2. Append(dev.cmds, g) # <<>>
          BY <4>1, <3>1, AppendProperties
        <5>. QED
          BY <4>1, <5>1, <5>2
      <4>. QED
        BY <3>2, <3>3, <3>4, <4>1, <4>2, <4>3, <4>4 DEF Ran
    <3>6. Heard(dev', past') /\ Reported(dev')
      BY <1>1, <3>2, <3>3, <3>4, HeardSame DEF Reported
    <3>. DEFINE many == C!Expected(new) > Depth
    <3>7. dev'.crowded = (new.crowded \/ many)
      BY <3>3
    <3>8. Come(dev', past')
      <4>. HIDE DEF many
      <4>1. dev.crowded => dev'.crowded
        BY <3>2, <3>7
      <4>. QED
        BY <1>1, <3>2, <3>3, <3>4, <4>1 DEF Come
    <3>9. Roomy(dev')
      <4>1. dev'.rx \in Seq(Nat) /\ dev'.cmds \in Seq(Commands)
        BY <3>5, <3>8 DEF Come, Ran
      <4>2. C!Expected(dev') = C!Expected(new) /\ C!Expected(dev') \in Nat
        BY <3>3, <4>1, Expectation
      <4>3. many \/ C!Expected(dev') <= Depth
        BY <4>2, UartAssumption
      <4>. HIDE DEF many
      <4>. QED
        BY <3>7, <4>3 DEF Roomy
    <3>. QED
      BY <1>1, <3>2, <3>3, <3>4, <3>5, <3>6, <3>8, <3>9 DEF BusKept
  <2>. QED
    BY <2>1, <2>2, <2>3
<1>4. CASE C!ReadData
  <2>. DEFINE r == IF Len(dev.rx) = 1 THEN dev.raw \ {"RX_FULL"} ELSE dev.raw
              v == [dev EXCEPT !.rx = Tail(@), !.raw = r]
  <2>1. dev.rx # <<>> /\ dev' = C!RefreshIrq(v) /\ past' = [past EXCEPT !.read = Append(@, Head(dev.rx))]
    BY <1>4 DEF C!ReadData
  <2>2. "TX_ABRT" \in dev.raw => "TX_ABRT" \in r
    OBVIOUS
  <2>. HIDE DEF r
  <2>3. /\ DOMAIN v = DOMAIN dev /\ v.cmds = dev.cmds /\ v.left = dev.left /\ v.rdReq = dev.rdReq
        /\ v.slaveTx = dev.slaveTx
        /\ v.rx = Tail(dev.rx) /\ v.lost = dev.lost /\ v.crowded = dev.crowded /\ v.silenced = dev.silenced
        /\ v.abort = dev.abort /\ v.failed = dev.failed /\ v.raw = r
    BY <1>1 DEF BusFields
  <2>. HIDE DEF v
  <2>4. /\ DOMAIN past' = DOMAIN past /\ past'.queued = past.queued /\ past'.ran = past.ran
        /\ past'.came = past.came /\ past'.read = Append(past.read, Head(dev.rx))
        /\ past'.answered = past.answered /\ past'.heard = past.heard
    BY <1>1, <2>1 DEF BusPast
  <2>5. Ran(v, past') /\ Heard(v, past')
    BY <1>1, <2>3, <2>4, RanSame, HeardSame
  <2>6. Come(v, past')
    BY <1>1, <2>1, <2>3, <2>4, ComeRead DEF r
  <2>7. Roomy(v)
    <3>1. dev.rx \in Seq(Nat) /\ v.rx \in Seq(Nat) /\ dev.cmds \in Seq(Commands)
      BY <1>1, <2>6 DEF Come, Ran
    <3>2. C!Expected(v) = Len(v.rx) + Cardinality(Asked(dev.cmds)) /\ Cardinality(Asked(dev.cmds)) \in Nat
      BY <2>3, <3>1, Expectation
    <3>3. C!Expected(dev) = Len(dev.rx) + Cardinality(Asked(dev.cmds))
      BY <3>1, Expectation
    <3>4. Len(v.rx) = Len(dev.rx) - 1 /\ Len(dev.rx) \in Nat /\ Depth \in Nat
      BY <2>1, <2>3, <3>1, HeadTailProperties, LenProperties, UartAssumption
    <3>5. C!Expected(dev) <= Depth => C!Expected(v) <= Depth
      BY <3>2, <3>3, <3>4
    <3>. QED
      BY <1>1, <2>3, <3>5 DEF Roomy
  <2>8. Reported(v)
    BY <1>1, <2>2, <2>3 DEF Reported
  <2>9. BusKept(v, past')
    BY <1>1, <2>3, <2>4, <2>5, <2>6, <2>7, <2>8 DEF BusKept
  <2>. QED
    BY <2>1, <2>9, BusRefreshed
<1>. QED
  BY <1>2, <1>3, <1>4

LEMMA BusBegins ==
    ASSUME NEW c, \A f \in BusFields : c[f] = C!Cleared[f], BusFields \subseteq DOMAIN c,
           NEW p, BusPast \subseteq DOMAIN p, p.queued = 0, p.ran = <<>>, p.came = 0, p.read = <<>>, p.answered = 0,
           p.heard = <<>>
    PROVE  BusKept(c, p)
<1>1. /\ c.cmds = <<>> /\ c.slaveTx = <<>> /\ c.rdReq = FALSE /\ c.rx = <<>> /\ c.abort = {} /\ c.lost = {}
      /\ c.failed = {} /\ c.left = 0
  BY DEF C!Cleared, BusFields
<1>2. Ordered(<<>> \o <<>>, 0, {})
  <2>1. <<>> \o <<>> = <<>>
    <3>1. <<>> \in Seq(Nat)
      OBVIOUS
    <3>. QED
      BY <3>1, ConcatEmptySeq
  <2>2. Ordered(<<>>, 0, {})
    BY DEF Ordered
  <2>. QED
    BY <2>1, <2>2
<1>3. Names(<<>>) = <<>>
  BY DEF Names
<1>4. Ran(c, p) /\ Heard(c, p) /\ Come(c, p) /\ Reported(c)
  BY <1>1, <1>2, <1>3, UartAssumption DEF Ran, Heard, Come, Reported
<1>5. Roomy(c)
  <2>1. Asked(c.cmds) = {}
    BY <1>1 DEF Asked
  <2>2. C!Expected(c) = Len(c.rx) + Cardinality(Asked(c.cmds))
    BY <1>4, Expectation DEF Ran, Come
  <2>3. Cardinality(Asked(c.cmds)) = 0
    BY <2>1, FS_EmptySet
  <2>4. C!Expected(c) = 0 /\ Depth \in Nat
    BY <1>1, <2>2, <2>3, UartAssumption
  <2>. QED
    BY <2>4 DEF Roomy
<1>. QED
  BY <1>4, <1>5 DEF BusKept

\* the interrupts and the other registers keep the account.
LEMMA I2cRegistersKeep ==
    ASSUME BusKept(dev, past),
           \/ C!StretchNext \/ C!SlaveStop \/ C!ClearInterrupts \/ C!WriteSettings
           \/ C!EnterHandler \/ C!ResetCore \/ C!WriteNvic \/ C!Reset
    PROVE  BusKept(dev', past')
<1>1. /\ BusFields \subseteq DOMAIN dev /\ BusPast \subseteq DOMAIN past
      /\ Ran(dev, past) /\ Heard(dev, past) /\ Come(dev, past) /\ Roomy(dev) /\ Reported(dev)
  BY DEF BusKept
<1>2. CASE C!StretchNext
  <2>1. past' = past /\ DOMAIN dev' = DOMAIN dev /\ \A f \in BusFields : dev'[f] = dev[f]
    BY <1>1, <1>2 DEF C!StretchNext, BusFields
  <2>. QED
    BY <2>1, BusSame
<1>3. CASE C!SlaveStop
  <2>1. past' = past /\ dev' = C!RefreshIrq([dev EXCEPT !.raw = @ \cup {"STOP_DET"}])
    BY <1>3 DEF C!SlaveStop
  <2>. QED
    BY <2>1, BusInterrupts, BusRefreshed
<1>4. CASE C!ClearInterrupts
  <2>1. past' = past
    BY <1>4 DEF C!ClearInterrupts
  <2>2. ASSUME NEW v, DOMAIN v = DOMAIN dev, \A f \in BusFields \ {"raw", "abort", "failed", "silenced"} : v[f] = dev[f],
               "RX_FULL" \in dev.raw \/ dev.silenced => "RX_FULL" \in v.raw \/ v.silenced, Reported(v)
        PROVE  BusKept(C!RefreshIrq(v), past)
    <3>1. /\ v.cmds = dev.cmds /\ v.left = dev.left /\ v.slaveTx = dev.slaveTx /\ v.rdReq = dev.rdReq /\ v.rx = dev.rx
          /\ v.crowded = dev.crowded /\ v.lost = dev.lost
      BY <2>2 DEF BusFields
    <3>2. Ran(v, past) /\ Heard(v, past) /\ Come(v, past) /\ Roomy(v)
      BY <1>1, <2>2, <3>1, RanSame, HeardSame, ComeSame, RoomSame
    <3>3. BusKept(v, past)
      BY <1>1, <2>2, <3>2 DEF BusKept
    <3>. QED
      BY <3>3, BusRefreshed
  <2>3. CASE dev' = C!RefreshIrq([dev EXCEPT !.raw = @ \ {"TX_ABRT"}, !.abort = {}, !.failed = {}])
    <3>. DEFINE v == [dev EXCEPT !.raw = @ \ {"TX_ABRT"}, !.abort = {}, !.failed = {}]
    <3>1. /\ DOMAIN v = DOMAIN dev /\ \A f \in BusFields \ {"raw", "abort", "failed"} : v[f] = dev[f]
          /\ v.raw = dev.raw \ {"TX_ABRT"} /\ v.abort = {} /\ v.failed = {} /\ v.silenced = dev.silenced
      BY <1>1 DEF BusFields
    <3>. HIDE DEF v
    <3>2. Reported(v) /\ ("RX_FULL" \in dev.raw \/ dev.silenced => "RX_FULL" \in v.raw \/ v.silenced)
      BY <3>1 DEF Reported
    <3>3. BusKept(C!RefreshIrq(v), past)
      BY <2>2, <3>1, <3>2
    <3>. QED
      BY <2>1, <2>3, <3>3 DEF v
  <2>4. CASE dev' = C!RefreshIrq([dev EXCEPT !.raw = @ \ {"STOP_DET"}])
    <3>. DEFINE v == [dev EXCEPT !.raw = @ \ {"STOP_DET"}]
    <3>1. /\ DOMAIN v = DOMAIN dev /\ \A f \in BusFields \ {"raw"} : v[f] = dev[f]
          /\ v.raw = dev.raw \ {"STOP_DET"} /\ v.abort = dev.abort /\ v.failed = dev.failed /\ v.silenced = dev.silenced
      BY <1>1 DEF BusFields
    <3>. HIDE DEF v
    <3>2. Reported(v) /\ ("RX_FULL" \in dev.raw \/ dev.silenced => "RX_FULL" \in v.raw \/ v.silenced)
      BY <1>1, <3>1 DEF Reported
    <3>3. BusKept(C!RefreshIrq(v), past)
      BY <2>2, <3>1, <3>2
    <3>. QED
      BY <2>1, <2>4, <3>3 DEF v
  <2>5. CASE dev' = C!RefreshIrq([dev EXCEPT !.raw = {}, !.abort = {}, !.failed = {}, !.silenced = TRUE])
    <3>. DEFINE v == [dev EXCEPT !.raw = {}, !.abort = {}, !.failed = {}, !.silenced = TRUE]
    <3>1. /\ DOMAIN v = DOMAIN dev /\ \A f \in BusFields \ {"raw", "abort", "failed", "silenced"} : v[f] = dev[f]
          /\ v.raw = {} /\ v.abort = {} /\ v.failed = {} /\ v.silenced = TRUE
      BY <1>1 DEF BusFields
    <3>. HIDE DEF v
    <3>2. Reported(v) /\ ("RX_FULL" \in dev.raw \/ dev.silenced => "RX_FULL" \in v.raw \/ v.silenced)
      BY <3>1 DEF Reported
    <3>3. BusKept(C!RefreshIrq(v), past)
      BY <2>2, <3>1, <3>2
    <3>. QED
      BY <2>1, <2>5, <3>3 DEF v
  <2>. QED
    BY <1>4, <2>3, <2>4, <2>5 DEF C!ClearInterrupts
<1>5. CASE C!WriteSettings
  <2>1. PICK s \in I2cSettings :
            LET new == [f \in DOMAIN dev |-> IF f \in DOMAIN s THEN s[f] ELSE dev[f]]
            IN  /\ dev' = IF "mask" \in DOMAIN s THEN C!RefreshIrq(new) ELSE new
                /\ past' = [past EXCEPT !.changes = @ + 1]
    BY <1>5 DEF C!WriteSettings
  <2>. DEFINE new == [f \in DOMAIN dev |-> IF f \in DOMAIN s THEN s[f] ELSE dev[f]]
  <2>2. dev' = new \/ dev' = C!RefreshIrq(new)
    BY <2>1
  <2>3. DOMAIN new = DOMAIN dev /\ \A f \in BusFields : new[f] = dev[f]
    BY <1>1, I2cSettingsAssumption DEF BusFields
  <2>. HIDE DEF new
  <2>4. DOMAIN past' = DOMAIN past /\ \A f \in BusPast : past'[f] = past[f]
    BY <1>1, <2>1 DEF BusPast
  <2>5. BusKept(new, past')
    BY <2>3, <2>4, BusSame
  <2>. QED
    BY <2>2, <2>5, BusRefreshed
<1>6. CASE C!EnterHandler \/ C!ResetCore \/ C!WriteNvic
  <2>1. past' = past /\ \E p, q : dev' = [dev EXCEPT !.pend = p, !.touched = q]
    BY <1>6 DEF C!EnterHandler, C!ResetCore, C!WriteNvic
  <2>2. DOMAIN dev' = DOMAIN dev /\ \A f \in BusFields : dev'[f] = dev[f]
    BY <1>1, <2>1 DEF BusFields
  <2>. QED
    BY <2>1, <2>2, BusSame
<1>7. CASE C!Reset
  <2>1. dev' = C!RefreshIrq(C!Cleared) /\ past' = [C!Fresh(past.bounds) EXCEPT !.changes = past.changes]
    BY <1>7 DEF C!Reset
  <2>2. /\ BusPast \subseteq DOMAIN past' /\ past'.queued = 0 /\ past'.ran = <<>> /\ past'.came = 0 /\ past'.read = <<>>
        /\ past'.answered = 0 /\ past'.heard = <<>>
    BY <2>1 DEF C!Fresh, BusPast
  <2>3. BusFields \subseteq DOMAIN C!Cleared
    BY DEF C!Cleared, BusFields
  <2>4. BusKept(C!Cleared, past')
    BY <2>2, <2>3, BusBegins
  <2>. QED
    BY <2>1, <2>4, BusRefreshed
<1>. QED
  BY <1>2, <1>3, <1>4, <1>5, <1>6, <1>7

LEMMA I2cBegins == ASSUME C!Init PROVE BusKept(dev, past)
<1>1. PICK bounds : dev = C!Cleared /\ past = C!Fresh(bounds)
  BY DEF C!Init
<1>2. /\ BusPast \subseteq DOMAIN past /\ past.queued = 0 /\ past.ran = <<>> /\ past.came = 0 /\ past.read = <<>>
      /\ past.answered = 0 /\ past.heard = <<>>
  BY <1>1 DEF C!Fresh, BusPast
<1>3. BusFields \subseteq DOMAIN C!Cleared
  BY DEF C!Cleared, BusFields
<1>. QED
  BY <1>1, <1>2, <1>3, BusBegins

LEMMA I2cStepKeeps ==
    ASSUME BusKept(dev, past), C!Next
    PROVE  BusKept(dev', past')
BY I2cClockKeeps, SlaveKeeps, DataCmdKeeps, I2cRegistersKeep DEF C!Next, C!DmaPaced

\* So what the I2C controller says of its bytes is so.
LEMMA I2cAccounted == ASSUME BusKept(dev, past) PROVE C!Accounted
<1>1. C!Ids(dev.cmds) = Names(dev.cmds)
  BY DEF C!Ids, Names
<1>. QED
  BY <1>1 DEF C!Accounted, C!InOrder, Ordered, BusKept, Ran, Heard, Come, Reported

-----------------------------------------------------------------------------
(* The edges of the pins *)

\* An edge of a pin at the k-th sample
EdgeAt(s, e, k) ==
    k > 1 /\ (e[1] \in s[k]) = (e[2] = "RISE") /\ (e[1] \in s[k]) # (e[1] \in s[k - 1])

\* Those latched are those since they were told, and the next sample is compared with the last.
Latches(i, p) ==
    /\ \A e \in G!Edges : e \in i.intr <=> \E k \in p.told[e] + 1..Len(p.samples) : EdgeAt(p.samples, e, k)
    /\ (p.samples # <<>> => i.intr \ G!Edges = G!LevelBits(p.samples[Len(p.samples)]))
EdgeFollows(i, p) ==
    /\ i.primed \in BOOLEAN /\ (i.primed <=> p.samples # <<>>)
    /\ (p.samples # <<>> => i.prev = p.samples[Len(p.samples)])

PinFacts == {"intr", "prev", "primed"}
PinsPast(p) ==
    /\ {"samples", "told"} \subseteq DOMAIN p /\ p.samples \in Seq(SUBSET Pin)
    /\ p.told \in [G!Edges -> Nat] /\ \A e \in G!Edges : p.told[e] <= Len(p.samples)

PinsKept(i, p) == PinFacts \subseteq DOMAIN i /\ PinsPast(p) /\ Latches(i, p) /\ EdgeFollows(i, p)

LEMMA PinsStay ==
    ASSUME NEW i, NEW p, PinsKept(i, p), NEW v, DOMAIN v = DOMAIN i, \A f \in PinFacts : v[f] = i[f],
           NEW q, DOMAIN q = DOMAIN p, q.samples = p.samples, q.told = p.told
    PROVE  PinsKept(v, q)
<1>1. v.intr = i.intr /\ v.prev = i.prev /\ v.primed = i.primed
  BY DEF PinFacts
<1>2. Latches(v, q)
  BY <1>1 DEF PinsKept, Latches
<1>3. EdgeFollows(v, q)
  BY <1>1 DEF PinsKept, EdgeFollows
<1>. QED
  BY <1>2, <1>3 DEF PinsKept, PinsPast

LEMMA PinsRefreshKeeps ==
    ASSUME NEW i, NEW p, PinsKept(i, p)
    PROVE  PinsKept(G!RefreshIrq(i), p)
<1>. DEFINE v == G!RefreshIrq(i)
<1>1. DOMAIN v = DOMAIN i /\ \A f \in PinFacts : v[f] = i[f]
  BY DEF G!RefreshIrq, PinFacts, PinsKept
<1>. HIDE DEF v
<1>2. PinsKept(v, p)
  BY <1>1, PinsStay
<1>. QED
  BY <1>2 DEF v

\* A sample latches the edges from the one before it.
LEMMA PollKeeps ==
    ASSUME NEW i, NEW p, PinsKept(i, p), NEW high \in SUBSET Pin,
           NEW v, DOMAIN v = DOMAIN i, v.prev = high, v.primed = TRUE,
           v.intr = (i.intr \cap G!Edges) \cup G!LevelBits(high)
                        \cup ((IF i.primed THEN high \ i.prev ELSE {}) \X {"RISE"})
                        \cup ((IF i.primed THEN i.prev \ high ELSE {}) \X {"FALL"}),
           NEW q, DOMAIN q = DOMAIN p, q.samples = Append(p.samples, high), q.told = p.told
    PROVE  PinsKept(v, q)
<1>. DEFINE n == Len(p.samples)
            s == p.samples
            t == q.samples
<1>1. /\ s \in Seq(SUBSET Pin) /\ p.told \in [G!Edges -> Nat] /\ \A e \in G!Edges : p.told[e] <= n
      /\ \A e \in G!Edges : e \in i.intr <=> \E k \in p.told[e] + 1..n : EdgeAt(s, e, k)
      /\ i.primed \in BOOLEAN /\ (i.primed <=> s # <<>>) /\ (s # <<>> => i.prev = s[n])
  BY DEF PinsKept, PinsPast, Latches, EdgeFollows
<1>2. n \in Nat /\ (s # <<>> <=> n > 0)
  BY <1>1, LenProperties, EmptySeq
<1>3. /\ t \in Seq(SUBSET Pin) /\ Len(t) = n + 1 /\ t[n + 1] = high /\ \A k \in 1..n : t[k] = s[k]
  BY <1>1, AppendProperties
<1>. HIDE DEF n, s, t
<1>4. ASSUME i.primed PROVE i.prev \in SUBSET Pin
  <2>1. i.prev = s[n] /\ n \in 1..n
    BY <1>1, <1>2, <1>4
  <2>2. s[n] \in SUBSET Pin
    BY <1>1, <2>1, ElementOfSeq DEF n, s
  <2>. QED
    BY <2>1, <2>2
<1>5. ASSUME NEW e \in G!Edges
      PROVE  e \in v.intr <=> e \in i.intr \/ EdgeAt(t, e, n + 1)
  <2>. DEFINE rise == IF i.primed THEN high \ i.prev ELSE {}
              fall == IF i.primed THEN i.prev \ high ELSE {}
  <2>1. PICK x \in Pin, d \in {"FALL", "RISE"} : e = <<x, d>>
    BY DEF G!Edges
  <2>2. e \notin G!LevelBits(high)
    BY <2>1 DEF G!LevelBits
  <2>3. e \in v.intr <=> e \in i.intr \/ e \in (rise \X {"RISE"}) \/ e \in (fall \X {"FALL"})
    BY <2>2
  <2>4. e \in (rise \X {"RISE"}) <=> d = "RISE" /\ x \in rise
    <3>. HIDE DEF rise
    <3>. QED
      BY <2>1
  <2>5. e \in (fall \X {"FALL"}) <=> d = "FALL" /\ x \in fall
    <3>. HIDE DEF fall
    <3>. QED
      BY <2>1
  <2>6. CASE i.primed
    <3>1. n > 0 /\ t[n] = i.prev /\ n + 1 > 1 /\ (n + 1) - 1 = n
      BY <1>1, <1>2, <1>3, <2>6
    <3>2. EdgeAt(t, e, n + 1) <=> (x \in high) = (d = "RISE") /\ (x \in high) # (x \in i.prev)
      BY <1>3, <2>1, <3>1 DEF EdgeAt
    <3>3. (x \in rise <=> x \in high /\ x \notin i.prev) /\ (x \in fall <=> x \in i.prev /\ x \notin high)
      BY <2>6
    <3>. HIDE DEF rise, fall
    <3>4. d = "RISE" \/ d = "FALL"
      OBVIOUS
    <3>. QED
      BY <2>3, <2>4, <2>5, <3>2, <3>3, <3>4
  <2>7. CASE ~i.primed
    <3>1. ~EdgeAt(t, e, n + 1)
      BY <1>1, <1>2, <2>7 DEF EdgeAt
    <3>2. x \notin rise /\ x \notin fall
      BY <2>7
    <3>. HIDE DEF rise, fall
    <3>. QED
      BY <2>3, <2>4, <2>5, <3>1, <3>2
  <2>. QED
    BY <1>1, <2>6, <2>7
<1>6. ASSUME NEW e \in G!Edges, NEW k \in 1..n PROVE EdgeAt(t, e, k) <=> EdgeAt(s, e, k)
  <2>1. CASE k > 1
    <3>1. k - 1 \in 1..n
      BY <1>2, <2>1
    <3>. QED
      BY <1>3, <3>1 DEF EdgeAt
  <2>2. CASE ~(k > 1)
    BY <2>2 DEF EdgeAt
  <2>. QED
    BY <2>1, <2>2
<1>7. ASSUME NEW e \in G!Edges
      PROVE  e \in v.intr <=> \E k \in p.told[e] + 1..n + 1 : EdgeAt(t, e, k)
  <2>1. PICK m \in Nat : m = p.told[e] /\ m <= n
    BY <1>1
  <2>2. (\E k \in m + 1..n : EdgeAt(s, e, k)) <=> \E k \in m + 1..n : EdgeAt(t, e, k)
    <3>1. \A k \in m + 1..n : k \in 1..n
      BY <1>2
    <3>. QED
      BY <1>6, <3>1
  <2>3. \A k : k \in m + 1..n + 1 <=> k \in m + 1..n \/ k = n + 1
    BY <1>2, <2>1
  <2>4. (\E k \in m + 1..n + 1 : EdgeAt(t, e, k)) <=> (\E k \in m + 1..n : EdgeAt(t, e, k)) \/ EdgeAt(t, e, n + 1)
    BY <2>3
  <2>5. e \in i.intr <=> \E k \in m + 1..n : EdgeAt(s, e, k)
    BY <1>1, <2>1
  <2>6. e \in v.intr <=> \E k \in m + 1..n + 1 : EdgeAt(t, e, k)
    BY <1>5, <2>2, <2>4, <2>5
  <2>. QED
    BY <2>1, <2>6
<1>8. v.intr \ G!Edges = G!LevelBits(high)
  <2>1. G!LevelBits(high) \cap G!Edges = {}
    BY DEF G!LevelBits, G!Edges
  <2>2. ((IF i.primed THEN high \ i.prev ELSE {}) \X {"RISE"}) \subseteq G!Edges
    BY <1>4 DEF G!Edges
  <2>3. ((IF i.primed THEN i.prev \ high ELSE {}) \X {"FALL"}) \subseteq G!Edges
    BY <1>4 DEF G!Edges
  <2>. QED
    BY <2>1, <2>2, <2>3
<1>9. t # <<>>
  BY <1>1, AppendProperties DEF s, t
<1>10. Latches(v, q)
  BY <1>3, <1>7, <1>8 DEF Latches, t
<1>11. EdgeFollows(v, q)
  BY <1>3, <1>9 DEF EdgeFollows, t
<1>12. PinsPast(q)
  <2>1. {"samples", "told"} \subseteq DOMAIN q
    BY DEF PinsKept, PinsPast
  <2>2. \A e \in G!Edges : p.told[e] <= n + 1
    BY <1>1, <1>2
  <2>. QED
    BY <1>1, <1>3, <2>1, <2>2 DEF PinsPast, t
<1>. QED
  BY <1>10, <1>11, <1>12 DEF PinsKept

\* An edge that is acknowledged is told, at all that was sampled.
LEMMA AcknowledgeKeeps ==
    ASSUME NEW i, NEW p, PinsKept(i, p), NEW value,
           NEW v, DOMAIN v = DOMAIN i, v.prev = i.prev, v.primed = i.primed, v.intr = i.intr \ (value \cap G!Edges),
           NEW q, DOMAIN q = DOMAIN p, q.samples = p.samples,
           q.told = [e \in G!Edges |-> IF e \in value THEN Len(p.samples) ELSE p.told[e]]
    PROVE  PinsKept(v, q)
<1>1. PICK n \in Nat : n = Len(p.samples)
  BY LenProperties DEF PinsKept, PinsPast
<1>2. /\ {"samples", "told"} \subseteq DOMAIN p /\ p.samples \in Seq(SUBSET Pin)
      /\ p.told \in [G!Edges -> Nat] /\ \A e \in G!Edges : p.told[e] <= n
      /\ \A e \in G!Edges : e \in i.intr <=> \E k \in p.told[e] + 1..n : EdgeAt(p.samples, e, k)
  BY <1>1 DEF PinsKept, PinsPast, Latches
<1>3. \A e \in G!Edges : q.told[e] = IF e \in value THEN n ELSE p.told[e]
  BY <1>1
<1>4. q.told \in [G!Edges -> Nat] /\ \A e \in G!Edges : q.told[e] <= n
  BY <1>1, <1>2, <1>3
<1>5. ASSUME NEW e \in G!Edges
      PROVE  e \in v.intr <=> \E k \in q.told[e] + 1..n : EdgeAt(p.samples, e, k)
  <2>1. CASE e \in value
    <3>1. q.told[e] + 1..n = {}
      BY <1>3, <2>1
    <3>. QED
      BY <2>1, <3>1
  <2>2. CASE e \notin value
    <3>1. q.told[e] = p.told[e] /\ (e \in v.intr <=> e \in i.intr)
      BY <1>3, <2>2
    <3>. QED
      BY <1>2, <3>1
  <2>. QED
    BY <2>1, <2>2
<1>6. Latches(v, q)
  <2>1. v.intr \ G!Edges = i.intr \ G!Edges
    OBVIOUS
  <2>. QED
    BY <1>1, <1>5, <2>1 DEF Latches, PinsKept
<1>7. EdgeFollows(v, q)
  BY DEF EdgeFollows, PinsKept
<1>8. PinsPast(q)
  BY <1>1, <1>2, <1>4 DEF PinsPast
<1>. QED
  BY <1>6, <1>7, <1>8 DEF PinsKept

\* Nothing is latched of pins that were not sampled.
LEMMA PinsForget ==
    ASSUME NEW i, i.intr = {}, i.primed = FALSE, PinFacts \subseteq DOMAIN i,
           NEW p, {"samples", "told"} \subseteq DOMAIN p, p.samples = <<>>, p.told = [e \in G!Edges |-> 0]
    PROVE  PinsKept(i, p)
<1>1. Len(p.samples) = 0 /\ p.samples \in Seq(SUBSET Pin)
  OBVIOUS
<1>2. \A e \in G!Edges : p.told[e] = 0
  OBVIOUS
<1>3. p.told \in [G!Edges -> Nat]
  OBVIOUS
<1>4. PinsPast(p)
  <2>1. \A e \in G!Edges : p.told[e] <= Len(p.samples)
    BY <1>1, <1>2
  <2>. QED
    BY <1>1, <1>3, <2>1 DEF PinsPast
<1>5. Latches(i, p)
  <2>1. ASSUME NEW e \in G!Edges PROVE p.told[e] + 1..Len(p.samples) = {}
    BY <1>1, <1>2
  <2>. QED
    BY <2>1 DEF Latches
<1>6. EdgeFollows(i, p)
  BY DEF EdgeFollows
<1>. QED
  BY <1>4, <1>5, <1>6 DEF PinsKept

LEMMA PinsBeginKept == ASSUME G!Init PROVE PinsKept(dev, past)
<1>. DEFINE b == G!Cleared([c \in G!Core |-> FALSE])
<1>1. dev = G!Both(b, G!Outside)
  BY DEF G!Init
<1>2. PICK t : past = G!Both(G!Unsampled, [left |-> t])
  BY DEF G!Init
<1>3. b.intr = {} /\ b.primed = FALSE /\ PinFacts \subseteq DOMAIN b
  BY DEF G!Cleared, PinFacts
<1>. HIDE DEF b
<1>4. dev.intr = {} /\ dev.primed = FALSE /\ PinFacts \subseteq DOMAIN dev
  BY <1>1, <1>3 DEF G!Both, PinFacts
<1>5. {"samples", "told"} \subseteq DOMAIN past /\ past.samples = <<>> /\ past.told = [e \in G!Edges |-> 0]
  BY <1>2 DEF G!Both, G!Unsampled
<1>. QED
  BY <1>4, <1>5, PinsForget

LEMMA PinsStepKeeps ==
    ASSUME PinsKept(dev, past), G!Next
    PROVE  PinsKept(dev', past')
<1>1. PinFacts \subseteq DOMAIN dev /\ {"samples", "told"} \subseteq DOMAIN past
  BY DEF PinsKept, PinsPast
<1>2. ASSUME NEW n, past' = [past EXCEPT !.left = n]
      PROVE  DOMAIN past' = DOMAIN past /\ past'.samples = past.samples /\ past'.told = past.told
  BY <1>1, <1>2
<1>3. ASSUME NEW f \in {"func", "over", "out", "oe", "pull", "ext"}, NEW n, G!Moved([dev EXCEPT ![f] = n])
      PROVE  PinsKept(dev', past')
  <2>1. DOMAIN dev' = DOMAIN dev /\ \A g \in PinFacts : dev'[g] = dev[g]
    BY <1>1, <1>3 DEF G!Moved, PinFacts
  <2>2. PICK m : past' = [past EXCEPT !.left = m]
    BY <1>3 DEF G!Moved
  <2>3. DOMAIN past' = DOMAIN past /\ past'.samples = past.samples /\ past'.told = past.told
    BY <1>2, <2>2
  <2>. QED
    BY <2>1, <2>3, PinsStay
<1>4. ASSUME NEW f \in {"inte", "intf"}, NEW n, G!Written([dev EXCEPT ![f] = n])
      PROVE  PinsKept(dev', past')
  <2>. DEFINE v == [dev EXCEPT ![f] = n]
  <2>1. DOMAIN v = DOMAIN dev /\ \A g \in PinFacts : v[g] = dev[g]
    BY <1>1, <1>4 DEF PinFacts
  <2>2. dev' = G!RefreshIrq(v)
    BY <1>4 DEF G!Written
  <2>. HIDE DEF v
  <2>3. PICK m : past' = [past EXCEPT !.left = m]
    BY <1>4 DEF G!Written
  <2>4. DOMAIN past' = DOMAIN past /\ past'.samples = past.samples /\ past'.told = past.told
    BY <1>2, <2>3
  <2>5. PinsKept(v, past')
    BY <2>1, <2>4, PinsStay
  <2>. QED
    BY <2>2, <2>5, PinsRefreshKeeps
<1>5. CASE G!Poll
  <2>. DEFINE high == {p \in Pin : G!IrqLevel(p)}
              n == G!Latched(high)
              v == [dev EXCEPT !.intr = n, !.prev = high, !.primed = TRUE]
  <2>1. dev' = G!RefreshIrq(v)
    BY <1>5 DEF G!Poll
  <2>2. PICK m : past' = [past EXCEPT !.samples = Append(@, high), !.left = m]
    BY <1>5 DEF G!Poll
  <2>3. high \in SUBSET Pin
    OBVIOUS
  <2>. HIDE DEF high
  <2>4. n = (dev.intr \cap G!Edges) \cup G!LevelBits(high)
                \cup ((IF dev.primed THEN high \ dev.prev ELSE {}) \X {"RISE"})
                \cup ((IF dev.primed THEN dev.prev \ high ELSE {}) \X {"FALL"})
    BY DEF G!Latched
  <2>. HIDE DEF n
  <2>5. DOMAIN v = DOMAIN dev /\ v.prev = high /\ v.primed = TRUE /\ v.intr = n
    BY <1>1 DEF PinFacts
  <2>. HIDE DEF v
  <2>6. DOMAIN past' = DOMAIN past /\ past'.samples = Append(past.samples, high) /\ past'.told = past.told
    BY <1>1, <2>2
  <2>7. PinsKept(v, past')
    BY <2>3, <2>4, <2>5, <2>6, PollKeeps
  <2>. QED
    BY <2>1, <2>7, PinsRefreshKeeps
<1>6. CASE G!WriteCtrl
  <2>1. PICK x, y : G!Moved([dev EXCEPT !.func = x, !.over = y])
    BY <1>6 DEF G!WriteCtrl
  <2>2. DOMAIN dev' = DOMAIN dev /\ \A g \in PinFacts : dev'[g] = dev[g]
    BY <1>1, <2>1 DEF G!Moved, PinFacts
  <2>3. PICK m : past' = [past EXCEPT !.left = m]
    BY <2>1 DEF G!Moved
  <2>4. DOMAIN past' = DOMAIN past /\ past'.samples = past.samples /\ past'.told = past.told
    BY <1>2, <2>3
  <2>. QED
    BY <2>2, <2>4, PinsStay
<1>7. CASE G!Drive
  BY <1>3, <1>7 DEF G!Drive
<1>8. CASE G!WritePad \/ G!SetExternal \/ G!ResetPads
  BY <1>3, <1>8 DEF G!WritePad, G!SetExternal, G!ResetPads
<1>9. CASE G!WriteEnables \/ G!WriteForce
  BY <1>4, <1>9 DEF G!WriteEnables, G!WriteForce
<1>10. CASE G!Acknowledge
  <2>1. PICK value, m :
            /\ dev' = G!RefreshIrq([dev EXCEPT !.intr = @ \ (value \cap G!Edges)])
            /\ past' = [past EXCEPT !.left = m,
                            !.told = [e \in G!Edges |-> IF e \in value THEN Len(past.samples) ELSE @[e]]]
    BY <1>10 DEF G!Acknowledge
  <2>. DEFINE n == dev.intr \ (value \cap G!Edges)
              v == [dev EXCEPT !.intr = n]
              t == [e \in G!Edges |-> IF e \in value THEN Len(past.samples) ELSE past.told[e]]
  <2>2. dev' = G!RefreshIrq(v) /\ past' = [past EXCEPT !.left = m, !.told = t]
    BY <2>1
  <2>. HIDE DEF n, t
  <2>3. DOMAIN v = DOMAIN dev /\ v.prev = dev.prev /\ v.primed = dev.primed /\ v.intr = n
    BY <1>1 DEF PinFacts
  <2>. HIDE DEF v
  <2>4. DOMAIN past' = DOMAIN past /\ past'.samples = past.samples /\ past'.told = t
    BY <1>1, <2>2
  <2>5. /\ v.intr = dev.intr \ (value \cap G!Edges)
        /\ past'.told = [e \in G!Edges |-> IF e \in value THEN Len(past.samples) ELSE past.told[e]]
    BY <2>3, <2>4 DEF n, t
  <2>6. PinsKept(v, past')
    BY <2>3, <2>4, <2>5, AcknowledgeKeeps, SMTT(60)
  <2>. QED
    BY <2>2, <2>6, PinsRefreshKeeps
<1>11. CASE G!EnterHandler \/ G!ResetCore \/ G!WriteNvic
  <2>1. past' = past /\ \E p, q : dev' = [dev EXCEPT !.pend = p, !.touched = q]
    BY <1>11 DEF G!EnterHandler, G!ResetCore, G!WriteNvic
  <2>2. DOMAIN dev' = DOMAIN dev /\ \A f \in PinFacts : dev'[f] = dev[f]
    BY <1>1, <2>1 DEF PinFacts
  <2>. QED
    BY <2>1, <2>2, PinsStay
<1>12. CASE G!ResetBank
  <2>. DEFINE b == G!Cleared(dev.pend)
              v == G!Both(b, dev)
  <2>1. dev' = G!RefreshIrq(v)
    BY <1>12 DEF G!ResetBank
  <2>2. b.intr = {} /\ b.primed = FALSE /\ PinFacts \subseteq DOMAIN b
    BY DEF G!Cleared, PinFacts
  <2>. HIDE DEF b
  <2>3. v.intr = {} /\ v.primed = FALSE /\ PinFacts \subseteq DOMAIN v
    BY <2>2 DEF G!Both, PinFacts
  <2>. HIDE DEF v
  <2>4. PICK r : past' = G!Both(G!Unsampled, r)
    BY <1>12 DEF G!ResetBank
  <2>5. {"samples", "told"} \subseteq DOMAIN past' /\ past'.samples = <<>> /\ past'.told = [e \in G!Edges |-> 0]
    BY <2>4 DEF G!Both, G!Unsampled
  <2>6. PinsKept(v, past')
    BY <2>3, <2>5, PinsForget
  <2>. QED
    BY <2>1, <2>6, PinsRefreshKeeps
<1>13. CASE G!Rest
  BY <1>13 DEF G!Rest, G!vars
<1>. QED
  BY <1>5, <1>6, <1>7, <1>8, <1>9, <1>10, <1>11, <1>12, <1>13 DEF G!Next

\* So the edges that are latched are those that the pins had.
LEMMA PinsAccounted == ASSUME PinsKept(dev, past) PROVE G!Accounted
<1>1. Latches(dev, past)
  BY DEF PinsKept
<1>2. \A e \in G!Edges :
        e \in dev.intr <=> \E i \in past.told[e] + 1..Len(past.samples) :
                                /\ i > 1
                                /\ (e[1] \in past.samples[i]) = (e[2] = "RISE")
                                /\ (e[1] \in past.samples[i]) # (e[1] \in past.samples[i - 1])
  <2>1. \A e \in G!Edges : e \in dev.intr <=> \E k \in past.told[e] + 1..Len(past.samples) : EdgeAt(past.samples, e, k)
    BY <1>1 DEF Latches
  <2>. QED
    BY <2>1 DEF EdgeAt
<1>3. past.samples # <<>> => dev.intr \ G!Edges = G!LevelBits(past.samples[Len(past.samples)])
  BY <1>1 DEF Latches
<1>. QED
  BY <1>2, <1>3 DEF G!Accounted

-----------------------------------------------------------------------------
(* Round robin of the ADC *)

\* How far c is after x, round N inputs
Distance(N, x, c) == (c - x) % N

\* The next of M after an input
NextIn(M, N, from) == CHOOSE c \in M : \A d \in M : (c - from - 1) % N <= (d - from - 1) % N

LEMMA DistanceIs ==
    ASSUME NEW N \in Nat \ {0}, NEW a \in 0..N - 1, NEW b \in 0..N - 1
    PROVE  /\ Distance(N, b, a) = IF a >= b THEN a - b ELSE a - b + N
           /\ (a - b - 1) % N = IF a > b THEN a - b - 1 ELSE a - b - 1 + N
<1>1. ASSUME NEW v \in Int, v \in 0..N - 1 PROVE v % N = v
  <2>1. v = 0 * N + v
    OBVIOUS
  <2>. QED
    BY <1>1, <2>1, Residue
<1>2. ASSUME NEW v \in Int, v + N \in 0..N - 1 PROVE v % N = v + N
  <2>1. v = (-1) * N + (v + N) /\ -1 \in Int
    OBVIOUS
  <2>. QED
    BY <1>2, <2>1, Residue
<1>3. Distance(N, b, a) = IF a >= b THEN a - b ELSE a - b + N
  <2>1. CASE a >= b
    <3>1. a - b \in Int /\ a - b \in 0..N - 1
      BY <2>1
    <3>. QED
      BY <1>1, <2>1, <3>1 DEF Distance
  <2>2. CASE ~(a >= b)
    <3>1. a - b \in Int /\ (a - b) + N \in 0..N - 1
      BY <2>2
    <3>. QED
      BY <1>2, <2>2, <3>1 DEF Distance
  <2>. QED
    BY <2>1, <2>2
<1>4. (a - b - 1) % N = IF a > b THEN a - b - 1 ELSE a - b - 1 + N
  <2>1. CASE a > b
    <3>1. a - b - 1 \in Int /\ a - b - 1 \in 0..N - 1
      BY <2>1
    <3>. QED
      BY <1>1, <2>1, <3>1
  <2>2. CASE ~(a > b)
    <3>1. a - b - 1 \in Int /\ (a - b - 1) + N \in 0..N - 1
      BY <2>2
    <3>. QED
      BY <1>2, <2>2, <3>1
  <2>. QED
    BY <2>1, <2>2
<1>. QED
  BY <1>3, <1>4

\* The next one is among them, and the nearest.
LEMMA NextChosen ==
    ASSUME NEW N \in Nat \ {0}, NEW M \in SUBSET (0..N - 1), M # {}, NEW y \in 0..N - 1
    PROVE  /\ NextIn(M, N, y) \in M
           /\ \A d \in M : (NextIn(M, N, y) - y - 1) % N <= (d - y - 1) % N
<1>. DEFINE e(c) == (c - y - 1) % N
            E == {e(c) : c \in M}
<1>1. \A c \in M : e(c) \in Nat
  BY DistanceIs
<1>. HIDE DEF e
<1>2. E \in SUBSET Nat /\ E # {}
  BY <1>1
<1>3. PICK m \in E : \A k \in E : m <= k
  BY <1>2, LeastNumber
<1>4. PICK c \in M : e(c) = m
  OBVIOUS
<1>5. \A d \in M : e(c) <= e(d)
  BY <1>3, <1>4
<1>. QED
  BY <1>4, <1>5 DEF NextIn, e

\* Seen from one of them, it is the next one farther away, or that one itself.
LEMMA NextFarther ==
    ASSUME NEW N \in Nat \ {0}, NEW M \in SUBSET (0..N - 1), NEW x \in M, NEW y \in M, NEW n, n = NextIn(M, N, y)
    PROVE  /\ n = x => \A c \in M : Distance(N, x, c) <= Distance(N, x, y)
           /\ n # x => /\ Distance(N, x, y) < Distance(N, x, n)
                       /\ \A c \in M : Distance(N, x, c) <= Distance(N, x, y)
                                         \/ Distance(N, x, n) <= Distance(N, x, c)
<1>. DEFINE e(c) == (c - y - 1) % N
            u(c) == Distance(N, x, c)
<1>1. n \in M /\ \A c \in M : e(n) <= e(c)
  BY NextChosen
<1>2. ASSUME NEW c \in M
      PROVE  /\ u(c) \in 0..N - 1 /\ (u(c) = 0 <=> c = x)
             /\ e(c) = IF u(c) > u(y) THEN u(c) - u(y) - 1 ELSE u(c) - u(y) - 1 + N
  <2>1. c \in 0..N - 1 /\ x \in 0..N - 1 /\ y \in 0..N - 1
    OBVIOUS
  <2>2. /\ u(c) = IF c >= x THEN c - x ELSE c - x + N
        /\ u(y) = IF y >= x THEN y - x ELSE y - x + N
        /\ e(c) = IF c > y THEN c - y - 1 ELSE c - y - 1 + N
    BY <2>1, DistanceIs
  <2>. HIDE DEF u, e
  <2>. QED
    BY <2>1, <2>2
<1>. HIDE DEF u, e
<1>3. u(x) = 0 /\ u(y) \in 0..N - 1 /\ u(n) \in 0..N - 1 /\ e(x) = 0 - u(y) - 1 + N
  BY <1>1, <1>2
<1>4. ASSUME n = x, NEW c \in M PROVE u(c) <= u(y)
  BY <1>1, <1>2, <1>3, <1>4
<1>5. ASSUME n # x PROVE u(y) < u(n)
  BY <1>1, <1>2, <1>3, <1>5
<1>6. ASSUME n # x, NEW c \in M PROVE u(c) <= u(y) \/ u(n) <= u(c)
  <2>1. e(n) = u(n) - u(y) - 1
    BY <1>1, <1>2, <1>5, <1>6
  <2>. QED
    BY <1>1, <1>2, <1>3, <2>1
<1>. QED
  BY <1>4, <1>5, <1>6 DEF u

\* Two inputs are not equally far.
LEMMA DistancesDiffer ==
    ASSUME NEW N \in Nat \ {0}, NEW x \in 0..N - 1, NEW c \in 0..N - 1
    PROVE  /\ Distance(N, x, c) \in 0..N - 1 /\ (Distance(N, x, c) = 0 <=> c = x)
           /\ \A d \in 0..N - 1 : Distance(N, x, c) = Distance(N, x, d) => c = d
<1>1. Distance(N, x, c) = IF c >= x THEN c - x ELSE c - x + N
  BY DistanceIs
<1>2. ASSUME NEW d \in 0..N - 1, Distance(N, x, c) = Distance(N, x, d) PROVE c = d
  <2>1. Distance(N, x, d) = IF d >= x THEN d - x ELSE d - x + N
    BY DistanceIs
  <2>. QED
    BY <1>1, <1>2, <2>1
<1>. QED
  BY <1>1, <1>2

\* One that comes again does so after all the others.
LEMMA RoundIsFair ==
    ASSUME NEW N \in Nat \ {0}, NEW M \in SUBSET (0..N - 1), NEW s, NEW i \in Nat, NEW last \in Nat, s[i] \in M,
           \A k \in Nat : i <= k /\ k < last => s[k + 1] = NextIn(M, N, s[k])
    PROVE  /\ \A j \in i..last : s[j] \in M
           /\ \A j \in i + 1..last : s[j] = s[i] => Cardinality(M) <= j - i
<1>. DEFINE x == s[i]
            u(c) == Distance(N, x, c)
            Seen(n) == {s[m] : m \in i..i + n}
            Returned(n) == \E m \in i + 1..i + n : s[m] = x
            Q(n) == /\ s[i + n] \in M
                    /\ Returned(n) => Cardinality(M) <= n
                    /\ ~Returned(n) => Seen(n) = {c \in M : u(c) <= u(s[i + n])}
            X == {n \in Nat : i + n <= last => Q(n)}
<1>0. x \in M /\ x \in 0..N - 1 /\ \A c \in M : c \in 0..N - 1
  OBVIOUS
<1>. HIDE DEF x, Seen, Returned, Q, X
<1>1. \A c \in M : u(c) \in 0..N - 1 /\ u(c) \in Nat /\ (u(c) = 0 <=> c = x)
  <2>1. ASSUME NEW c \in M PROVE u(c) \in 0..N - 1 /\ (u(c) = 0 <=> c = x)
    BY <1>0, DistancesDiffer
  <2>2. 0..N - 1 \subseteq Nat
    OBVIOUS
  <2>. HIDE DEF u
  <2>. QED
    BY <2>1, <2>2
<1>2. \A c, d \in M : u(c) = u(d) => c = d
  <2>1. ASSUME NEW c \in M, NEW d \in M, u(c) = u(d) PROVE c = d
    <3>1. c \in 0..N - 1 /\ d \in 0..N - 1
      BY <1>0
    <3>. QED
      BY <1>0, <2>1, <3>1, DistancesDiffer
  <2>. HIDE DEF u
  <2>. QED
    BY <2>1
<1>3. ASSUME NEW n \in Nat, NEW y \in M, y = s[i + n], s[i + (n + 1)] = NextIn(M, N, y)
      PROVE  /\ s[i + (n + 1)] \in M
             /\ s[i + (n + 1)] = x => \A c \in M : u(c) <= u(y)
             /\ s[i + (n + 1)] # x => /\ u(y) < u(s[i + (n + 1)])
                                      /\ \A c \in M : u(c) <= u(y) \/ u(s[i + (n + 1)]) <= u(c)
  <2>1. PICK z : z = s[i + (n + 1)]
    OBVIOUS
  <2>2. z \in M
    <3>1. y \in 0..N - 1 /\ M # {}
      OBVIOUS
    <3>. QED
      BY <1>3, <2>1, <3>1, NextChosen
  <2>3. /\ z = x => \A c \in M : Distance(N, x, c) <= Distance(N, x, y)
        /\ z # x => /\ Distance(N, x, y) < Distance(N, x, z)
                    /\ \A c \in M : Distance(N, x, c) <= Distance(N, x, y) \/ Distance(N, x, z) <= Distance(N, x, c)
    <3>1. x \in M /\ z = NextIn(M, N, y)
      BY <1>0, <1>3, <2>1
    <3>. QED
      BY <3>1, NextFarther
  <2>. QED
    BY <2>1, <2>2, <2>3
<1>. HIDE DEF u
<1>4. x = s[i] /\ x \in M
  BY DEF x
<1>5. 0 \in X
  <2>1. ~Returned(0) /\ i + 0 = i /\ i..i = {i}
    BY DEF Returned
  <2>2. Seen(0) = {x}
    BY <1>4, <2>1 DEF Seen
  <2>3. \A c \in M : u(c) <= u(x) <=> c = x
    BY <1>1, <1>4
  <2>4. {c \in M : u(c) <= u(s[i])} = {x}
    BY <1>4, <2>3
  <2>. QED
    BY <1>4, <2>1, <2>2, <2>4 DEF Q, X
<1>6. ASSUME NEW n \in X, i + (n + 1) <= last PROVE Q(n + 1)
  <2>. DEFINE z == s[i + (n + 1)]
  <2>1. n \in Nat /\ Q(n) /\ s[i + n] \in M
    BY <1>6 DEF X, Q
  <2>2. z = NextIn(M, N, s[i + n])
    <3>1. i + n \in Nat /\ i <= i + n /\ i + n < last /\ (i + n) + 1 = i + (n + 1)
      BY <1>6, <2>1
    <3>. QED
      BY <3>1
  <2>3. PICK y \in M : y = s[i + n]
    BY <2>1
  <2>4. /\ z \in M
        /\ z = x => \A c \in M : u(c) <= u(y)
        /\ z # x => u(y) < u(z) /\ \A c \in M : u(c) <= u(y) \/ u(z) <= u(c)
    BY <1>3, <2>1, <2>2, <2>3
  <2>5. \A m : m \in i + 1..i + (n + 1) <=> m \in i + 1..i + n \/ m = i + (n + 1)
    BY <2>1
  <2>6. Returned(n + 1) <=> Returned(n) \/ z = x
    BY <2>5 DEF Returned
  <2>7. \A m : m \in i..i + (n + 1) <=> m \in i..i + n \/ m = i + (n + 1)
    BY <2>1
  <2>8. Seen(n + 1) = Seen(n) \cup {z}
    BY <2>7 DEF Seen
  <2>. HIDE DEF z
  <2>9. CASE Returned(n)
    <3>1. Cardinality(M) <= n /\ Cardinality(M) \in Nat
      <4>1. IsFiniteSet(M)
        <5>1. IsFiniteSet(0..N - 1)
          BY FS_Interval
        <5>. QED
          BY <5>1, FS_Subset
      <4>. QED
        BY <2>1, <2>9, <4>1, FS_CardinalityType DEF Q
    <3>. QED
      BY <2>1, <2>4, <2>6, <2>9, <3>1 DEF Q, z
  <2>10. CASE ~Returned(n) /\ z = x
    <3>1. Seen(n) = M
      BY <2>1, <2>3, <2>4, <2>10 DEF Q
    <3>2. Cardinality(M) <= n + 1
      <4>. DEFINE g == [m \in 1..n + 1 |-> s[i + m - 1]]
      <4>1. \A m \in 1..n + 1 : i + m - 1 \in i..i + n
        BY <2>1
      <4>2. \A m \in i..i + n : m - i + 1 \in 1..n + 1 /\ i + (m - i + 1) - 1 = m
        BY <2>1
      <4>3. g \in [1..n + 1 -> M]
        BY <3>1, <4>1 DEF Seen
      <4>4. \A c \in M : \E m \in 1..n + 1 : g[m] = c
        BY <3>1, <4>2 DEF Seen
      <4>5. ExistsSurjection(1..n + 1, M)
        BY <4>3, <4>4 DEF ExistsSurjection, Surjection
      <4>6. n + 1 \in Nat
        BY <2>1
      <4>. QED
        BY <4>5, <4>6, FS_SurjCardinalityBound
    <3>. QED
      BY <2>4, <2>6, <2>10, <3>2 DEF Q, z
  <2>11. CASE ~Returned(n) /\ z # x
    <3>1. Seen(n) = {c \in M : u(c) <= u(y)}
      BY <2>1, <2>3, <2>11 DEF Q
    <3>2. u(y) \in Nat /\ u(z) \in Nat /\ \A c \in M : u(c) \in Nat
      BY <1>1, <2>4
    <3>3. ASSUME NEW c \in M PROVE u(c) <= u(z) <=> u(c) <= u(y) \/ c = z
      BY <1>2, <2>4, <2>11, <3>2
    <3>4. Seen(n) \cup {z} = {c \in M : u(c) <= u(z)}
      BY <2>4, <3>1, <3>3
    <3>. QED
      BY <2>4, <2>6, <2>8, <2>11, <3>4 DEF Q, z
  <2>. QED
    BY <2>9, <2>10, <2>11
<1>7. X = Nat
  <2>1. X \in SUBSET Nat
    BY DEF X
  <2>2. ASSUME NEW n \in X PROVE n + 1 \in X
    <3>1. n \in Nat /\ (i + (n + 1) <= last => Q(n + 1))
      BY <1>6 DEF X
    <3>. QED
      BY <3>1 DEF X
  <2>. QED
    BY <1>5, <2>1, <2>2, Induction
<1>8. ASSUME NEW j \in i..last PROVE j - i \in Nat /\ i + (j - i) = j /\ Q(j - i)
  <2>1. j - i \in Nat /\ i + (j - i) = j /\ j <= last
    OBVIOUS
  <2>2. j - i \in X
    BY <1>7, <2>1
  <2>. QED
    BY <2>1, <2>2 DEF X
<1>9. ASSUME NEW j \in i..last PROVE s[j] \in M
  BY <1>8 DEF Q
<1>10. ASSUME NEW j \in i + 1..last, s[j] = s[i] PROVE Cardinality(M) <= j - i
  <2>1. j \in i..last
    OBVIOUS
  <2>2. Q(j - i) /\ i + (j - i) = j
    BY <1>8, <2>1
  <2>3. Returned(j - i)
    BY <1>4, <1>10, <2>2 DEF Returned
  <2>. QED
    BY <2>2, <2>3 DEF Q
<1>. QED
  BY <1>9, <1>10

(* The samples of the ADC *)

AdcAll ==
    {"en", "many", "ready", "ainsel", "rrobin", "fcsEn", "dreqEn", "over", "under", "thresh", "div", "fifo",
     "converting", "left", "inte", "intf", "pend", "touched", "age", "due"}
AdcPast == {"number", "kept", "read", "untold", "round", "wrong", "writes"}
SampleFields == {"fifo", "over", "ainsel", "rrobin", "fcsEn"}

Inputs == 0..Channels - 1

Buffered(fifo, p) ==
    /\ fifo \in Seq(Nat) /\ Len(fifo) <= FifoDepth
    /\ \E taken \in Seq(Nat) : p.kept = taken \o fifo /\ p.read = Len(taken)

Robin(mask, sel, p) ==
    /\ mask \in SUBSET Inputs /\ sel \in Nat /\ p.round \in Seq(Inputs)
    /\ mask # {} =>
         /\ \A k \in Nat : 1 <= k /\ k < Len(p.round) => p.round[k + 1] = NextIn(mask, Channels, p.round[k])
         /\ p.round # <<>> => sel = NextIn(mask, Channels, p.round[Len(p.round)])

AdcKept(a, p) ==
    /\ AdcAll \subseteq DOMAIN a /\ AdcPast \subseteq DOMAIN p /\ p.number \in Nat
    /\ Buffered(a.fifo, p) /\ (p.untold => a.over)
    /\ Robin(a.rrobin, a.ainsel, p)

LEMMA AdcRefreshSame ==
    ASSUME NEW a, AdcAll \subseteq DOMAIN a
    PROVE  /\ AdcAll \subseteq DOMAIN A!RefreshIrq(a)
           /\ \A f \in SampleFields : A!RefreshIrq(a)[f] = a[f]
<1>1. A!RefreshIrq(a) = [a EXCEPT !.pend = A!Cause(a), !.touched = FALSE]
  BY DEF A!RefreshIrq
<1>2. PICK c : c = A!Cause(a)
  OBVIOUS
<1>3. A!RefreshIrq(a) = [a EXCEPT !.pend = c, !.touched = FALSE]
  BY <1>1, <1>2
<1>. QED
  BY <1>3 DEF AdcAll, SampleFields

\* What touches neither the samples nor the order of the inputs leaves all this as it is.
LEMMA AdcStays ==
    ASSUME NEW a, NEW p, AdcKept(a, p), NEW v, NEW q, AdcAll \subseteq DOMAIN v, AdcPast \subseteq DOMAIN q,
           v.fifo = a.fifo, v.over = a.over, v.rrobin = a.rrobin, v.ainsel = a.ainsel,
           q.number = p.number, q.kept = p.kept, q.read = p.read, q.untold = p.untold, q.round = p.round
    PROVE  AdcKept(v, q)
BY DEF AdcKept, Buffered, Robin

\* A sample is kept if there is room.
LEMMA BufferGrows ==
    ASSUME NEW fifo, NEW p, Buffered(fifo, p), NEW n \in Nat, Len(fifo) < FifoDepth,
           NEW q, q.kept = Append(p.kept, n), q.read = p.read
    PROVE  Buffered(Append(fifo, n), q)
<1>1. PICK taken \in Seq(Nat) : p.kept = taken \o fifo /\ p.read = Len(taken)
  BY DEF Buffered
<1>2. fifo \in Seq(Nat) /\ Len(fifo) <= FifoDepth
  BY DEF Buffered
<1>3. PICK m \in Nat : m = Len(fifo)
  BY <1>2, LenProperties
<1>4. Append(fifo, n) \in Seq(Nat) /\ Len(Append(fifo, n)) = m + 1
  BY <1>2, <1>3, AppendProperties
<1>5. m < FifoDepth /\ FifoDepth \in Nat
  BY <1>3, AdcAssumption
<1>6. taken \o Append(fifo, n) = Append(taken \o fifo, n)
  BY <1>1, <1>2, EndJoins, SMTT(60)
<1>7. Len(Append(fifo, n)) <= FifoDepth
  BY <1>4, <1>5
<1>8. q.kept = taken \o Append(fifo, n) /\ q.read = Len(taken)
  BY <1>1, <1>6
<1>. QED
  BY <1>1, <1>4, <1>7, <1>8 DEF Buffered

\* The first one is read.
LEMMA BufferRead ==
    ASSUME NEW fifo, NEW p, Buffered(fifo, p), fifo # <<>>, NEW q, q.kept = p.kept, q.read = p.read + 1
    PROVE  Buffered(Tail(fifo), q)
<1>1. PICK taken \in Seq(Nat) : p.kept = taken \o fifo /\ p.read = Len(taken)
  BY DEF Buffered
<1>2. fifo \in Seq(Nat) /\ Len(fifo) <= FifoDepth
  BY DEF Buffered
<1>3. /\ Head(fifo) \in Nat /\ Tail(fifo) \in Seq(Nat) /\ Append(taken, Head(fifo)) \in Seq(Nat)
      /\ taken \o fifo = Append(taken, Head(fifo)) \o Tail(fifo)
  BY <1>1, <1>2, FirstMoves, SMTT(60)
<1>4. Len(Append(taken, Head(fifo))) = Len(taken) + 1
  BY <1>1, <1>3, AppendProperties
<1>5. Len(Tail(fifo)) <= FifoDepth
  <2>1. PICK m \in Nat : m = Len(fifo)
    BY <1>2, LenProperties
  <2>2. Len(Tail(fifo)) = m - 1
    BY <1>2, <2>1, HeadTailProperties
  <2>3. m <= FifoDepth /\ FifoDepth \in Nat
    BY <1>2, <2>1, AdcAssumption
  <2>. QED
    BY <2>2, <2>3
<1>6. q.kept = Append(taken, Head(fifo)) \o Tail(fifo) /\ q.read = Len(Append(taken, Head(fifo)))
  BY <1>1, <1>3, <1>4
<1>. QED
  BY <1>3, <1>5, <1>6 DEF Buffered

\* The next input is converted.
LEMMA RobinGoesOn ==
    ASSUME NEW mask, NEW sel, NEW p, Robin(mask, sel, p),
           NEW c, c = IF sel >= Channels THEN 0 ELSE sel,
           NEW s, s = IF mask = {} THEN sel ELSE NextIn(mask, Channels, c),
           NEW q, q.round = Append(p.round, c)
    PROVE  Robin(mask, s, q)
<1>1. /\ mask \in SUBSET Inputs /\ sel \in Nat /\ p.round \in Seq(Inputs)
  BY DEF Robin
<1>2. Channels \in Nat \ {0} /\ 0 \in Inputs /\ Inputs \subseteq Nat
  BY AdcAssumption DEF Inputs
<1>3. c \in Inputs
  BY <1>1, <1>2 DEF Inputs
<1>4. PICK n \in Nat : n = Len(p.round)
  BY <1>1, LenProperties
<1>5. /\ q.round \in Seq(Inputs) /\ Len(q.round) = n + 1 /\ q.round[n + 1] = c /\ q.round # <<>>
      /\ \A k \in 1..n : q.round[k] = p.round[k]
  <2>1. /\ q.round \in Seq(Inputs) /\ Len(q.round) = n + 1 /\ q.round[n + 1] = c
        /\ \A k \in 1..n : q.round[k] = p.round[k]
    BY <1>1, <1>3, <1>4, AppendProperties
  <2>2. PICK r \in Seq(Inputs) : r = q.round
    BY <2>1
  <2>3. Len(r) = n + 1
    BY <2>1, <2>2
  <2>4. r # <<>>
    <3>1. Len(r) # 0
      BY <2>3
    <3>. QED
      BY <3>1, EmptySeq
  <2>. QED
    BY <2>1, <2>2, <2>4
<1>6. CASE mask = {}
  BY <1>1, <1>5, <1>6 DEF Robin
<1>7. CASE mask # {}
  <2>1. s = NextIn(mask, Channels, c)
    BY <1>7
  <2>2. s \in Nat
    <3>1. NextIn(mask, Channels, c) \in mask
      BY <1>1, <1>2, <1>3, <1>7, NextChosen DEF Inputs
    <3>. QED
      BY <1>1, <1>2, <2>1, <3>1
  <2>3. \A k \in Nat : 1 <= k /\ k < n => p.round[k + 1] = NextIn(mask, Channels, p.round[k])
    BY <1>4, <1>7 DEF Robin
  <2>4. p.round # <<>> => sel = NextIn(mask, Channels, p.round[n])
    BY <1>4, <1>7 DEF Robin
  <2>5. ASSUME NEW k \in Nat, 1 <= k, k < n + 1 PROVE q.round[k + 1] = NextIn(mask, Channels, q.round[k])
    <3>1. CASE k < n
      <4>1. k \in 1..n /\ k + 1 \in 1..n
        BY <2>5, <3>1
      <4>. QED
        BY <1>5, <2>3, <2>5, <3>1, <4>1
    <3>2. CASE ~(k < n)
      <4>1. k = n /\ n \in 1..n /\ n # 0
        BY <2>5, <3>2
      <4>2. p.round # <<>>
        BY <1>4, <4>1
      <4>3. p.round[n] \in Inputs
        BY <1>1, <1>4, <4>1, ElementOfSeq
      <4>4. sel = NextIn(mask, Channels, p.round[n]) /\ NextIn(mask, Channels, p.round[n]) \in mask
        BY <1>1, <1>2, <1>7, <2>4, <4>2, <4>3, NextChosen DEF Inputs
      <4>5. c = sel
        <5>1. sel \in Inputs
          BY <1>1, <4>4
        <5>. QED
          BY <1>2, <5>1 DEF Inputs
      <4>. QED
        BY <1>5, <4>1, <4>4, <4>5
    <3>. QED
      BY <3>1, <3>2
  <2>. QED
    BY <1>1, <1>5, <2>1, <2>2, <2>5 DEF Robin
<1>. QED
  BY <1>6, <1>7

\* Before the first conversion of a round there is nothing to be fair about.
LEMMA RobinBegins ==
    ASSUME NEW mask \in SUBSET Inputs, NEW sel \in Nat, NEW q, q.round = <<>>
    PROVE  Robin(mask, sel, q)
<1>1. <<>> \in Seq(Inputs) /\ Len(<<>>) = 0
  OBVIOUS
<1>2. \A k \in Nat : ~(1 <= k /\ k < 0)
  OBVIOUS
<1>. QED
  BY <1>1, <1>2 DEF Robin

\* on_cycles: a sample is converted, or not.
LEMMA AdcClockKeeps == ASSUME AdcKept(dev, past), A!Clock PROVE AdcKept(dev', past')
<1>. DEFINE ran == IF ~dev.converting THEN dev
                   ELSE IF dev.left = 1 THEN A!Convert([dev EXCEPT !.left = 0])
                   ELSE [dev EXCEPT !.left = @ - 1, !.age = @ + 1]
<1>1. AdcAll \subseteq DOMAIN dev /\ AdcPast \subseteq DOMAIN past /\ past.number \in Nat
  BY DEF AdcKept
<1>2. dev' = ran \/ dev' = [ran EXCEPT !.converting = TRUE, !.left = Sar + dev.div, !.due = Sar + dev.div, !.age = 1,
                              !.ready = FALSE]
  BY DEF A!Clock, A!AdcClock
<1>3. past' = A!Remembered(dev)
  BY DEF A!Clock
<1>4. ASSUME AdcAll \subseteq DOMAIN ran
      PROVE  AdcAll \subseteq DOMAIN dev' /\ \A f \in SampleFields : dev'[f] = ran[f]
  <2>. HIDE DEF ran
  <2>. QED
    BY <1>2, <1>4, ZenonT(60) DEF AdcAll, SampleFields
<1>5. CASE ~A!Ends(dev)
  <2>1. past' = past
    BY <1>3, <1>5 DEF A!Remembered
  <2>2. ran = dev \/ ran = [dev EXCEPT !.left = @ - 1, !.age = @ + 1]
    BY <1>5 DEF A!Ends
  <2>3. AdcAll \subseteq DOMAIN ran /\ \A f \in SampleFields : ran[f] = dev[f]
    <3>. HIDE DEF ran
    <3>. QED
      BY <1>1, <2>2 DEF AdcAll, SampleFields
  <2>. HIDE DEF ran
  <2>4. AdcAll \subseteq DOMAIN dev' /\ \A f \in SampleFields : dev'[f] = dev[f]
    BY <1>4, <2>3
  <2>5. dev'.fifo = dev.fifo /\ dev'.over = dev.over /\ dev'.rrobin = dev.rrobin /\ dev'.ainsel = dev.ainsel
    BY <2>4 DEF SampleFields
  <2>. QED
    BY <1>1, <2>1, <2>4, <2>5, AdcStays
<1>6. CASE A!Ends(dev)
  <2>1. PICK keep, full, c, n :
           /\ keep \in BOOLEAN /\ full \in BOOLEAN
           /\ keep = (dev.fcsEn /\ Len(dev.fifo) < FifoDepth) /\ full = (dev.fcsEn /\ Len(dev.fifo) >= FifoDepth)
           /\ c = A!Selected(dev) /\ n = past.number + 1
    OBVIOUS
  <2>2. past' = [past EXCEPT !.number = @ + 1, !.kept = IF dev.fcsEn /\ Len(dev.fifo) < FifoDepth THEN Append(@, past.number + 1) ELSE @,
                        !.untold = @ \/ (dev.fcsEn /\ Len(dev.fifo) >= FifoDepth),
                        !.round = Append(@, A!Selected(dev)),
                        !.wrong = @ \/ dev.age # dev.due]
    BY <1>3, <1>6 DEF A!Remembered
  <2>3. /\ AdcPast \subseteq DOMAIN past' /\ past'.number = n /\ past'.read = past.read
        /\ past'.kept = (IF keep THEN Append(past.kept, n) ELSE past.kept)
        /\ past'.round = Append(past.round, c)
        /\ past'.untold = (past.untold \/ (dev.fcsEn /\ Len(dev.fifo) >= FifoDepth))
    BY <1>1, <2>1, <2>2 DEF AdcPast
  <2>. DEFINE b == [dev EXCEPT !.left = 0]
              x == [b EXCEPT
                      !.ready = TRUE, !.converting = FALSE, !.age = 0, !.due = 0,
                      !.over = @ \/ (b.fcsEn /\ Len(b.fifo) >= FifoDepth),
                      !.fifo = IF b.fcsEn /\ Len(b.fifo) < FifoDepth THEN Append(@, past.number + 1) ELSE @,
                      !.ainsel = IF b.rrobin = {} THEN @ ELSE A!NextRrobin(b, A!Selected(b))]
  <2>4. ran = A!Convert(b)
    BY <1>6 DEF A!Ends
  <2>5. A!Convert(b) = A!RefreshIrq(x)
    BY Zenon DEF A!Convert
  <2>6. AdcAll \subseteq DOMAIN b /\ b.fifo = dev.fifo /\ b.over = dev.over /\ b.ainsel = dev.ainsel
          /\ b.rrobin = dev.rrobin /\ b.fcsEn = dev.fcsEn
    BY <1>1 DEF AdcAll
  <2>. HIDE DEF b
  <2>7. A!Selected(b) = c /\ A!NextRrobin(b, c) = IF b.rrobin = {} THEN c ELSE NextIn(dev.rrobin, Channels, c)
    BY <2>1, <2>6 DEF A!Selected, A!NextRrobin, NextIn
  <2>8. /\ AdcAll \subseteq DOMAIN x
        /\ x.over = (b.over \/ (b.fcsEn /\ Len(b.fifo) >= FifoDepth))
        /\ x.fifo = IF b.fcsEn /\ Len(b.fifo) < FifoDepth THEN Append(b.fifo, past.number + 1) ELSE b.fifo
        /\ x.ainsel = IF b.rrobin = {} THEN b.ainsel ELSE A!NextRrobin(b, A!Selected(b))
        /\ x.rrobin = b.rrobin
    BY <2>6 DEF AdcAll
  <2>. HIDE DEF x
  <2>9. /\ x.over = (dev.over \/ (dev.fcsEn /\ Len(dev.fifo) >= FifoDepth))
        /\ x.fifo = (IF keep THEN Append(dev.fifo, n) ELSE dev.fifo)
        /\ x.ainsel = (IF dev.rrobin = {} THEN dev.ainsel ELSE NextIn(dev.rrobin, Channels, c))
        /\ x.rrobin = dev.rrobin
    BY <2>1, <2>6, <2>7, <2>8
  <2>10. AdcAll \subseteq DOMAIN ran /\ \A f \in SampleFields : ran[f] = x[f]
    <3>1. ran = A!RefreshIrq(x) /\ AdcAll \subseteq DOMAIN x
      BY <2>4, <2>5, <2>8
    <3>. HIDE DEF ran
    <3>. QED
      BY <3>1, AdcRefreshSame
  <2>. HIDE DEF ran
  <2>11. AdcAll \subseteq DOMAIN dev' /\ \A f \in SampleFields : dev'[f] = x[f]
    BY <1>4, <2>10
  <2>12. dev'.fifo = x.fifo /\ dev'.over = x.over /\ dev'.rrobin = x.rrobin /\ dev'.ainsel = x.ainsel
    BY <2>11 DEF SampleFields
  <2>13. Buffered(dev'.fifo, past')
    <3>1. Buffered(dev.fifo, past) /\ n \in Nat
      BY <1>1, <2>1 DEF AdcKept
    <3>2. CASE keep
      <4>1. Len(dev.fifo) < FifoDepth /\ dev'.fifo = Append(dev.fifo, n) /\ past'.kept = Append(past.kept, n)
        BY <2>1, <2>3, <2>9, <2>12, <3>2
      <4>2. Buffered(Append(dev.fifo, n), past')
        BY <2>3, <3>1, <4>1, BufferGrows
      <4>. QED
        BY <4>1, <4>2
    <3>3. CASE ~keep
      <4>1. dev'.fifo = dev.fifo /\ past'.kept = past.kept
        BY <2>3, <2>9, <2>12, <3>3
      <4>. QED
        BY <2>3, <3>1, <4>1 DEF Buffered
    <3>. QED
      BY <3>2, <3>3
  <2>14. Robin(dev'.rrobin, dev'.ainsel, past')
    <3>1. c = IF dev.ainsel >= Channels THEN 0 ELSE dev.ainsel
      BY <2>1 DEF A!Selected
    <3>2. Robin(dev.rrobin, dev.ainsel, past)
      BY DEF AdcKept
    <3>3. Robin(dev.rrobin, x.ainsel, past')
      BY <2>3, <2>9, <3>1, <3>2, RobinGoesOn
    <3>. QED
      BY <2>9, <2>12, <3>3
  <2>15. past'.untold => dev'.over
    <3>1. past.untold => dev.over
      BY DEF AdcKept
    <3>. QED
      BY <2>3, <2>9, <2>12, <3>1, Zenon
  <2>. QED
    BY <1>1, <2>1, <2>3, <2>11, <2>13, <2>14, <2>15 DEF AdcKept
<1>. QED
  BY <1>5, <1>6

LEMMA AdcEmptied ==
    ASSUME NEW v, AdcAll \subseteq DOMAIN v, v.fifo = <<>>, v.rrobin = {}, v.ainsel = 0,
           NEW q, AdcPast \subseteq DOMAIN q, q.number = 0, q.kept = <<>>, q.read = 0, q.untold = FALSE, q.round = <<>>
    PROVE  AdcKept(v, q)
<1>1. Buffered(v.fifo, q)
  <2>1. <<>> \in Seq(Nat) /\ Len(<<>>) = 0 /\ <<>> \o <<>> = <<>> /\ 0 <= FifoDepth
    BY AdcAssumption
  <2>. QED
    BY <2>1 DEF Buffered
<1>2. Robin(v.rrobin, v.ainsel, q)
  BY RobinBegins
<1>. QED
  BY <1>1, <1>2 DEF AdcKept

LEMMA AdcFresh ==
    ASSUME NEW b
    PROVE  /\ AdcPast \subseteq DOMAIN A!Fresh(b) /\ A!Fresh(b).number = 0 /\ A!Fresh(b).kept = <<>>
           /\ A!Fresh(b).read = 0 /\ A!Fresh(b).untold = FALSE /\ A!Fresh(b).round = <<>>
           /\ AdcAll \subseteq DOMAIN A!Cleared /\ A!Cleared.fifo = <<>> /\ A!Cleared.rrobin = {} /\ A!Cleared.ainsel = 0
BY DEF A!Fresh, A!Cleared, AdcPast, AdcAll

LEMMA SamplesBegin == ASSUME A!Init PROVE AdcKept(dev, past)
<1>1. dev = A!Cleared /\ past = A!Fresh(AdcWrites)
  BY DEF A!Init
<1>. QED
  BY <1>1, AdcFresh, AdcEmptied

LEMMA AdcCsKeeps == ASSUME AdcKept(dev, past), A!WriteCs PROVE AdcKept(dev', past')
<1>1. AdcAll \subseteq DOMAIN dev /\ AdcPast \subseteq DOMAIN past /\ past.number \in Nat
  BY DEF AdcKept
<1>2. PICK en, once, many \in BOOLEAN, sel \in {0, Channels}, mask \in Masks : A!WriteCs!(en, once, many, sel, mask)
  BY DEF A!WriteCs
<1>. DEFINE new == [dev EXCEPT !.en = en, !.many = many, !.ainsel = sel, !.rrobin = mask, !.ready = FALSE]
            x == IF once /\ en /\ ~dev.converting
                 THEN [new EXCEPT !.converting = TRUE, !.left = Sar + dev.div, !.due = Sar + dev.div, !.age = 1]
                 ELSE new
<1>3. dev' = A!RefreshIrq(x)
  BY <1>2
<1>4. /\ AdcAll \subseteq DOMAIN new /\ new.fifo = dev.fifo /\ new.over = dev.over /\ new.rrobin = mask /\ new.ainsel = sel
  BY <1>1 DEF AdcAll
<1>. HIDE DEF new
<1>5. x = new \/ x = [new EXCEPT !.converting = TRUE, !.left = Sar + dev.div, !.due = Sar + dev.div, !.age = 1]
  OBVIOUS
<1>. HIDE DEF x
<1>6. /\ AdcAll \subseteq DOMAIN x /\ x.fifo = dev.fifo /\ x.over = dev.over /\ x.rrobin = mask /\ x.ainsel = sel
  BY <1>4, <1>5 DEF AdcAll
<1>7. AdcAll \subseteq DOMAIN dev' /\ \A f \in SampleFields : dev'[f] = x[f]
  BY <1>3, <1>6, AdcRefreshSame
<1>8. dev'.fifo = dev.fifo /\ dev'.over = dev.over /\ dev'.rrobin = mask /\ dev'.ainsel = sel
  BY <1>6, <1>7 DEF SampleFields
<1>9. past' = [past EXCEPT !.writes = @ - 1, !.round = <<>>]
  BY <1>2
<1>10. /\ AdcPast \subseteq DOMAIN past' /\ past'.number = past.number /\ past'.kept = past.kept /\ past'.read = past.read
       /\ past'.untold = past.untold /\ past'.round = <<>>
  BY <1>1, <1>9 DEF AdcPast
<1>11. mask \in SUBSET Inputs /\ sel \in Nat
  BY AdcAssumption DEF Inputs
<1>12. Robin(dev'.rrobin, dev'.ainsel, past')
  BY <1>8, <1>10, <1>11, RobinBegins
<1>13. Buffered(dev'.fifo, past') /\ (past'.untold => dev'.over)
  BY <1>8, <1>10 DEF AdcKept, Buffered
<1>. QED
  BY <1>1, <1>7, <1>10, <1>12, <1>13 DEF AdcKept

LEMMA AdcFcsKeeps == ASSUME AdcKept(dev, past), A!WriteFcs PROVE AdcKept(dev', past')
<1>1. AdcAll \subseteq DOMAIN dev /\ AdcPast \subseteq DOMAIN past /\ past.number \in Nat
  BY DEF AdcKept
<1>2. PICK fifo, dreq, clear \in BOOLEAN, level \in {0, FifoDepth} : A!WriteFcs!(fifo, dreq, clear, level)
  BY DEF A!WriteFcs
<1>. DEFINE x == [dev EXCEPT !.fcsEn = fifo, !.dreqEn = dreq, !.thresh = level,
                             !.over = @ /\ ~clear, !.under = @ /\ ~clear]
<1>3. dev' = A!RefreshIrq(x)
  BY <1>2
<1>4. /\ AdcAll \subseteq DOMAIN x /\ x.fifo = dev.fifo /\ x.rrobin = dev.rrobin /\ x.ainsel = dev.ainsel
      /\ x.over = (dev.over /\ ~clear)
  BY <1>1 DEF AdcAll
<1>. HIDE DEF x
<1>5. AdcAll \subseteq DOMAIN dev' /\ \A f \in SampleFields : dev'[f] = x[f]
  BY <1>3, <1>4, AdcRefreshSame
<1>6. dev'.fifo = dev.fifo /\ dev'.rrobin = dev.rrobin /\ dev'.ainsel = dev.ainsel /\ dev'.over = (dev.over /\ ~clear)
  BY <1>4, <1>5 DEF SampleFields
<1>7. past' = [past EXCEPT !.writes = @ - 1, !.untold = @ /\ ~clear]
  BY <1>2
<1>8. /\ AdcPast \subseteq DOMAIN past' /\ past'.number = past.number /\ past'.kept = past.kept /\ past'.read = past.read
      /\ past'.untold = (past.untold /\ ~clear) /\ past'.round = past.round
  BY <1>1, <1>7 DEF AdcPast
<1>9. Buffered(dev'.fifo, past') /\ Robin(dev'.rrobin, dev'.ainsel, past')
  BY <1>6, <1>8 DEF AdcKept, Buffered, Robin
<1>10. past'.untold => dev'.over
  <2>1. past.untold => dev.over
    BY DEF AdcKept
  <2>. QED
    BY <1>6, <1>8, <2>1, Zenon
<1>. QED
  BY <1>1, <1>5, <1>8, <1>9, <1>10 DEF AdcKept

LEMMA AdcOthersKeep ==
    ASSUME AdcKept(dev, past), A!WriteDiv \/ A!WriteInts \/ A!EnterHandler \/ A!ResetCore \/ A!WriteNvic
    PROVE  AdcKept(dev', past')
<1>1. AdcAll \subseteq DOMAIN dev /\ AdcPast \subseteq DOMAIN past
  BY DEF AdcKept
<1>2. /\ AdcAll \subseteq DOMAIN dev' /\ dev'.fifo = dev.fifo /\ dev'.over = dev.over /\ dev'.rrobin = dev.rrobin
      /\ dev'.ainsel = dev.ainsel
  <2>1. CASE A!WriteDiv
    <3>1. PICK d : dev' = [dev EXCEPT !.div = d]
      BY <2>1 DEF A!WriteDiv
    <3>. QED
      BY <1>1, <3>1 DEF AdcAll
  <2>2. CASE A!EnterHandler \/ A!ResetCore \/ A!WriteNvic
    <3>1. \E p, q : dev' = [dev EXCEPT !.pend = p, !.touched = q]
      BY <2>2 DEF A!EnterHandler, A!ResetCore, A!WriteNvic
    <3>. QED
      BY <1>1, <3>1 DEF AdcAll
  <2>3. CASE A!WriteInts
    <3>1. PICK e, f \in BOOLEAN : dev' = A!RefreshIrq([dev EXCEPT !.inte = e, !.intf = f])
      BY <2>3 DEF A!WriteInts
    <3>2. PICK x : x = [dev EXCEPT !.inte = e, !.intf = f]
      OBVIOUS
    <3>3. /\ AdcAll \subseteq DOMAIN x /\ x.fifo = dev.fifo /\ x.over = dev.over /\ x.rrobin = dev.rrobin
          /\ x.ainsel = dev.ainsel
      BY <1>1, <3>2 DEF AdcAll
    <3>4. AdcAll \subseteq DOMAIN dev' /\ \A g \in SampleFields : dev'[g] = x[g]
      BY <3>1, <3>2, <3>3, AdcRefreshSame
    <3>. QED
      BY <3>3, <3>4 DEF SampleFields
  <2>. QED
    BY <2>1, <2>2, <2>3
<1>3. past' = past \/ past' = [past EXCEPT !.writes = @ - 1]
  BY DEF A!WriteDiv, A!WriteInts, A!EnterHandler, A!ResetCore, A!WriteNvic
<1>4. /\ AdcPast \subseteq DOMAIN past' /\ past'.number = past.number /\ past'.kept = past.kept /\ past'.read = past.read
      /\ past'.untold = past.untold /\ past'.round = past.round
  BY <1>1, <1>3 DEF AdcPast
<1>. QED
  BY <1>2, <1>4, AdcStays

LEMMA AdcReadKeeps == ASSUME AdcKept(dev, past), A!ReadFifo PROVE AdcKept(dev', past')
<1>1. AdcAll \subseteq DOMAIN dev /\ AdcPast \subseteq DOMAIN past /\ past.number \in Nat
  BY DEF AdcKept
<1>2. CASE dev.fifo # <<>> /\ dev' = A!RefreshIrq([dev EXCEPT !.fifo = Tail(@)]) /\ past' = [past EXCEPT !.read = @ + 1]
  <2>1. PICK x : x = [dev EXCEPT !.fifo = Tail(@)]
    OBVIOUS
  <2>2. /\ AdcAll \subseteq DOMAIN x /\ x.fifo = Tail(dev.fifo) /\ x.over = dev.over /\ x.rrobin = dev.rrobin
        /\ x.ainsel = dev.ainsel
    BY <1>1, <2>1 DEF AdcAll
  <2>3. AdcAll \subseteq DOMAIN dev' /\ \A g \in SampleFields : dev'[g] = x[g]
    BY <1>2, <2>1, <2>2, AdcRefreshSame
  <2>4. dev'.fifo = Tail(dev.fifo) /\ dev'.over = dev.over /\ dev'.rrobin = dev.rrobin /\ dev'.ainsel = dev.ainsel
    BY <2>2, <2>3 DEF SampleFields
  <2>5. /\ AdcPast \subseteq DOMAIN past' /\ past'.number = past.number /\ past'.kept = past.kept
        /\ past'.read = past.read + 1 /\ past'.untold = past.untold /\ past'.round = past.round
    BY <1>1, <1>2 DEF AdcPast
  <2>6. Buffered(dev'.fifo, past')
    <3>1. Buffered(dev.fifo, past)
      BY DEF AdcKept
    <3>2. Buffered(Tail(dev.fifo), past')
      BY <1>2, <2>5, <3>1, BufferRead
    <3>. QED
      BY <2>4, <3>2
  <2>7. (past'.untold => dev'.over) /\ Robin(dev'.rrobin, dev'.ainsel, past')
    BY <2>4, <2>5 DEF AdcKept, Robin
  <2>. QED
    BY <1>1, <2>3, <2>5, <2>6, <2>7 DEF AdcKept
<1>3. CASE dev' = [dev EXCEPT !.under = TRUE] /\ past' = past
  <2>1. /\ AdcAll \subseteq DOMAIN dev' /\ dev'.fifo = dev.fifo /\ dev'.over = dev.over /\ dev'.rrobin = dev.rrobin
        /\ dev'.ainsel = dev.ainsel
    BY <1>1, <1>3 DEF AdcAll
  <2>. QED
    BY <1>1, <1>3, <2>1, AdcStays
<1>. QED
  BY <1>2, <1>3 DEF A!ReadFifo

LEMMA AdcResetKeeps == ASSUME A!Reset PROVE AdcKept(dev', past')
<1>1. dev' = A!RefreshIrq(A!Cleared) /\ past' = A!Fresh(past.writes - 1)
  BY DEF A!Reset
<1>2. PICK x : x = A!Cleared
  OBVIOUS
<1>3. AdcAll \subseteq DOMAIN x /\ x.fifo = <<>> /\ x.rrobin = {} /\ x.ainsel = 0
  BY <1>2, AdcFresh
<1>4. AdcAll \subseteq DOMAIN dev' /\ \A g \in SampleFields : dev'[g] = x[g]
  BY <1>1, <1>2, <1>3, AdcRefreshSame
<1>5. dev'.fifo = <<>> /\ dev'.rrobin = {} /\ dev'.ainsel = 0
  BY <1>3, <1>4 DEF SampleFields
<1>6. /\ AdcPast \subseteq DOMAIN past' /\ past'.number = 0 /\ past'.kept = <<>> /\ past'.read = 0
      /\ past'.untold = FALSE /\ past'.round = <<>>
  BY <1>1, AdcFresh
<1>. QED
  BY <1>4, <1>5, <1>6, AdcEmptied

LEMMA SamplesKeep == ASSUME AdcKept(dev, past), A!Next PROVE AdcKept(dev', past')
<1>1. CASE A!Rest
  BY <1>1 DEF A!Rest, A!vars
<1>. QED
  BY <1>1, AdcClockKeeps, AdcCsKeeps, AdcFcsKeeps, AdcOthersKeep, AdcReadKeeps, AdcResetKeeps DEF A!Next, A!DmaReads

\* What is left of a sequence after its beginning
LEMMA Remaining ==
    ASSUME NEW a \in Seq(Nat), NEW b \in Seq(Nat)
    PROVE  SubSeq(a \o b, Len(a) + 1, Len(a \o b)) = b
<1>1. PICK m \in Nat, n \in Nat : m = Len(a) /\ n = Len(b)
  BY LenProperties
<1>2. PICK s \in Seq(Nat) : s = a \o b /\ Len(s) = m + n /\ \A i \in 1..m + n : s[i] = IF i <= m THEN a[i] ELSE b[i - m]
  <2>1. /\ a \o b \in Seq(Nat) /\ Len(a \o b) = m + n
        /\ \A i \in 1..m + n : (a \o b)[i] = IF i <= m THEN a[i] ELSE b[i - m]
    BY <1>1, ConcatProperties
  <2>. QED
    BY <2>1
<1>. DEFINE l == m + 1
            h == m + n
            t == SubSeq(s, l, h)
<1>3. t \in Seq(Nat) /\ Len(t) = n /\ \A i \in 1..n : t[i] = s[m + i]
  <2>1. l \in Int /\ h \in Int /\ \A i \in l..h : i \in 1..Len(s)
    BY <1>2
  <2>2. h - l + 1 = n /\ (l <= h <=> n # 0) /\ \A i \in 1..n : l + i - 1 = m + i
    OBVIOUS
  <2>. HIDE DEF l, h, t
  <2>3. \A i \in l..h : s[i] \in Nat
    BY <2>1, ElementOfSeq
  <2>4. /\ SubSeq(s, l, h) \in Seq(Nat)
        /\ Len(SubSeq(s, l, h)) = IF l <= h THEN h - l + 1 ELSE 0
        /\ \A i \in 1..h - l + 1 : SubSeq(s, l, h)[i] = s[l + i - 1]
    BY <2>1, <2>3, SubSeqProperties
  <2>5. Len(t) = n
    BY <2>2, <2>4 DEF t
  <2>6. \A i \in 1..n : t[i] = s[m + i]
    BY <2>2, <2>4 DEF t
  <2>. QED
    BY <2>4, <2>5, <2>6 DEF t
<1>. HIDE DEF t
<1>4. ASSUME NEW i \in 1..n PROVE t[i] = b[i]
  <2>1. m + i \in 1..m + n /\ ~(m + i <= m) /\ (m + i) - m = i
    OBVIOUS
  <2>. QED
    BY <1>2, <1>3, <2>1
<1>5. t = b
  BY <1>1, <1>3, <1>4, SeqEqual
<1>. QED
  BY <1>1, <1>2, <1>5 DEF t, l, h

LEMMA SamplesAccounted == ASSUME AdcKept(dev, past) PROVE A!Accounted
<1>1. PICK taken \in Seq(Nat) : past.kept = taken \o dev.fifo /\ past.read = Len(taken)
  BY DEF AdcKept, Buffered
<1>2. dev.fifo \in Seq(Nat) /\ Len(dev.fifo) <= FifoDepth /\ (past.untold => dev.over)
  BY DEF AdcKept, Buffered
<1>3. SubSeq(past.kept, past.read + 1, Len(past.kept)) = dev.fifo
  BY <1>1, <1>2, Remaining
<1>4. A!FairRound
  <2>. SUFFICES ASSUME dev.rrobin # {}, NEW i \in 2..Len(past.round), NEW j \in 2..Len(past.round), i < j,
                       j < i + A!Cardinality(dev.rrobin)
                PROVE  past.round[i] # past.round[j] /\ past.round[j] \in dev.rrobin
    BY DEF A!FairRound
  <2>1. PICK mask, s, n : mask = dev.rrobin /\ s = past.round /\ n = Len(s)
    OBVIOUS
  <2>2. /\ mask \in SUBSET Inputs /\ mask # {} /\ s \in Seq(Inputs)
        /\ \A k \in Nat : 1 <= k /\ k < n => s[k + 1] = NextIn(mask, Channels, s[k])
    BY <2>1 DEF AdcKept, Robin
  <2>3. n \in Nat /\ i \in 2..n /\ j \in 2..n
    BY <2>1, <2>2, LenProperties
  <2>4. Channels \in Nat \ {0} /\ mask \in SUBSET (0..Channels - 1)
    BY <2>2, AdcAssumption DEF Inputs
  <2>5. s[i] \in mask
    <3>1. i - 1 \in Nat /\ i - 1 \in 1..n /\ 1 <= i - 1 /\ i - 1 < n /\ (i - 1) + 1 = i
      BY <2>3
    <3>2. s[i] = NextIn(mask, Channels, s[i - 1])
      BY <2>2, <3>1
    <3>3. s[i - 1] \in 0..Channels - 1
      BY <2>1, <2>2, <3>1, ElementOfSeq DEF Inputs
    <3>. QED
      BY <2>2, <2>4, <3>2, <3>3, NextChosen
  <2>6. i \in Nat /\ \A k \in Nat : i <= k /\ k < n => s[k + 1] = NextIn(mask, Channels, s[k])
    BY <2>2, <2>3
  <2>7. /\ \A k \in i..n : s[k] \in mask
        /\ \A k \in i + 1..n : s[k] = s[i] => Cardinality(mask) <= k - i
    BY <2>3, <2>4, <2>5, <2>6, RoundIsFair
  <2>8. A!Cardinality(mask) = Cardinality(mask)
    BY DEF A!Cardinality, Cardinality
  <2>9. IsFiniteSet(mask)
    <3>1. IsFiniteSet(0..Channels - 1)
      BY <2>4, FS_Interval
    <3>. QED
      BY <2>4, <3>1, FS_Subset
  <2>10. Cardinality(mask) \in Nat
    BY <2>9, FS_CardinalityType
  <2>11. j \in i..n /\ j \in i + 1..n
    BY <2>3
  <2>12. s[j] = s[i] => Cardinality(mask) <= j - i
    BY <2>7, <2>11
  <2>13. ~(Cardinality(mask) <= j - i)
    BY <2>1, <2>3, <2>8, <2>10
  <2>14. s[j] # s[i] /\ s[j] \in mask
    BY <2>7, <2>11, <2>12, <2>13
  <2>. QED
    BY <2>1, <2>14
<1>. QED
  BY <1>2, <1>3, <1>4 DEF A!Accounted

-----------------------------------------------------------------------------
(* Images *)

\* The next number is in the same row of c, or the first of the next.
LEMMA NextQuotient ==
    ASSUME NEW m \in Nat, NEW c \in Nat \ {0}
    PROVE  /\ m \div c \in Nat /\ m % c \in 0..c - 1
           /\ (m % c) + 1 = c => (m + 1) % c = 0 /\ (m + 1) \div c = m \div c + 1
           /\ (m % c) + 1 # c => (m + 1) % c = (m % c) + 1 /\ (m + 1) \div c = m \div c
<1>. DEFINE q == m \div c
            r == m % c
<1>1. r = m - q * c /\ q \in Int /\ r \in 0..c - 1
  BY Quotient, SMTT(60)
<1>2. q \in Nat
  BY QuotientBelow
<1>. HIDE DEF q, r
<1>3. q * c \in Int /\ (q + 1) * c = q * c + c
  BY <1>1
<1>4. ASSUME r + 1 = c PROVE (m + 1) % c = 0 /\ (m + 1) \div c = q + 1
  <2>1. m + 1 = (q + 1) * c + 0
    BY <1>1, <1>3, <1>4
  <2>2. q + 1 \in Int /\ 0 \in 0..c - 1
    BY <1>1
  <2>. QED
    BY <2>1, <2>2, Residue, QuotientIs
<1>5. ASSUME r + 1 # c PROVE (m + 1) % c = r + 1 /\ (m + 1) \div c = q
  <2>1. m + 1 = q * c + (r + 1)
    BY <1>1, <1>3
  <2>2. r + 1 \in 0..c - 1
    BY <1>1, <1>5
  <2>. QED
    BY <1>1, <2>1, <2>2, Residue, QuotientIs
<1>. QED
  BY <1>1, <1>2, <1>4, <1>5 DEF q, r

\* The k-th place of a window
PlaceAt(x0, x1, y0, y1, k) ==
    <<x0 + ((k - 1) % (x1 - x0 + 1)), y0 + (((k - 1) \div (x1 - x0 + 1)) % (y1 - y0 + 1))>>

\* Where the cursor goes from a place
NextCol(x0, x1, col) == IF col = x1 THEN x0 ELSE col + 1
NextRow(x1, y0, y1, col, row) == IF col # x1 THEN row ELSE IF row = y1 THEN y0 ELSE row + 1

\* A cursor that goes along the rows and back to the first goes from a place to the next.
LEMMA CursorMoves ==
    ASSUME NEW x0 \in Nat, NEW x1 \in Nat, x0 <= x1, NEW y0 \in Nat, NEW y1 \in Nat, y0 <= y1, NEW k \in Nat \ {0},
           NEW col, NEW row, <<col, row>> = PlaceAt(x0, x1, y0, y1, k)
    PROVE  /\ col \in x0..x1 /\ row \in y0..y1
           /\ PlaceAt(x0, x1, y0, y1, k + 1) = <<NextCol(x0, x1, col), NextRow(x1, y0, y1, col, row)>>
<1>. DEFINE c == x1 - x0 + 1
            n == y1 - y0 + 1
            m == k - 1
            q == m \div c
<1>1. c \in Nat \ {0} /\ n \in Nat \ {0} /\ m \in Nat /\ (k + 1) - 1 = m + 1
  OBVIOUS
<1>2. col = x0 + (m % c) /\ row = y0 + (q % n)
  BY DEF PlaceAt
<1>3. PlaceAt(x0, x1, y0, y1, k + 1) = <<x0 + ((m + 1) % c), y0 + (((m + 1) \div c) % n)>>
  BY <1>1 DEF PlaceAt
<1>10. x1 = x0 + (c - 1) /\ y1 = y0 + (n - 1)
  OBVIOUS
<1>. HIDE DEF c, n, m
<1>4. /\ q \in Nat /\ m % c \in 0..c - 1
      /\ (m % c) + 1 = c => (m + 1) % c = 0 /\ (m + 1) \div c = q + 1
      /\ (m % c) + 1 # c => (m + 1) % c = (m % c) + 1 /\ (m + 1) \div c = q
  BY <1>1, NextQuotient
<1>. HIDE DEF q
<1>5. /\ q % n \in 0..n - 1
      /\ (q % n) + 1 = n => (q + 1) % n = 0
      /\ (q % n) + 1 # n => (q + 1) % n = (q % n) + 1
  BY <1>1, <1>4, NextQuotient
<1>6. col \in x0..x1 /\ row \in y0..y1 /\ (col = x1 <=> (m % c) + 1 = c) /\ (row = y1 <=> (q % n) + 1 = n)
  <2>. DEFINE i == m % c
              j == q % n
  <2>1. i \in 0..c - 1 /\ j \in 0..n - 1 /\ col = x0 + i /\ row = y0 + j
    BY <1>2, <1>4, <1>5
  <2>. HIDE DEF i, j
  <2>2. col \in x0..x1 /\ row \in y0..y1 /\ (col = x1 <=> i + 1 = c) /\ (row = y1 <=> j + 1 = n)
    BY <1>1, <1>10, <2>1
  <2>. QED
    BY <2>2 DEF i, j
<1>7. CASE col # x1
  <2>1. (m + 1) % c = (m % c) + 1 /\ (m + 1) \div c = q
    BY <1>4, <1>6, <1>7
  <2>2. x0 + ((m + 1) % c) = col + 1
    BY <1>2, <1>4, <2>1
  <2>. QED
    BY <1>2, <1>3, <1>6, <1>7, <2>1, <2>2 DEF NextCol, NextRow
<1>8. CASE col = x1
  <2>1. (m + 1) % c = 0 /\ (m + 1) \div c = q + 1
    BY <1>4, <1>6, <1>8
  <2>2. y0 + ((q + 1) % n) = IF row = y1 THEN y0 ELSE row + 1
    BY <1>2, <1>5, <1>6
  <2>3. x0 + ((m + 1) % c) = x0
    BY <2>1
  <2>. QED
    BY <1>3, <1>6, <1>8, <2>1, <2>2, <2>3 DEF NextCol, NextRow
<1>. QED
  BY <1>7, <1>8

-----------------------------------------------------------------------------
\* Of the first n pixels those that belong at p, and the last of them
Hits(f, n, p) == {k \in 1..n : f[k] = p}
Latest(f, n, p) == CHOOSE k \in Hits(f, n, p) : \A j \in Hits(f, n, p) : j <= k
Agree(a, b, n) == \A k \in 1..n : b[k] = a[k]
PaintedOver(image, p, v) == [image EXCEPT ![p] = v]
Reached(f, n, p) == Hits(f, n, p) = {} \/ \E k \in Hits(f, n, p) : \A j \in Hits(f, n, p) : j <= k
AllReached(place, f, n) == \A p \in place : Reached(f, n, p)

\* The image with the first n pixels, which have the colours a, in their places
Painted(place, before, f, n, a) ==
    [p \in place |-> IF Hits(f, n, p) = {} THEN before[p] ELSE a[Latest(f, n, p)]]

LEMMA PaintsNothing ==
    ASSUME NEW place, NEW before, DOMAIN before = place, before = [p \in place |-> before[p]], NEW f, NEW a
    PROVE  Painted(place, before, f, 0, a) = before /\ AllReached(place, f, 0)
<1>1. \A p : Hits(f, 0, p) = {}
  BY DEF Hits
<1>2. Painted(place, before, f, 0, a) = [p \in place |-> before[p]]
  BY <1>1 DEF Painted
<1>. QED
  BY <1>1, <1>2 DEF Reached, AllReached

\* One pixel more changes the image where it belongs.
LEMMA Paints ==
    ASSUME NEW place, NEW before, NEW f, NEW n \in Nat, f[n + 1] \in place, AllReached(place, f, n),
           NEW a, NEW b, Agree(a, b, n)
    PROVE  /\ Painted(place, before, f, n + 1, b) = PaintedOver(Painted(place, before, f, n, a), f[n + 1], b[n + 1])
           /\ AllReached(place, f, n + 1)
<1>. DEFINE i == f[n + 1]
<1>1. ASSUME NEW p, p = i
      PROVE  /\ n + 1 \in Hits(f, n + 1, p) /\ \A j \in Hits(f, n + 1, p) : j <= n + 1
             /\ Latest(f, n + 1, p) = n + 1
  <2>1. n + 1 \in Hits(f, n + 1, p) /\ \A j \in Hits(f, n + 1, p) : j <= n + 1 /\ j \in Int
    BY <1>1 DEF Hits
  <2>2. \A k \in Hits(f, n + 1, p) : (\A j \in Hits(f, n + 1, p) : j <= k) => k = n + 1
    BY <2>1
  <2>. QED
    BY <2>1, <2>2 DEF Latest
<1>2. ASSUME NEW p, p # i PROVE Hits(f, n + 1, p) = Hits(f, n, p) /\ Latest(f, n + 1, p) = Latest(f, n, p)
  <2>1. \A k : k \in 1..n + 1 <=> k \in 1..n \/ k = n + 1
    OBVIOUS
  <2>2. Hits(f, n + 1, p) = Hits(f, n, p)
    BY <1>2, <2>1 DEF Hits
  <2>. QED
    BY <2>2 DEF Latest
<1>3. ASSUME NEW p \in place PROVE Reached(f, n + 1, p)
  BY <1>1, <1>2 DEF Reached, AllReached
<1>4. ASSUME NEW p \in place, Hits(f, n, p) # {} PROVE Latest(f, n, p) \in 1..n
  <2>1. \E k \in Hits(f, n, p) : \A j \in Hits(f, n, p) : j <= k
    BY <1>4 DEF Reached, AllReached
  <2>2. Latest(f, n, p) \in Hits(f, n, p)
    BY <2>1 DEF Latest
  <2>. QED
    BY <2>2 DEF Hits
<1>. DEFINE new == Painted(place, before, f, n + 1, b)
            old == Painted(place, before, f, n, a)
<1>5. ASSUME NEW p \in place PROVE new[p] = IF p = i THEN b[n + 1] ELSE old[p]
  <2>1. CASE p = i
    <3>1. Hits(f, n + 1, p) # {} /\ Latest(f, n + 1, p) = n + 1
      BY <1>1, <2>1
    <3>. QED
      BY <2>1, <3>1 DEF Painted
  <2>2. CASE p # i
    <3>1. Hits(f, n + 1, p) = Hits(f, n, p) /\ Latest(f, n + 1, p) = Latest(f, n, p)
      BY <1>2, <2>2
    <3>2. CASE Hits(f, n, p) = {}
      BY <2>2, <3>1, <3>2 DEF Painted
    <3>3. CASE Hits(f, n, p) # {}
      <4>1. b[Latest(f, n, p)] = a[Latest(f, n, p)]
        BY <1>4, <3>3 DEF Agree
      <4>. QED
        BY <2>2, <3>1, <3>3, <4>1 DEF Painted
    <3>. QED
      BY <3>2, <3>3
  <2>. QED
    BY <2>1, <2>2
<1>6. DOMAIN new = place /\ DOMAIN old = place /\ new = [p \in place |-> new[p]]
  BY DEF Painted
<1>. HIDE DEF new, old
<1>7. new = [old EXCEPT ![i] = b[n + 1]]
  BY <1>5, <1>6
<1>. QED
  BY <1>3, <1>7 DEF new, old, PaintedOver, AllReached

\* An image with the first n pixels
Painting(place, before, f, n, a, image) == image = Painted(place, before, f, n, a) /\ AllReached(place, f, n)

LEMMA PaintingGrows ==
    ASSUME NEW place, NEW before, NEW f, NEW n \in Nat, NEW a, NEW image, Painting(place, before, f, n, a, image),
           NEW b, Agree(a, b, n), NEW x \in place, f[n + 1] = x
    PROVE  Painting(place, before, f, n + 1, b, PaintedOver(image, x, b[n + 1]))
<1>1. f[n + 1] \in place /\ image = Painted(place, before, f, n, a) /\ AllReached(place, f, n)
  BY DEF Painting
<1>2. PaintedOver(image, x, b[n + 1]) = PaintedOver(Painted(place, before, f, n, a), f[n + 1], b[n + 1])
  BY <1>1
<1>. QED
  BY <1>1, <1>2, Paints DEF Painting

\* Colours of other pixels change nothing.
LEMMA PaintsAlike ==
    ASSUME NEW place, NEW before, NEW f, NEW n \in Nat, AllReached(place, f, n),
           NEW a, NEW b, \A k \in 1..n : b[k] = a[k]
    PROVE  Painted(place, before, f, n, b) = Painted(place, before, f, n, a)
<1>1. ASSUME NEW p \in place, Hits(f, n, p) # {} PROVE b[Latest(f, n, p)] = a[Latest(f, n, p)]
  <2>1. \E k \in Hits(f, n, p) : \A j \in Hits(f, n, p) : j <= k
    BY <1>1 DEF Reached, AllReached
  <2>2. Latest(f, n, p) \in Hits(f, n, p)
    BY <2>1 DEF Latest
  <2>. QED
    BY <2>2 DEF Hits
<1>. QED
  BY <1>1 DEF Painted

-----------------------------------------------------------------------------
\* An image that n pixels have been painted on, along the rows of a window, and where the
\* next one belongs
Rows(x0, x1, y0, y1) == [k \in Nat |-> PlaceAt(x0, x1, y0, y1, k)]
Canvas(place, before, x0, x1, y0, y1, n, a, col, row, image) ==
    /\ <<col, row>> = PlaceAt(x0, x1, y0, y1, n + 1)
    /\ image = Painted(place, before, Rows(x0, x1, y0, y1), n, a)
    /\ AllReached(place, Rows(x0, x1, y0, y1), n)

\* The first pixel belongs in the corner.
LEMMA CanvasBegins ==
    ASSUME NEW place, NEW before, DOMAIN before = place, before = [p \in place |-> before[p]],
           NEW x0 \in Nat, NEW x1 \in Nat, x0 <= x1, NEW y0 \in Nat, NEW y1 \in Nat, y0 <= y1, NEW a
    PROVE  Canvas(place, before, x0, x1, y0, y1, 0, a, x0, y0, before)
<1>. DEFINE f == Rows(x0, x1, y0, y1)
            c == x1 - x0 + 1
            m == y1 - y0 + 1
<1>1. Painted(place, before, f, 0, a) = before /\ AllReached(place, f, 0)
  BY PaintsNothing
<1>2. PlaceAt(x0, x1, y0, y1, 0 + 1) = <<x0, y0>>
  <2>1. c \in Nat \ {0} /\ m \in Nat \ {0} /\ (0 + 1) - 1 = 0
    OBVIOUS
  <2>2. PlaceAt(x0, x1, y0, y1, 0 + 1) = <<x0 + (0 % c), y0 + ((0 \div c) % m)>>
    BY <2>1 DEF PlaceAt
  <2>. HIDE DEF c, m
  <2>3. 0 % c = 0 /\ 0 % m = 0 /\ 0 \div c = 0
    <3>1. 0 = 0 * c + 0 /\ 0 = 0 * m + 0 /\ 0 \in 0..c - 1 /\ 0 \in 0..m - 1 /\ 0 \in Int
      BY <2>1
    <3>. QED
      BY <2>1, <3>1, Residue, QuotientIs
  <2>. QED
    BY <2>2, <2>3
<1>. QED
  BY <1>1, <1>2 DEF Canvas

\* The next pixel goes where the cursor is, and the cursor to where the one after it belongs.
LEMMA CanvasGrows ==
    ASSUME NEW place, NEW before,
           NEW x0 \in Nat, NEW x1 \in Nat, x0 <= x1, NEW y0 \in Nat, NEW y1 \in Nat, y0 <= y1,
           \A x \in x0..x1, y \in y0..y1 : <<x, y>> \in place,
           NEW n \in Nat, NEW a, NEW b, Agree(a, b, n), NEW col, NEW row, NEW image,
           Canvas(place, before, x0, x1, y0, y1, n, a, col, row, image)
    PROVE  /\ col \in x0..x1 /\ row \in y0..y1
           /\ Canvas(place, before, x0, x1, y0, y1, n + 1, b, NextCol(x0, x1, col),
                     NextRow(x1, y0, y1, col, row), PaintedOver(image, <<col, row>>, b[n + 1]))
<1>. DEFINE f == Rows(x0, x1, y0, y1)
            k == n + 1
<1>1. /\ <<col, row>> = PlaceAt(x0, x1, y0, y1, k) /\ image = Painted(place, before, f, n, a)
      /\ AllReached(place, f, n)
  BY DEF Canvas
<1>2. k \in Nat \ {0} /\ f[k] = <<col, row>>
  BY <1>1 DEF Rows
<1>. HIDE DEF k, f
<1>3. /\ col \in x0..x1 /\ row \in y0..y1
      /\ PlaceAt(x0, x1, y0, y1, k + 1) = <<NextCol(x0, x1, col), NextRow(x1, y0, y1, col, row)>>
  BY <1>1, <1>2, CursorMoves
<1>4. f[n + 1] = <<col, row>> /\ f[n + 1] \in place /\ \A i \in 1..n : b[i] = a[i]
  BY <1>2, <1>3 DEF Agree, k
<1>5. Painting(place, before, f, n + 1, b, PaintedOver(image, <<col, row>>, b[n + 1]))
  <2>1. Painting(place, before, f, n, a, image)
    BY <1>1 DEF Painting
  <2>. DEFINE x == <<col, row>>
  <2>2. x \in place /\ f[n + 1] = x
    BY <1>4
  <2>. HIDE DEF x
  <2>3. Painting(place, before, f, n + 1, b, PaintedOver(image, x, b[n + 1]))
    BY <2>1, <2>2, PaintingGrows
  <2>. QED
    BY <2>3 DEF x
<1>. QED
  BY <1>1, <1>3, <1>4, <1>5 DEF Canvas, Painting, k, f

\* Colours of other pixels make no difference.
LEMMA CanvasSame ==
    ASSUME NEW place, NEW before, NEW x0, NEW x1, NEW y0, NEW y1, NEW n \in Nat, NEW a, NEW b, Agree(a, b, n),
           NEW col, NEW row, NEW image, Canvas(place, before, x0, x1, y0, y1, n, a, col, row, image)
    PROVE  Canvas(place, before, x0, x1, y0, y1, n, b, col, row, image)
<1>. DEFINE f == Rows(x0, x1, y0, y1)
<1>1. image = Painted(place, before, f, n, a) /\ AllReached(place, f, n)
  BY DEF Canvas
<1>2. \A k \in 1..n : b[k] = a[k]
  BY DEF Agree
<1>. HIDE DEF f
<1>3. Painted(place, before, f, n, b) = Painted(place, before, f, n, a)
  BY <1>1, <1>2, PaintsAlike
<1>. QED
  BY <1>1, <1>3 DEF Canvas, f

-----------------------------------------------------------------------------
(* The colour display *)

TftFields == {"cmd", "params", "window", "col", "row", "high", "bgr", "fb"}
TftPast == {"before", "window", "bgr", "bytes", "commands", "left"}
Byte8 == 0..Base - 1
Windows(width, height) ==
    {w \in [{"x0", "x1", "y0", "y1"} -> Nat] : w.x0 <= w.x1 /\ w.x1 < width /\ w.y0 <= w.y1 /\ w.y1 < height}

\* The bytes of a RAMWR: how many pixels, their colours, and the first byte of the next
Pixels(s) == Len(s) \div 2
PixelColours(s, bgr) == [k \in Nat |-> <<s[2 * k - 1], s[2 * k], bgr>>]
HighOf(s) == IF Len(s) % 2 = 0 THEN <<>> ELSE <<s[Len(s)]>>

\* While pixels are written,
Drawing(d, p) ==
    /\ p.window = d.window /\ p.bgr = d.bgr /\ d.high = HighOf(p.bytes)
    /\ Canvas(D!Place, p.before, d.window.x0, d.window.x1, d.window.y0, d.window.y1,
              Pixels(p.bytes), PixelColours(p.bytes, p.bgr), d.col, d.row, d.fb)

TftKept(d, p) ==
    /\ TftFields \subseteq DOMAIN d /\ TftPast \subseteq DOMAIN p
    /\ d.params \in Seq(Byte8) /\ Len(d.params) <= 4
    /\ d.window \in Windows(Width, Height) /\ p.bytes \in Seq(Byte8)
    /\ DOMAIN d.fb = D!Place /\ d.fb = [x \in D!Place |-> d.fb[x]]
    /\ IF d.cmd = "ramwr" THEN Drawing(d, p) ELSE p.bytes = <<>> /\ p.before = d.fb

\* A parameter is at most a byte in a word, and the ends are in order and on the panel.
LEMMA EndsOrdered ==
    ASSUME NEW p \in Seq(Byte8), Len(p) = 4, NEW last \in Nat
    PROVE  /\ D!Ends(p, last)[1] \in Nat /\ D!Ends(p, last)[2] \in Nat
           /\ D!Ends(p, last)[1] <= D!Ends(p, last)[2] /\ D!Ends(p, last)[2] <= last
<1>1. p[1] \in Nat /\ p[2] \in Nat /\ p[3] \in Nat /\ p[4] \in Nat /\ Base \in Nat
  <2>1. \A i \in 1..4 : p[i] \in Byte8
    BY ElementOfSeq
  <2>. QED
    BY <2>1, PanelsAssumption DEF Byte8
<1>. DEFINE a == p[1] * Base + p[2]
            b == p[3] * Base + p[4]
<1>2. a \in Nat /\ b \in Nat
  <2>1. \A m, n \in Nat : m * n \in Nat
    OBVIOUS
  <2>2. p[1] * Base \in Nat /\ p[3] * Base \in Nat
    BY <1>1, <2>1
  <2>. QED
    BY <1>1, <2>2, SMTT(60)
<1>3. D!Ends(p, last) = <<D!Lesser(D!Lesser(a, b), last), D!Lesser(IF a <= b THEN b ELSE a, last)>>
  BY DEF D!Ends
<1>. HIDE DEF a, b
<1>. QED
  BY <1>2, <1>3 DEF D!Lesser

\* No more than four parameters are kept.
LEMMA FourAtMost ==
    ASSUME NEW t \in Seq(Byte8), Len(t) <= 4, NEW b \in Byte8, NEW s, s = IF Len(t) < 4 THEN Append(t, b) ELSE t
    PROVE  s \in Seq(Byte8) /\ Len(s) <= 4 /\ Len(s) \in Nat /\ (Len(s) < 4 \/ Len(s) = 4)
<1>1. PICK n \in Nat : n = Len(t)
  BY LenProperties
<1>2. Append(t, b) \in Seq(Byte8) /\ Len(Append(t, b)) = n + 1
  BY <1>1, AppendProperties
<1>3. CASE n < 4
  <2>1. s = Append(t, b)
    BY <1>1, <1>3
  <2>. QED
    BY <1>2, <1>3, <2>1
<1>4. CASE n = 4
  <2>1. s = t
    BY <1>1, <1>4
  <2>. QED
    BY <1>1, <1>4, <2>1
<1>. QED
  BY <1>1, <1>3, <1>4

\* CASET and RASET set a side of the window.
LEMMA ParameterKeeps ==
    ASSUME NEW p, TftKept(dev, p), dev.cmd \in {"caset", "raset"}, NEW b \in Byte8,
           NEW q, DOMAIN q = DOMAIN p, q.bytes = p.bytes, q.before = p.before
    PROVE  TftKept(D!Parameter(b), q)
<1>. DEFINE s == IF Len(dev.params) < 4 THEN Append(dev.params, b) ELSE dev.params
            v == D!Parameter(b)
<1>1. /\ TftFields \subseteq DOMAIN dev /\ TftPast \subseteq DOMAIN p
      /\ dev.params \in Seq(Byte8) /\ Len(dev.params) <= 4
      /\ dev.window \in Windows(Width, Height) /\ p.bytes = <<>> /\ p.before = dev.fb
      /\ DOMAIN dev.fb = D!Place /\ dev.fb = [x \in D!Place |-> dev.fb[x]]
  BY DEF TftKept
<1>2. s \in Seq(Byte8) /\ Len(s) <= 4 /\ Len(s) \in Nat /\ (Len(s) < 4 \/ Len(s) = 4)
  BY <1>1, FourAtMost
<1>. DEFINE x == D!Ends(s, Width - 1)
            y == D!Ends(s, Height - 1)
            w == IF Len(s) < 4 THEN dev.window
                 ELSE IF dev.cmd = "caset" THEN [dev.window EXCEPT !.x0 = x[1], !.x1 = x[2]]
                 ELSE [dev.window EXCEPT !.y0 = y[1], !.y1 = y[2]]
<1>3. v = [dev EXCEPT !.params = s, !.window = w]
  BY DEF D!Parameter
<1>4. w \in Windows(Width, Height)
  <2>1. CASE Len(s) < 4
    BY <1>1, <2>1
  <2>2. CASE ~(Len(s) < 4)
    <3>1. Width - 1 \in Nat /\ Height - 1 \in Nat /\ Width \in Nat /\ Height \in Nat
      BY PanelsAssumption
    <3>2. Len(s) = 4
      BY <1>2, <2>2, Zenon
    <3>. HIDE DEF s
    <3>3. /\ x[1] \in Nat /\ x[2] \in Nat /\ x[1] <= x[2] /\ x[2] <= Width - 1
          /\ y[1] \in Nat /\ y[2] \in Nat /\ y[1] <= y[2] /\ y[2] <= Height - 1
      BY <1>2, <3>1, <3>2, EndsOrdered
    <3>. HIDE DEF x, y
    <3>4. x[2] < Width /\ y[2] < Height
      BY <3>1, <3>3
    <3>5. w = IF dev.cmd = "caset" THEN [dev.window EXCEPT !.x0 = x[1], !.x1 = x[2]]
              ELSE [dev.window EXCEPT !.y0 = y[1], !.y1 = y[2]]
      BY <2>2
    <3>. HIDE DEF w
    <3>. QED
      BY <1>1, <3>3, <3>4, <3>5 DEF Windows
  <2>. QED
    BY <2>1, <2>2
<1>. HIDE DEF s, w, v
<1>5. /\ DOMAIN v = DOMAIN dev /\ v.params = s /\ v.window = w /\ v.cmd = dev.cmd /\ v.fb = dev.fb
  BY <1>1, <1>3 DEF TftFields
<1>6. v.cmd # "ramwr"
  BY <1>5
<1>7. TftKept(v, q)
  BY <1>1, <1>2, <1>4, <1>5, <1>6 DEF TftKept
<1>. QED
  BY <1>7 DEF v

LEMMA Halving == \A n \in Nat : n \div 2 \in Nat /\ n % 2 \in 0..1 /\ n = 2 * (n \div 2) + (n % 2)
BY Quotient, QuotientBelow

\* A byte more begins a pixel or completes one.
LEMMA BytesPair ==
    ASSUME NEW s \in Seq(Byte8), NEW b \in Byte8, NEW n \in Nat, n = Len(s), NEW h, h = n \div 2
    PROVE  /\ h \in Nat /\ Append(s, b) \in Seq(Byte8) /\ Len(Append(s, b)) = n + 1 /\ Append(s, b)[n + 1] = b
           /\ n % 2 = 0 => (n + 1) \div 2 = h /\ (n + 1) % 2 = 1
           /\ n % 2 # 0 => (n + 1) \div 2 = h + 1 /\ (n + 1) % 2 = 0 /\ n = 2 * h + 1
                           /\ Append(s, b)[2 * (h + 1) - 1] = s[n] /\ Append(s, b)[2 * (h + 1)] = b
           /\ \A k \in 1..h : Append(s, b)[2 * k - 1] = s[2 * k - 1] /\ Append(s, b)[2 * k] = s[2 * k]
<1>1. h \in Nat /\ n % 2 \in 0..1 /\ n = 2 * h + (n % 2)
  BY Halving
<1>2. /\ Append(s, b) \in Seq(Byte8) /\ Len(Append(s, b)) = n + 1 /\ Append(s, b)[n + 1] = b
      /\ \A i \in 1..n : Append(s, b)[i] = s[i]
  BY AppendProperties
<1>3. /\ (n % 2) + 1 = 2 => (n + 1) % 2 = 0 /\ (n + 1) \div 2 = n \div 2 + 1
      /\ (n % 2) + 1 # 2 => (n + 1) % 2 = (n % 2) + 1 /\ (n + 1) \div 2 = n \div 2
  <2>1. 2 \in Nat \ {0}
    OBVIOUS
  <2>. QED
    BY <2>1, NextQuotient
<1>4. /\ n % 2 = 0 => (n + 1) \div 2 = h /\ (n + 1) % 2 = 1
      /\ n % 2 # 0 => (n + 1) \div 2 = h + 1 /\ (n + 1) % 2 = 0
  <2>. DEFINE r == n % 2
  <2>1. r \in 0..1
    BY <1>1
  <2>. HIDE DEF r
  <2>2. (r = 0 <=> r + 1 # 2) /\ (r = 0 => r + 1 = 1)
    BY <2>1
  <2>. QED
    BY <1>3, <2>2 DEF r
<1>5. n % 2 # 0 => n = 2 * h + 1 /\ 2 * (h + 1) - 1 = n /\ 2 * (h + 1) = n + 1 /\ n \in 1..n
  BY <1>1
<1>6. \A k \in 1..h : 2 * k - 1 \in 1..n /\ 2 * k \in 1..n
  BY <1>1
<1>. QED
  BY <1>1, <1>2, <1>3, <1>4, <1>5, <1>6

LEMMA PixelsSame ==
    ASSUME NEW s \in Seq(Byte8), NEW b \in Byte8, NEW g
    PROVE  Agree(PixelColours(s, g), PixelColours(Append(s, b), g), Pixels(s)) /\ Pixels(s) \in Nat
<1>. DEFINE n == Len(s)
            h == n \div 2
<1>1. n \in Nat
  BY LenProperties
<1>. HIDE DEF n
<1>2. h \in Nat /\ \A k \in 1..h : Append(s, b)[2 * k - 1] = s[2 * k - 1] /\ Append(s, b)[2 * k] = s[2 * k]
  <2>1. n = Len(s) /\ h = n \div 2
    BY DEF n
  <2>. HIDE DEF h
  <2>. QED
    BY <1>1, <2>1, BytesPair
<1>. HIDE DEF h
<1>3. \A k \in 1..h : PixelColours(Append(s, b), g)[k] = PixelColours(s, g)[k]
  <2>1. \A k \in 1..h : k \in Nat
    BY <1>2
  <2>. QED
    BY <1>2, <2>1 DEF PixelColours
<1>. QED
  BY <1>2, <1>3 DEF Agree, Pixels, h, n

\* The first byte of a pixel waits for the second.
LEMMA FirstByte ==
    ASSUME NEW s \in Seq(Byte8), NEW b \in Byte8, HighOf(s) = <<>>
    PROVE  HighOf(Append(s, b)) = <<b>> /\ Pixels(Append(s, b)) = Pixels(s)
<1>. DEFINE n == Len(s)
            h == n \div 2
            t == Append(s, b)
<1>1. n \in Nat /\ n % 2 = 0
  BY LenProperties DEF HighOf
<1>2. n = Len(s) /\ h = n \div 2 /\ t = Append(s, b)
  OBVIOUS
<1>. HIDE DEF n, h, t
<1>3. Len(t) = n + 1 /\ (n + 1) \div 2 = h /\ (n + 1) % 2 = 1 /\ t[n + 1] = b
  BY <1>1, <1>2, BytesPair
<1>4. HighOf(t) = <<b>> /\ Pixels(t) = h
  BY <1>3 DEF HighOf, Pixels
<1>. QED
  BY <1>2, <1>4 DEF Pixels

\* The second byte completes it.
LEMMA SecondByte ==
    ASSUME NEW s \in Seq(Byte8), NEW b \in Byte8, NEW g, HighOf(s) # <<>>
    PROVE  /\ HighOf(Append(s, b)) = <<>> /\ Pixels(Append(s, b)) = Pixels(s) + 1
           /\ PixelColours(Append(s, b), g)[Pixels(s) + 1] = <<HighOf(s)[1], b, g>>
<1>. DEFINE n == Len(s)
            h == n \div 2
            t == Append(s, b)
<1>1. n \in Nat /\ n % 2 # 0 /\ HighOf(s)[1] = s[n]
  BY LenProperties DEF HighOf
<1>2. n = Len(s) /\ h = n \div 2 /\ t = Append(s, b)
  OBVIOUS
<1>. HIDE DEF n, h, t
<1>3. /\ Len(t) = n + 1 /\ (n + 1) \div 2 = h + 1 /\ (n + 1) % 2 = 0 /\ h \in Nat
      /\ t[2 * (h + 1) - 1] = s[n] /\ t[2 * (h + 1)] = b
  <2>1. t \in Seq(Byte8) /\ Len(t) = n + 1 /\ t[n + 1] = b /\ \A i \in 1..n : t[i] = s[i]
    BY <1>2, AppendProperties
  <2>2. h \in Nat /\ n % 2 \in 0..1 /\ n = 2 * h + (n % 2)
    BY <1>1, <1>2, Halving
  <2>3. n % 2 = 1 /\ n = 2 * h + 1 /\ 2 * (h + 1) - 1 = n /\ 2 * (h + 1) = n + 1 /\ n \in 1..n
    BY <1>1, <2>2
  <2>4. (n % 2) + 1 = 2 => (n + 1) % 2 = 0 /\ (n + 1) \div 2 = (n \div 2) + 1
    <3>1. 2 \in Nat \ {0}
      OBVIOUS
    <3>. QED
      BY <1>1, <3>1, NextQuotient
  <2>5. (n + 1) \div 2 = h + 1 /\ (n + 1) % 2 = 0
    BY <1>2, <2>3, <2>4
  <2>. QED
    BY <2>1, <2>2, <2>3, <2>5
<1>4. HighOf(t) = <<>> /\ Pixels(t) = h + 1
  BY <1>3 DEF HighOf, Pixels
<1>5. PixelColours(t, g)[h + 1] = <<s[n], b, g>>
  <2>1. h + 1 \in Nat
    BY <1>3
  <2>. QED
    BY <1>3, <2>1 DEF PixelColours
<1>. QED
  BY <1>1, <1>2, <1>4, <1>5 DEF Pixels

\* write_pixel_byte draws the next pixel of the window.
LEMMA PixelByteKeeps ==
    ASSUME NEW p, TftKept(dev, p), dev.cmd = "ramwr", NEW b \in Byte8,
           NEW q, DOMAIN q = DOMAIN p, q.bytes = Append(p.bytes, b), q.before = p.before, q.window = p.window,
           q.bgr = p.bgr
    PROVE  TftKept(D!PixelByte(b), q)
<1>. DEFINE v == D!PixelByte(b)
            w == dev.window
<1>1. /\ TftFields \subseteq DOMAIN dev /\ TftPast \subseteq DOMAIN p
      /\ dev.params \in Seq(Byte8) /\ Len(dev.params) <= 4
      /\ w \in Windows(Width, Height) /\ p.bytes \in Seq(Byte8)
      /\ DOMAIN dev.fb = D!Place /\ dev.fb = [x \in D!Place |-> dev.fb[x]]
      /\ Drawing(dev, p)
  BY DEF TftKept
<1>2. PICK x0 \in Nat, x1 \in Nat, y0 \in Nat, y1 \in Nat :
          x0 = w.x0 /\ x1 = w.x1 /\ y0 = w.y0 /\ y1 = w.y1 /\ x0 <= x1 /\ y0 <= y1 /\ x1 < Width /\ y1 < Height
  BY <1>1 DEF Windows
<1>. DEFINE s == p.bytes
            t == q.bytes
            n == Pixels(s)
            a == PixelColours(s, dev.bgr)
            e == PixelColours(t, dev.bgr)
<1>3. s \in Seq(Byte8) /\ t = Append(s, b) /\ t \in Seq(Byte8)
  BY <1>1, AppendProperties
<1>4. p.window = w /\ p.bgr = dev.bgr /\ dev.high = HighOf(s)
        /\ Canvas(D!Place, p.before, x0, x1, y0, y1, n, a, dev.col, dev.row, dev.fb)
  BY <1>1, <1>2 DEF Drawing
<1>. HIDE DEF s, t, w, v
<1>5. Agree(a, e, n) /\ n \in Nat
  BY <1>3, PixelsSame
<1>6. CASE dev.high = <<>>
  <2>1. v = [dev EXCEPT !.high = <<b>>]
    BY <1>6 DEF D!PixelByte, v
  <2>2. /\ DOMAIN v = DOMAIN dev /\ v.cmd = dev.cmd /\ v.params = dev.params /\ v.window = w /\ v.fb = dev.fb
        /\ v.col = dev.col /\ v.row = dev.row /\ v.high = <<b>> /\ v.bgr = dev.bgr
    BY <1>1, <2>1 DEF TftFields, w
  <2>3. HighOf(t) = <<b>> /\ Pixels(t) = n
    BY <1>3, <1>4, <1>6, FirstByte
  <2>. HIDE DEF n, a, e
  <2>4. Canvas(D!Place, p.before, x0, x1, y0, y1, n, e, dev.col, dev.row, dev.fb)
    BY <1>4, <1>5, CanvasSame
  <2>5. Drawing(v, q)
    BY <1>2, <1>4, <2>2, <2>3, <2>4 DEF Drawing, t, e, w
  <2>6. TftKept(v, q)
    BY <1>1, <1>3, <2>2, <2>5 DEF TftKept, t, w
  <2>. QED
    BY <2>6 DEF v
<1>7. CASE dev.high # <<>>
  <2>. DEFINE pixel == <<dev.high[1], b, dev.bgr>>
              fb == [dev.fb EXCEPT ![<<dev.col, dev.row>>] = pixel]
              col == NextCol(x0, x1, dev.col)
              row == NextRow(x1, y0, y1, dev.col, dev.row)
  <2>1. HighOf(t) = <<>> /\ Pixels(t) = n + 1 /\ e[n + 1] = pixel
    BY <1>3, <1>4, <1>7, SecondByte
  <2>. HIDE DEF n, a, e, pixel
  <2>2. /\ dev.col \in x0..x1 /\ dev.row \in y0..y1
        /\ Canvas(D!Place, p.before, x0, x1, y0, y1, n + 1, e, col, row, PaintedOver(dev.fb, <<dev.col, dev.row>>, e[n + 1]))
    <3>1. \A x \in x0..x1, y \in y0..y1 : <<x, y>> \in D!Place
      <4>1. x1 < Width /\ y1 < Height /\ Width \in Nat /\ Height \in Nat
        BY <1>2, PanelsAssumption
      <4>2. (x0..x1) \X (y0..y1) \subseteq D!Place
        <5>1. x0..x1 \subseteq 0..Width - 1 /\ y0..y1 \subseteq 0..Height - 1
          BY <4>1
        <5>. QED
          BY <5>1 DEF D!Place
      <4>. QED
        BY <4>2
    <3>2. PICK c, r, i, m : c = dev.col /\ r = dev.row /\ i = dev.fb /\ m = p.before
      OBVIOUS
    <3>3. x0 <= x1 /\ y0 <= y1 /\ n \in Nat /\ Agree(a, e, n) /\ Canvas(D!Place, m, x0, x1, y0, y1, n, a, c, r, i)
      BY <1>2, <1>4, <1>5, <3>2
    <3>4. /\ c \in x0..x1 /\ r \in y0..y1
          /\ Canvas(D!Place, m, x0, x1, y0, y1, n + 1, e, NextCol(x0, x1, c), NextRow(x1, y0, y1, c, r),
                    PaintedOver(i, <<c, r>>, e[n + 1]))
      <4>. HIDE DEF fb, col, row
      <4>. QED
        BY <3>1, <3>3, CanvasGrows
    <3>. QED
      BY <3>2, <3>4
  <2>3. PaintedOver(dev.fb, <<dev.col, dev.row>>, e[n + 1]) = fb
    BY <2>1 DEF PaintedOver
  <2>4. v = [dev EXCEPT !.high = <<>>, !.fb = fb, !.col = col, !.row = row]
    <3>1. /\ dev.row <= w.y1 /\ dev.col <= w.x1 /\ (dev.col >= w.x1 <=> dev.col = w.x1)
          /\ (dev.row >= w.y1 <=> dev.row = w.y1) /\ (dev.col < w.x1 <=> dev.col # w.x1)
      BY <1>2, <2>2
    <3>2. v = [dev EXCEPT !.high = <<>>,
                !.fb = IF dev.row <= w.y1 /\ dev.col <= w.x1 THEN fb ELSE dev.fb,
                !.col = IF dev.col >= w.x1 THEN w.x0 ELSE dev.col + 1,
                !.row = IF dev.col < w.x1 THEN dev.row ELSE IF dev.row >= w.y1 THEN w.y0 ELSE dev.row + 1]
      BY <1>7 DEF D!PixelByte, v, w, pixel
    <3>3. /\ (IF dev.row <= w.y1 /\ dev.col <= w.x1 THEN fb ELSE dev.fb) = fb
          /\ (IF dev.col >= w.x1 THEN w.x0 ELSE dev.col + 1) = col
          /\ (IF dev.col < w.x1 THEN dev.row ELSE IF dev.row >= w.y1 THEN w.y0 ELSE dev.row + 1) = row
      BY <1>2, <3>1 DEF NextCol, NextRow
    <3>. HIDE DEF fb, col, row
    <3>. QED
      BY <3>2, <3>3
  <2>5. DOMAIN fb = D!Place /\ fb = [y \in D!Place |-> fb[y]]
    BY <1>1
  <2>. HIDE DEF fb, col, row
  <2>6. /\ DOMAIN v = DOMAIN dev /\ v.cmd = dev.cmd /\ v.params = dev.params /\ v.window = w /\ v.fb = fb
        /\ v.col = col /\ v.row = row /\ v.high = <<>> /\ v.bgr = dev.bgr
    BY <1>1, <2>4 DEF TftFields, w
  <2>7. Drawing(v, q)
    BY <1>2, <1>4, <2>1, <2>2, <2>3, <2>6 DEF Drawing, t, e, w
  <2>8. TftKept(v, q)
    BY <1>1, <1>3, <2>5, <2>6, <2>7 DEF TftKept, t, w
  <2>. QED
    BY <2>8 DEF v
<1>. QED
  BY <1>6, <1>7

LEMMA WholePanel == D!Whole \in Windows(Width, Height) /\ DOMAIN D!Black = D!Place /\ D!Black = [x \in D!Place |-> D!Black[x]]
<1>1. Width - 1 \in Nat /\ Height - 1 \in Nat /\ Width - 1 < Width /\ Height - 1 < Height
  BY PanelsAssumption
<1>2. D!Whole \in Windows(Width, Height)
  BY <1>1 DEF Windows, D!Whole
<1>3. DOMAIN D!Black = D!Place /\ D!Black = [x \in D!Place |-> D!Black[x]]
  BY DEF D!Black
<1>. QED
  BY <1>2, <1>3

LEMMA TftBegins == ASSUME D!Init PROVE TftKept(dev, past)
<1>1. /\ TftFields \subseteq DOMAIN dev /\ dev.params = <<>> /\ dev.window = D!Whole /\ dev.fb = D!Black /\ dev.cmd = "none"
  BY DEF D!Init, TftFields
<1>2. /\ TftPast \subseteq DOMAIN past /\ past.bytes = <<>> /\ past.before = D!Black
  BY DEF D!Init, TftPast
<1>3. <<>> \in Seq(Byte8) /\ Len(<<>>) <= 4
  OBVIOUS
<1>. QED
  BY <1>1, <1>2, <1>3, WholePanel DEF TftKept

\* A command ends what was under way; RAMWR begins at the corner of the window.
LEMMA TftCommandKeeps == ASSUME TftKept(dev, past), D!Command PROVE TftKept(dev', past')
<1>1. /\ TftFields \subseteq DOMAIN dev /\ TftPast \subseteq DOMAIN past /\ dev.window \in Windows(Width, Height)
      /\ DOMAIN dev.fb = D!Place /\ dev.fb = [x \in D!Place |-> dev.fb[x]]
  BY DEF TftKept
<1>2. past' = [past EXCEPT !.commands = @ - 1, !.before = dev'.fb, !.window = dev.window, !.bgr = dev.bgr, !.bytes = <<>>]
  BY DEF D!Command
<1>3. /\ TftPast \subseteq DOMAIN past' /\ past'.before = dev'.fb /\ past'.window = dev.window /\ past'.bgr = dev.bgr
      /\ past'.bytes = <<>>
  BY <1>1, <1>2 DEF TftPast
<1>4. <<>> \in Seq(Byte8) /\ Len(<<>>) = 0 /\ 0 <= 4
  OBVIOUS
<1>. DEFINE next(c) == [dev EXCEPT !.params = <<>>, !.cmd = c]
<1>5. PICK c \in {"caset", "raset", "madctl", "ramwr", "swreset", "none"} :
         dev' = CASE c = "ramwr" -> [next(c) EXCEPT !.col = dev.window.x0, !.row = dev.window.y0, !.high = <<>>]
                  [] c = "swreset" -> [next(c) EXCEPT !.fb = D!Black, !.window = D!Whole, !.bgr = FALSE, !.cmd = "none"]
                  [] OTHER -> next(c)
  BY DEF D!Command
<1>6. CASE c = "ramwr"
  <2>1. dev' = [next(c) EXCEPT !.col = dev.window.x0, !.row = dev.window.y0, !.high = <<>>]
    BY <1>5, <1>6
  <2>2. /\ TftFields \subseteq DOMAIN dev' /\ dev'.params = <<>> /\ dev'.cmd = "ramwr" /\ dev'.window = dev.window
        /\ dev'.fb = dev.fb /\ dev'.bgr = dev.bgr /\ dev'.high = <<>>
        /\ dev'.col = dev.window.x0 /\ dev'.row = dev.window.y0
    BY <1>1, <1>6, <2>1 DEF TftFields
  <2>3. PICK x0 \in Nat, x1 \in Nat, y0 \in Nat, y1 \in Nat :
            /\ x0 = dev.window.x0 /\ x1 = dev.window.x1 /\ y0 = dev.window.y0 /\ y1 = dev.window.y1
            /\ x0 <= x1 /\ y0 <= y1
    BY <1>1 DEF Windows
  <2>4. HighOf(<<>>) = <<>> /\ Pixels(<<>>) = 0
    <3>1. 0 % 2 = 0 /\ 0 \div 2 = 0
      OBVIOUS
    <3>. QED
      BY <1>4, <3>1 DEF HighOf, Pixels
  <2>5. PICK fb, a : fb = dev.fb /\ a = PixelColours(<<>>, dev.bgr)
    OBVIOUS
  <2>6. Canvas(D!Place, fb, x0, x1, y0, y1, 0, a, x0, y0, fb)
    BY <1>1, <2>3, <2>5, CanvasBegins
  <2>7. Drawing(dev', past')
    BY <1>3, <2>2, <2>3, <2>4, <2>5, <2>6 DEF Drawing
  <2>. QED
    BY <1>1, <1>3, <1>4, <2>2, <2>7 DEF TftKept
<1>7. CASE c = "swreset"
  <2>1. dev' = [next(c) EXCEPT !.fb = D!Black, !.window = D!Whole, !.bgr = FALSE, !.cmd = "none"]
    BY <1>5, <1>7
  <2>2. /\ TftFields \subseteq DOMAIN dev' /\ dev'.params = <<>> /\ dev'.cmd = "none" /\ dev'.window = D!Whole
        /\ dev'.fb = D!Black
    BY <1>1, <2>1 DEF TftFields
  <2>. QED
    BY <1>3, <1>4, <2>2, WholePanel DEF TftKept
<1>8. CASE c \notin {"ramwr", "swreset"}
  <2>1. dev' = next(c)
    BY <1>5, <1>8
  <2>2. /\ TftFields \subseteq DOMAIN dev' /\ dev'.params = <<>> /\ dev'.cmd # "ramwr" /\ dev'.window = dev.window
        /\ dev'.fb = dev.fb
    BY <1>1, <1>8, <2>1 DEF TftFields
  <2>. QED
    BY <1>1, <1>3, <1>4, <2>2 DEF TftKept
<1>. QED
  BY <1>6, <1>7, <1>8

LEMMA TftDataKeeps == ASSUME TftKept(dev, past), D!Data PROVE TftKept(dev', past')
<1>1. /\ TftFields \subseteq DOMAIN dev /\ TftPast \subseteq DOMAIN past
  BY DEF TftKept
<1>2. PICK b \in Byte8 :
         /\ dev' = CASE dev.cmd \in {"caset", "raset"} -> D!Parameter(b)
                     [] dev.cmd = "madctl" -> [dev EXCEPT !.bgr = b # 0]
                     [] dev.cmd = "ramwr" -> D!PixelByte(b)
                     [] OTHER -> dev
         /\ past' = [past EXCEPT !.left = @ - 1, !.bytes = IF dev.cmd = "ramwr" THEN Append(@, b) ELSE @]
  BY DEF D!Data, Byte8
<1>3. /\ DOMAIN past' = DOMAIN past /\ past'.before = past.before /\ past'.window = past.window /\ past'.bgr = past.bgr
      /\ past'.bytes = IF dev.cmd = "ramwr" THEN Append(past.bytes, b) ELSE past.bytes
  BY <1>1, <1>2 DEF TftPast
<1>4. CASE dev.cmd \in {"caset", "raset"}
  <2>1. dev' = D!Parameter(b) /\ past'.bytes = past.bytes
    BY <1>2, <1>3, <1>4
  <2>. QED
    BY <1>3, <1>4, <2>1, ParameterKeeps
<1>5. CASE dev.cmd = "ramwr"
  <2>1. dev' = D!PixelByte(b) /\ past'.bytes = Append(past.bytes, b)
    BY <1>2, <1>3, <1>5
  <2>. QED
    BY <1>3, <1>5, <2>1, PixelByteKeeps
<1>6. CASE dev.cmd \notin {"caset", "raset", "ramwr"}
  <2>1. dev' = [dev EXCEPT !.bgr = b # 0] \/ dev' = dev
    BY <1>2, <1>6
  <2>2. /\ TftFields \subseteq DOMAIN dev' /\ dev'.params = dev.params /\ dev'.cmd # "ramwr" /\ dev'.window = dev.window
        /\ dev'.fb = dev.fb
    BY <1>1, <1>6, <2>1 DEF TftFields
  <2>3. past'.bytes = past.bytes
    BY <1>3, <1>6
  <2>. QED
    BY <1>1, <1>3, <1>6, <2>2, <2>3 DEF TftKept
<1>. QED
  BY <1>4, <1>5, <1>6

LEMMA TftStepKeeps == ASSUME TftKept(dev, past), D!Next PROVE TftKept(dev', past')
<1>1. CASE D!Rest
  BY <1>1 DEF D!Rest, D!vars
<1>. QED
  BY <1>1, TftCommandKeeps, TftDataKeeps DEF D!Next

\* What has been painted is what was sent.
LEMMA TftAccounted == ASSUME TftKept(dev, past) PROVE D!Accounted
<1>. DEFINE n == Pixels(past.bytes)
            a == PixelColours(past.bytes, past.bgr)
            w == past.window
            f == Rows(w.x0, w.x1, w.y0, w.y1)
<1>1. n \in Nat
  BY LenProperties, Halving DEF TftKept, Pixels
<1>2. dev.fb = Painted(D!Place, past.before, f, n, a) /\ AllReached(D!Place, f, n)
  <2>1. CASE dev.cmd = "ramwr"
    BY <2>1 DEF TftKept, Drawing, Canvas
  <2>2. CASE dev.cmd # "ramwr"
    <3>1. past.bytes = <<>> /\ DOMAIN past.before = D!Place /\ past.before = [x \in D!Place |-> past.before[x]] /\ past.before = dev.fb
      BY <2>2 DEF TftKept
    <3>2. n = 0
      BY <3>1 DEF Pixels
    <3>. HIDE DEF n, a, f
    <3>. QED
      BY <3>1, <3>2, PaintsNothing
  <2>. QED
    BY <2>1, <2>2
<1>. DEFINE at(p) == {k \in 1..n : D!PlaceOf(k) = p}
            last(p) == CHOOSE k \in at(p) : \A j \in at(p) : j <= k
<1>3. ASSUME NEW p PROVE Hits(f, n, p) = at(p) /\ Latest(f, n, p) = last(p)
  <2>1. \A k \in 1..n : f[k] = D!PlaceOf(k)
    BY <1>1 DEF Rows, PlaceAt, D!PlaceOf
  <2>2. Hits(f, n, p) = at(p)
    BY <2>1 DEF Hits
  <2>. QED
    BY <2>2 DEF Latest
<1>4. ASSUME NEW p \in D!Place, at(p) # {} PROVE a[last(p)] = <<past.bytes[2 * last(p) - 1], past.bytes[2 * last(p)], past.bgr>>
  <2>1. Hits(f, n, p) # {} /\ Reached(f, n, p)
    BY <1>2, <1>3, <1>4 DEF AllReached
  <2>2. Latest(f, n, p) \in Hits(f, n, p)
    BY <2>1 DEF Reached, Latest
  <2>3. last(p) \in Nat
    <3>1. Latest(f, n, p) \in 1..n /\ Latest(f, n, p) = last(p)
      BY <1>3, <2>2 DEF Hits
    <3>. HIDE DEF n, f, last
    <3>. QED
      BY <1>1, <3>1
  <2>. QED
    BY <2>3 DEF PixelColours
<1>5. dev.fb = [p \in D!Place |->
                  IF at(p) = {} THEN past.before[p]
                  ELSE <<past.bytes[2 * last(p) - 1], past.bytes[2 * last(p)], past.bgr>>]
  <2>. HIDE DEF n, a, f, at, last
  <2>. QED
    BY <1>2, <1>3, <1>4 DEF Painted
<1>. QED
  BY <1>5 DEF D!Accounted, Pixels

-----------------------------------------------------------------------------
(* The monochrome display *)

OledFields == {"control", "co", "dc", "awaiting", "window", "col", "page", "ram"}
OledPast == {"before", "sent", "lit", "left", "controls"}
OledWindows == {w \in [{"c0", "c1", "p0", "p1"} -> Nat] : w.c1 < Columns /\ w.p1 < Pages}

\* What the bytes since a window was set have painted
Lit(o, p) ==
    IF O!Inverted(o.window) THEN o.ram = p.before
    ELSE Canvas(O!Place, p.before, o.window.c0, o.window.c1, o.window.p0, o.window.p1,
                Len(p.sent), p.sent, o.col, o.page, o.ram)

Image(ram) == DOMAIN ram = O!Place /\ ram = [x \in O!Place |-> ram[x]]

OledKept(o, p) ==
    /\ OledFields \subseteq DOMAIN o /\ OledPast \subseteq DOMAIN p
    /\ o.window \in OledWindows /\ Image(o.ram) /\ p.sent \in Seq(Nat) /\ p.lit \in Nat
    /\ o.awaiting \notin {"colEnd", "pageEnd"} => Lit(o, p)

\* What paints nothing and begins no window leaves all this as it is.
LEMMA OledSame ==
    ASSUME NEW o, NEW p, OledKept(o, p), NEW v, NEW q,
           OledFields \subseteq DOMAIN v, OledPast \subseteq DOMAIN q,
           v.window = o.window, v.ram = o.ram, v.col = o.col, v.page = o.page,
           v.awaiting \in {"colEnd", "pageEnd"} \/ o.awaiting \notin {"colEnd", "pageEnd"},
           q.before = p.before, q.sent = p.sent, q.lit = p.lit
    PROVE  OledKept(v, q)
BY DEF OledKept, Lit

\* A window that has just been set
LEMMA OledCornered ==
    ASSUME NEW o, NEW p, OledFields \subseteq DOMAIN o, OledPast \subseteq DOMAIN p, o.window \in OledWindows,
           Image(o.ram), p.lit \in Nat, p.sent = <<>>, p.before = o.ram, o.col = o.window.c0, o.page = o.window.p0
    PROVE  OledKept(o, p)
<1>1. PICK x0 \in Nat, x1 \in Nat, y0 \in Nat, y1 \in Nat :
          x0 = o.window.c0 /\ x1 = o.window.c1 /\ y0 = o.window.p0 /\ y1 = o.window.p1
  BY DEF OledWindows
<1>2. PICK i, a : i = o.ram /\ a = p.sent
  OBVIOUS
<1>3. ASSUME ~O!Inverted(o.window) PROVE Canvas(O!Place, i, x0, x1, y0, y1, 0, a, x0, y0, i)
  <2>1. x0 <= x1 /\ y0 <= y1
    BY <1>1, <1>3 DEF O!Inverted
  <2>2. DOMAIN i = O!Place /\ i = [x \in O!Place |-> i[x]]
    BY <1>2 DEF Image
  <2>. QED
    BY <2>1, <2>2, CanvasBegins
<1>4. Len(p.sent) = 0 /\ p.sent \in Seq(Nat)
  OBVIOUS
<1>5. Lit(o, p)
  BY <1>1, <1>2, <1>3, <1>4 DEF Lit
<1>. QED
  BY <1>4, <1>5 DEF OledKept

LEMMA OledBegins == ASSUME O!Init PROVE OledKept(dev, past)
<1>1. Columns - 1 \in Nat /\ Pages - 1 \in Nat /\ Columns - 1 < Columns /\ Pages - 1 < Pages
  BY PanelsAssumption
<1>2. O!Whole \in OledWindows /\ O!Whole.c0 = 0 /\ O!Whole.p0 = 0
  BY <1>1 DEF OledWindows, O!Whole
<1>3. Image(O!Dark)
  BY DEF Image, O!Dark
<1>4. /\ OledFields \subseteq DOMAIN dev /\ dev.window = O!Whole /\ dev.col = 0 /\ dev.page = 0 /\ dev.ram = O!Dark
  BY DEF O!Init, OledFields
<1>5. OledPast \subseteq DOMAIN past /\ past.before = O!Dark /\ past.sent = <<>> /\ past.lit = 0
  BY DEF O!Init, OledPast
<1>. QED
  BY <1>2, <1>3, <1>4, <1>5, OledCornered

\* A byte that is taken
LEMMA OledTaken ==
    ASSUME NEW o, OledFields \subseteq DOMAIN o
    PROVE  /\ OledFields \subseteq DOMAIN O!Taken(o) /\ O!Taken(o).window = o.window /\ O!Taken(o).ram = o.ram
           /\ O!Taken(o).col = o.col /\ O!Taken(o).page = o.page /\ O!Taken(o).awaiting = o.awaiting
BY DEF O!Taken, OledFields

LEMMA OledOpcodeKeeps == ASSUME OledKept(dev, past), O!Opcode PROVE OledKept(dev', past')
<1>1. OledFields \subseteq DOMAIN dev /\ OledPast \subseteq DOMAIN past
  BY DEF OledKept
<1>2. PICK next \in {"colStart", "pageStart", "ignored", "none"} :
         /\ dev.awaiting = "none" /\ dev' = O!Taken([dev EXCEPT !.awaiting = next])
         /\ past' = [past EXCEPT !.left = @ - 1]
  BY DEF O!Opcode
<1>. DEFINE o == [dev EXCEPT !.awaiting = next]
<1>3. /\ OledFields \subseteq DOMAIN o /\ o.window = dev.window /\ o.ram = dev.ram /\ o.col = dev.col /\ o.page = dev.page
  BY <1>1 DEF OledFields
<1>. HIDE DEF o
<1>4. /\ OledFields \subseteq DOMAIN dev' /\ dev'.window = dev.window /\ dev'.ram = dev.ram /\ dev'.col = dev.col
      /\ dev'.page = dev.page
  BY <1>2, <1>3, OledTaken DEF o
<1>5. /\ OledPast \subseteq DOMAIN past' /\ past'.before = past.before /\ past'.sent = past.sent /\ past'.lit = past.lit
  BY <1>1, <1>2 DEF OledPast
<1>6. dev.awaiting \notin {"colEnd", "pageEnd"}
  BY <1>2
<1>. QED
  BY <1>4, <1>5, <1>6, OledSame

LEMMA OledControlKeeps == ASSUME OledKept(dev, past), O!Control \/ O!Stop PROVE OledKept(dev', past')
<1>1. OledFields \subseteq DOMAIN dev /\ OledPast \subseteq DOMAIN past
  BY DEF OledKept
<1>2. (\E co, dc : dev' = [dev EXCEPT !.co = co, !.dc = dc, !.control = FALSE]) \/ dev' = [dev EXCEPT !.control = TRUE]
  BY DEF O!Control, O!Stop
<1>3. past' = [past EXCEPT !.controls = @ - 1] \/ past' = past
  BY DEF O!Control, O!Stop
<1>4. /\ OledFields \subseteq DOMAIN dev' /\ dev'.window = dev.window /\ dev'.ram = dev.ram /\ dev'.col = dev.col
      /\ dev'.page = dev.page /\ dev'.awaiting = dev.awaiting
  BY <1>1, <1>2 DEF OledFields
<1>5. /\ OledPast \subseteq DOMAIN past' /\ past'.before = past.before /\ past'.sent = past.sent /\ past'.lit = past.lit
  BY <1>1, <1>3 DEF OledPast
<1>. QED
  BY <1>4, <1>5, OledSame

\* A window is set to ends on the panel.
LEMMA OledParameterKeeps == ASSUME OledKept(dev, past), O!Parameter PROVE OledKept(dev', past')
<1>1. /\ OledFields \subseteq DOMAIN dev /\ OledPast \subseteq DOMAIN past /\ dev.window \in OledWindows
      /\ Image(dev.ram) /\ past.sent \in Seq(Nat) /\ past.lit \in Nat
  BY DEF OledKept
<1>2. PICK n \in Parameters :
        LET col == O!Lesser(n, Columns - 1)
            page == O!Lesser(n, Pages - 1)
            done == [dev EXCEPT !.awaiting = "none"]
            new == CASE dev.awaiting = "colStart" -> [dev EXCEPT !.awaiting = "colEnd", !.window.c0 = col]
                     [] dev.awaiting = "colEnd" -> O!Cornered([done EXCEPT !.window.c1 = col])
                     [] dev.awaiting = "pageStart" -> [dev EXCEPT !.awaiting = "pageEnd", !.window.p0 = page]
                     [] dev.awaiting = "pageEnd" -> O!Cornered([done EXCEPT !.window.p1 = page])
                     [] OTHER -> done
        IN  /\ dev.awaiting # "none"
            /\ dev' = O!Taken(new)
            /\ past' = IF dev.awaiting \in {"colEnd", "pageEnd"}
                       THEN [past EXCEPT !.left = @ - 1, !.before = dev.ram, !.sent = <<>>]
                       ELSE [past EXCEPT !.left = @ - 1]
  BY DEF O!Parameter
<1>3. PICK col, page : col = O!Lesser(n, Columns - 1) /\ page = O!Lesser(n, Pages - 1)
  OBVIOUS
<1>4. col \in Nat /\ page \in Nat /\ col < Columns /\ page < Pages
  BY <1>3, PanelsAssumption DEF O!Lesser
<1>. DEFINE done == [dev EXCEPT !.awaiting = "none"]
            new == CASE dev.awaiting = "colStart" -> [dev EXCEPT !.awaiting = "colEnd", !.window.c0 = col]
                     [] dev.awaiting = "colEnd" -> O!Cornered([done EXCEPT !.window.c1 = col])
                     [] dev.awaiting = "pageStart" -> [dev EXCEPT !.awaiting = "pageEnd", !.window.p0 = page]
                     [] dev.awaiting = "pageEnd" -> O!Cornered([done EXCEPT !.window.p1 = page])
                     [] OTHER -> done
<1>5. dev' = O!Taken(new)
  BY <1>2, <1>3
<1>6. OledPast \subseteq DOMAIN past' /\ past'.lit = past.lit
  BY <1>1, <1>2 DEF OledPast
<1>7. CASE dev.awaiting \in {"colEnd", "pageEnd"}
  <2>1. past' = [past EXCEPT !.left = @ - 1, !.before = dev.ram, !.sent = <<>>]
    BY <1>2, <1>7
  <2>2. past'.before = dev.ram /\ past'.sent = <<>>
    BY <1>1, <2>1 DEF OledPast
  <2>3. PICK w \in OledWindows : new = O!Cornered([done EXCEPT !.window = w])
    <3>1. CASE dev.awaiting = "colEnd"
      <4>1. [dev.window EXCEPT !.c1 = col] \in OledWindows
        BY <1>1, <1>4 DEF OledWindows
      <4>2. new = O!Cornered([done EXCEPT !.window.c1 = col])
        BY <3>1
      <4>3. [done EXCEPT !.window.c1 = col] = [done EXCEPT !.window = [dev.window EXCEPT !.c1 = col]]
        BY <1>1 DEF OledFields
      <4>. QED
        BY <4>1, <4>2, <4>3
    <3>2. CASE dev.awaiting = "pageEnd"
      <4>1. [dev.window EXCEPT !.p1 = page] \in OledWindows
        BY <1>1, <1>4 DEF OledWindows
      <4>2. new = O!Cornered([done EXCEPT !.window.p1 = page])
        BY <3>2
      <4>3. [done EXCEPT !.window.p1 = page] = [done EXCEPT !.window = [dev.window EXCEPT !.p1 = page]]
        BY <1>1 DEF OledFields
      <4>. QED
        BY <4>1, <4>2, <4>3
    <3>. QED
      BY <1>7, <3>1, <3>2
  <2>. HIDE DEF new
  <2>4. /\ OledFields \subseteq DOMAIN new /\ new.window = w /\ new.ram = dev.ram /\ new.col = w.c0 /\ new.page = w.p0
    <3>. DEFINE set == [done EXCEPT !.window = w]
    <3>1. OledFields \subseteq DOMAIN set /\ set.window = w /\ set.ram = dev.ram
      BY <1>1 DEF OledFields
    <3>2. new = [set EXCEPT !.col = set.window.c0, !.page = set.window.p0]
      BY <2>3 DEF O!Cornered
    <3>. HIDE DEF set
    <3>. QED
      BY <3>1, <3>2 DEF OledFields
  <2>5. /\ OledFields \subseteq DOMAIN dev' /\ dev'.window = w /\ dev'.ram = dev.ram /\ dev'.col = w.c0 /\ dev'.page = w.p0
    BY <1>5, <2>4, OledTaken
  <2>. QED
    BY <1>1, <1>6, <2>2, <2>3, <2>5, OledCornered
<1>8. CASE dev.awaiting \in {"colStart", "pageStart"}
  <2>1. past' = [past EXCEPT !.left = @ - 1]
    BY <1>2, <1>8
  <2>2. past'.sent = past.sent
    BY <1>1, <2>1 DEF OledPast
  <2>3. PICK w \in OledWindows, e \in {"colEnd", "pageEnd"} : new = [dev EXCEPT !.awaiting = e, !.window = w]
    <3>1. CASE dev.awaiting = "colStart"
      <4>1. [dev.window EXCEPT !.c0 = col] \in OledWindows
        BY <1>1, <1>4 DEF OledWindows
      <4>2. new = [dev EXCEPT !.awaiting = "colEnd", !.window.c0 = col]
        BY <3>1
      <4>3. new = [dev EXCEPT !.awaiting = "colEnd", !.window = [dev.window EXCEPT !.c0 = col]]
        BY <1>1, <4>2 DEF OledFields
      <4>. QED
        BY <4>1, <4>3
    <3>2. CASE dev.awaiting = "pageStart"
      <4>1. [dev.window EXCEPT !.p0 = page] \in OledWindows
        BY <1>1, <1>4 DEF OledWindows
      <4>2. new = [dev EXCEPT !.awaiting = "pageEnd", !.window.p0 = page]
        BY <3>2
      <4>3. new = [dev EXCEPT !.awaiting = "pageEnd", !.window = [dev.window EXCEPT !.p0 = page]]
        BY <1>1, <4>2 DEF OledFields
      <4>. QED
        BY <4>1, <4>3
    <3>. QED
      BY <1>8, <3>1, <3>2
  <2>. HIDE DEF new
  <2>4. OledFields \subseteq DOMAIN new /\ new.window = w /\ new.ram = dev.ram /\ new.awaiting = e
    BY <1>1, <2>3 DEF OledFields
  <2>5. OledFields \subseteq DOMAIN dev' /\ dev'.window = w /\ dev'.ram = dev.ram /\ dev'.awaiting = e
    BY <1>5, <2>4, OledTaken
  <2>. QED
    BY <1>1, <1>6, <2>2, <2>3, <2>5 DEF OledKept
<1>9. CASE dev.awaiting \notin {"colStart", "pageStart", "colEnd", "pageEnd"}
  <2>1. new = done /\ past' = [past EXCEPT !.left = @ - 1]
    BY <1>2, <1>9
  <2>2. past'.sent = past.sent /\ past'.before = past.before
    BY <1>1, <2>1 DEF OledPast
  <2>. HIDE DEF new
  <2>3. OledFields \subseteq DOMAIN new /\ new.window = dev.window /\ new.ram = dev.ram /\ new.col = dev.col /\ new.page = dev.page
    BY <1>1, <2>1 DEF OledFields
  <2>4. /\ OledFields \subseteq DOMAIN dev' /\ dev'.window = dev.window /\ dev'.ram = dev.ram /\ dev'.col = dev.col
        /\ dev'.page = dev.page
    BY <1>5, <2>3, OledTaken
  <2>5. dev.awaiting \notin {"colEnd", "pageEnd"}
    BY <1>9
  <2>. QED
    BY <1>6, <2>2, <2>4, <2>5, OledSame
<1>. QED
  BY <1>7, <1>8, <1>9

\* A byte of data is drawn at the cursor.
LEMMA OledDataKeeps == ASSUME OledKept(dev, past), O!Data PROVE OledKept(dev', past')
<1>1. /\ OledFields \subseteq DOMAIN dev /\ OledPast \subseteq DOMAIN past /\ dev.window \in OledWindows
      /\ Image(dev.ram) /\ past.sent \in Seq(Nat) /\ past.lit \in Nat
      /\ dev.awaiting \notin {"colEnd", "pageEnd"} => Lit(dev, past)
  BY DEF OledKept
<1>. DEFINE b == past.lit + 1
            v == O!Drawn(dev, b)
            w == dev.window
<1>2. /\ dev' = O!Taken(v)
      /\ past' = [past EXCEPT !.left = @ - 1, !.lit = @ + 1, !.sent = Append(@, past.lit + 1)]
  BY DEF O!Data
<1>3. /\ OledPast \subseteq DOMAIN past' /\ past'.before = past.before /\ past'.lit = b /\ past'.sent = Append(past.sent, b)
  BY <1>1, <1>2 DEF OledPast
<1>4. b \in Nat /\ Append(past.sent, b) \in Seq(Nat)
  BY <1>1, AppendProperties
<1>. HIDE DEF b, v
<1>5. CASE O!Inverted(w)
  <2>1. v = dev
    BY <1>5 DEF v, O!Drawn
  <2>2. /\ OledFields \subseteq DOMAIN dev' /\ dev'.window = dev.window /\ dev'.ram = dev.ram /\ dev'.awaiting = dev.awaiting
    BY <1>1, <1>2, <2>1, OledTaken
  <2>. QED
    BY <1>1, <1>3, <1>4, <1>5, <2>2 DEF OledKept, Lit
<1>6. CASE ~O!Inverted(w)
  <2>1. PICK x0 \in Nat, x1 \in Nat, y0 \in Nat, y1 \in Nat :
            /\ x0 = w.c0 /\ x1 = w.c1 /\ y0 = w.p0 /\ y1 = w.p1
            /\ x0 <= x1 /\ y0 <= y1 /\ x1 < Columns /\ y1 < Pages
    BY <1>1, <1>6 DEF OledWindows, O!Inverted
  <2>2. v = [dev EXCEPT !.ram[<<dev.col, dev.page>>] = b,
                       !.col = IF dev.col + 1 > w.c1 THEN w.c0 ELSE dev.col + 1,
                       !.page = IF dev.col + 1 <= w.c1 THEN dev.page
                                ELSE IF dev.page + 1 > w.p1 THEN w.p0 ELSE dev.page + 1]
    BY <1>6 DEF v, O!Drawn
  <2>3. PICK ram, col, page :
            /\ ram = [dev.ram EXCEPT ![<<dev.col, dev.page>>] = b]
            /\ col = IF dev.col + 1 > w.c1 THEN w.c0 ELSE dev.col + 1
            /\ page = IF dev.col + 1 <= w.c1 THEN dev.page ELSE IF dev.page + 1 > w.p1 THEN w.p0 ELSE dev.page + 1
    OBVIOUS
  <2>4. v = [dev EXCEPT !.ram = ram, !.col = col, !.page = page]
    BY <1>1, <2>2, <2>3 DEF OledFields
  <2>5. /\ OledFields \subseteq DOMAIN v /\ v.window = w /\ v.awaiting = dev.awaiting /\ v.ram = ram /\ v.col = col
        /\ v.page = page
    BY <1>1, <2>4 DEF OledFields
  <2>6. /\ OledFields \subseteq DOMAIN dev' /\ dev'.window = w /\ dev'.awaiting = dev.awaiting /\ dev'.ram = ram
        /\ dev'.col = col /\ dev'.page = page
    BY <1>2, <2>5, OledTaken
  <2>7. Image(ram)
    BY <1>1, <2>3 DEF Image
  <2>8. ASSUME dev.awaiting \notin {"colEnd", "pageEnd"} PROVE Lit(dev', past')
    <3>1. PICK n \in Nat : n = Len(past.sent)
      BY <1>1, LenProperties
    <3>2. PICK s, e, c, r, i, m :
             s = past.sent /\ e = Append(past.sent, b) /\ c = dev.col /\ r = dev.page /\ i = dev.ram /\ m = past.before
      OBVIOUS
    <3>3. /\ Agree(s, e, n) /\ e[n + 1] = b /\ Len(e) = n + 1
      <4>1. Len(e) = n + 1 /\ e[n + 1] = b /\ \A k \in 1..n : e[k] = s[k]
        BY <1>1, <1>4, <3>1, <3>2, AppendProperties
      <4>. QED
        BY <4>1 DEF Agree
    <3>4. Canvas(O!Place, m, x0, x1, y0, y1, n, s, c, r, i)
      BY <1>1, <1>6, <2>1, <2>8, <3>1, <3>2 DEF Lit
    <3>5. \A x \in x0..x1, y \in y0..y1 : <<x, y>> \in O!Place
      <4>1. Columns \in Nat /\ Pages \in Nat
        BY PanelsAssumption
      <4>2. (x0..x1) \X (y0..y1) \subseteq O!Place
        <5>1. x0..x1 \subseteq 0..Columns - 1 /\ y0..y1 \subseteq 0..Pages - 1
          BY <2>1, <4>1
        <5>. QED
          BY <5>1 DEF O!Place
      <4>. QED
        BY <4>2
    <3>6. /\ c \in x0..x1 /\ r \in y0..y1
          /\ Canvas(O!Place, m, x0, x1, y0, y1, n + 1, e, NextCol(x0, x1, c), NextRow(x1, y0, y1, c, r),
                    PaintedOver(i, <<c, r>>, e[n + 1]))
      BY <2>1, <3>3, <3>4, <3>5, CanvasGrows, ZenonT(60)
    <3>7. PaintedOver(i, <<c, r>>, e[n + 1]) = ram
      BY <2>3, <3>2, <3>3 DEF PaintedOver
    <3>8. NextCol(x0, x1, c) = col /\ NextRow(x1, y0, y1, c, r) = page
      <4>1. c \in x0..x1 /\ r \in y0..y1
        BY <3>6
      <4>2. /\ col = IF c + 1 > x1 THEN x0 ELSE c + 1
            /\ page = IF c + 1 <= x1 THEN r ELSE IF r + 1 > y1 THEN y0 ELSE r + 1
        BY <2>1, <2>3, <3>2
      <4>3. (c + 1 > x1 <=> c = x1) /\ (c + 1 <= x1 <=> c # x1) /\ (r + 1 > y1 <=> r = y1)
        BY <4>1
      <4>. QED
        BY <4>2, <4>3 DEF NextCol, NextRow
    <3>9. Canvas(O!Place, m, x0, x1, y0, y1, n + 1, e, col, page, ram)
      BY <3>6, <3>7, <3>8
    <3>. QED
      BY <1>3, <1>6, <2>1, <2>6, <3>2, <3>3, <3>9 DEF Lit
  <2>. QED
    BY <1>1, <1>3, <1>4, <2>6, <2>7, <2>8 DEF OledKept
<1>. QED
  BY <1>5, <1>6

LEMMA OledStepKeeps == ASSUME OledKept(dev, past), O!Next PROVE OledKept(dev', past')
<1>1. CASE O!Rest
  BY <1>1 DEF O!Rest, O!vars
<1>. QED
  BY <1>1, OledControlKeeps, OledOpcodeKeeps, OledParameterKeeps, OledDataKeeps DEF O!Next

LEMMA OledAccounted == ASSUME OledKept(dev, past) PROVE O!Accounted
<1>. SUFFICES ASSUME dev.awaiting \notin {"colEnd", "pageEnd"}
              PROVE  LET at(p) == IF O!Inverted(dev.window) THEN {} ELSE {k \in 1..Len(past.sent) : O!PlaceOf(k) = p}
                         last(p) == CHOOSE k \in at(p) : \A j \in at(p) : j <= k
                     IN  dev.ram = [p \in O!Place |-> IF at(p) = {} THEN past.before[p] ELSE past.sent[last(p)]]
  BY DEF O!Accounted
<1>1. Image(dev.ram) /\ Lit(dev, past) /\ past.sent \in Seq(Nat)
  BY DEF OledKept
<1>2. CASE O!Inverted(dev.window)
  BY <1>1, <1>2 DEF Lit, Image
<1>3. CASE ~O!Inverted(dev.window)
  <2>. DEFINE n == Len(past.sent)
              w == dev.window
              f == Rows(w.c0, w.c1, w.p0, w.p1)
              at(p) == {k \in 1..n : O!PlaceOf(k) = p}
              last(p) == CHOOSE k \in at(p) : \A j \in at(p) : j <= k
  <2>1. n \in Nat
    BY <1>1, LenProperties
  <2>2. dev.ram = Painted(O!Place, past.before, f, n, past.sent)
    BY <1>1, <1>3 DEF Lit, Canvas
  <2>3. ASSUME NEW p PROVE Hits(f, n, p) = at(p) /\ Latest(f, n, p) = last(p)
    <3>1. \A k \in 1..n : f[k] = O!PlaceOf(k)
      BY <2>1 DEF Rows, PlaceAt, O!PlaceOf
    <3>2. Hits(f, n, p) = at(p)
      BY <3>1 DEF Hits
    <3>. QED
      BY <3>2 DEF Latest
  <2>4. dev.ram = [p \in O!Place |-> IF at(p) = {} THEN past.before[p] ELSE past.sent[last(p)]]
    <3>. HIDE DEF n, f, at, last
    <3>. QED
      BY <2>2, <2>3 DEF Painted
  <2>. QED
    BY <1>3, <2>4
<1>. QED
  BY <1>2, <1>3
=============================================================================
