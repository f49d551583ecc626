----------------------------- MODULE LineProofs ------------------------------
(***************************************************************************)
(* The interrupt line of every peripheral follows its cause, what is       *)
(* timed happens on time, and nothing that passes through a unit is lost,  *)
(* doubled or reordered but where the unit says so: proofs about           *)
(* Peripherals.  A line is described by the fields it depends on; a step   *)
(* ends with the unit's refresh, or changes none of them, or is the core's *)
(* side turning the pending bit around.  What is timed is described by what*)
(* has passed of it and what is left, and what passes by its way through   *)
(* the unit, here that of the UART's bytes.                                *)
(***************************************************************************)
EXTENDS PeripheralProofs

-----------------------------------------------------------------------------
(* The core's side *)

\* Whether the unit left the bit pending: the bit tells, or its opposite where the core's side
\* has turned it since.
LeftPending(pend, touched) == pend <=> ~touched

\* The unit left it pending if and only if there was a cause.
AsLeft(pend, touched, cause) ==
    pend \in BOOLEAN /\ touched \in BOOLEAN /\ (cause <=> LeftPending(pend, touched))

\* A handler's entry, a reset of the core and a write of the NVIC
CoreSide(pend, touched, p, t) ==
    \/ pend /\ p = FALSE /\ t = ~touched
    \/ p = FALSE /\ t = (touched # pend)
    \/ p = ~pend /\ t = ~touched

\* The core's side does not change what the unit left.
LEMMA CoreTurns ==
    ASSUME NEW pend \in BOOLEAN, NEW touched \in BOOLEAN, NEW p, NEW t, CoreSide(pend, touched, p, t)
    PROVE  p \in BOOLEAN /\ t \in BOOLEAN /\ (LeftPending(p, t) <=> LeftPending(pend, touched))
BY DEF CoreSide, LeftPending

LEMMA CoreKeeps ==
    ASSUME NEW pend, NEW touched, NEW cause, AsLeft(pend, touched, cause),
           NEW p, NEW t, CoreSide(pend, touched, p, t)
    PROVE  AsLeft(p, t, cause)
BY CoreTurns DEF AsLeft

\* A refresh makes the bit the cause.
LEMMA Refreshed ==
    ASSUME NEW cause \in BOOLEAN
    PROVE  AsLeft(cause, FALSE, cause) /\ LeftPending(cause, FALSE) = cause
BY DEF AsLeft, LeftPending

-----------------------------------------------------------------------------
(* The interrupt line of the UART *)

UartFields ==
    {"tx", "txShift", "txBits", "log", "wire", "rx", "rxShift", "rxBits", "en", "txe", "rxe", "brk", "pen", "stp2",
     "wlen", "ibrd", "fbrd", "acc", "ris", "imsc", "oe", "rxErr", "txdma", "rxdma", "pend", "touched", "lost", "untold"}
Interrupts == {"RX", "TX", "FE", "PE", "BE", "OE", "RT"}
Characters == [id : Nat, err : SUBSET Interrupts]
UartValues ==
    BOOLEAN \cup Nat \cup Seq(Nat) \cup Characters \cup Seq(Characters) \cup (SUBSET Interrupts) \cup (SUBSET Nat)

UartType(u) ==
    /\ u \in [UartFields -> UartValues]
    /\ u.tx \in Seq(Nat) /\ u.txShift \in Nat /\ u.txBits \in Nat /\ u.log \in Seq(Nat)
    /\ u.wire \in Seq(Characters) /\ u.rx \in Seq(Characters) /\ u.rxShift \in Characters /\ u.rxBits \in Nat
    /\ u.wlen \in Nat /\ u.ibrd \in Nat /\ u.fbrd \in Nat /\ u.acc \in Nat
    /\ u.ris \in SUBSET Interrupts /\ u.lost \in SUBSET Nat

UartLine(u) == UartType(u) /\ AsLeft(u.pend, u.touched, U!Cause(u))

\* A sequence of characters without its first
LEMMA Popped ==
    ASSUME NEW V, NEW s \in Seq(V), s # <<>>
    PROVE  Head(s) \in V /\ Tail(s) \in Seq(V)
OBVIOUS

\* refresh_irq makes the line follow the cause.
LEMMA UartRefreshed ==
    ASSUME NEW u, UartType(u)
    PROVE  UartLine(U!RefreshIrq(u))
<1>. DEFINE v == U!RefreshIrq(u)
            c == U!Cause(u)
<1>1. c \in BOOLEAN /\ v = [u EXCEPT !.pend = c, !.touched = FALSE]
  BY DEF U!RefreshIrq, U!Cause
<1>. HIDE DEF c, v
<1>2. v \in [UartFields -> UartValues]
  BY <1>1 DEF UartType, UartFields, UartValues
<1>3. /\ v.tx = u.tx /\ v.txShift = u.txShift /\ v.txBits = u.txBits /\ v.log = u.log /\ v.wire = u.wire /\ v.rx = u.rx
      /\ v.rxShift = u.rxShift /\ v.rxBits = u.rxBits /\ v.wlen = u.wlen /\ v.ibrd = u.ibrd /\ v.fbrd = u.fbrd
      /\ v.acc = u.acc /\ v.ris = u.ris /\ v.lost = u.lost /\ v.en = u.en /\ v.imsc = u.imsc
      /\ v.pend = c /\ v.touched = FALSE
  BY <1>1 DEF UartType, UartFields
<1>4. U!Cause(v) = c
  BY <1>3 DEF U!Cause, U!Ris, c
<1>5. UartType(v)
  BY <1>2, <1>3 DEF UartType
<1>. QED
  BY <1>1, <1>3, <1>4, <1>5, Refreshed DEF UartLine, v

\* What changes neither the cause nor the line
LEMMA UartSame ==
    ASSUME NEW u, UartLine(u), NEW v, UartType(v),
           v.ris = u.ris, v.en = u.en, v.rx = u.rx, v.tx = u.tx, v.imsc = u.imsc, v.pend = u.pend, v.touched = u.touched
    PROVE  UartLine(v)
<1>1. U!Cause(v) = U!Cause(u)
  BY DEF U!Cause, U!Ris
<1>. QED
  BY <1>1 DEF UartLine

\* A frame has a number of bits.
LEMMA FrameTyped ==
    ASSUME NEW u, UartType(u)
    PROVE  U!BitsPerFrame(u) \in Nat
BY UartAssumption, SMTT(60) DEF U!BitsPerFrame, UartType

\* The values of the fields
LEMMA UartValuesAre ==
    /\ BOOLEAN \subseteq UartValues /\ Nat \subseteq UartValues /\ Seq(Nat) \subseteq UartValues
    /\ Characters \subseteq UartValues /\ Seq(Characters) \subseteq UartValues
    /\ SUBSET Interrupts \subseteq UartValues /\ SUBSET Nat \subseteq UartValues
BY DEF UartValues

\* The transmitter and the receiver keep the type,
LEMMA TickTxTyped ==
    ASSUME NEW u, UartType(u)
    PROVE  UartType(U!TickTx(u))
<1>. DEFINE bits == U!BitsPerFrame(u)
            v == U!TickTx(u)
<1>1. bits \in Nat
  BY FrameTyped
<1>. HIDE DEF bits
<1>2. CASE u.txBits > 1
  <2>1. v = [u EXCEPT !.txBits = @ - 1] /\ u.txBits - 1 \in Nat
    BY <1>2, SMTT(60) DEF U!TickTx, UartType
  <2>. HIDE DEF v
  <2>2. v \in [UartFields -> UartValues]
    BY <2>1, UartValuesAre DEF UartType
  <2>3. UartType(v)
    BY <2>1, <2>2 DEF UartType, UartFields
  <2>. QED
    BY <2>3 DEF v
<1>3. CASE u.txBits = 1
  <2>1. v = [u EXCEPT !.txBits = 0, !.log = Append(@, u.txShift)] /\ Append(u.log, u.txShift) \in Seq(Nat)
    BY <1>3 DEF U!TickTx, UartType
  <2>. HIDE DEF v
  <2>2. v \in [UartFields -> UartValues]
    BY <2>1, UartValuesAre DEF UartType
  <2>3. UartType(v)
    BY <2>1, <2>2 DEF UartType, UartFields
  <2>. QED
    BY <2>3 DEF v
<1>4. CASE u.txBits = 0 /\ u.txe /\ ~u.brk /\ u.tx # <<>>
  <2>1. v = [u EXCEPT !.txShift = Head(u.tx), !.tx = Tail(@), !.txBits = bits]
    BY <1>4 DEF U!TickTx, bits
  <2>. HIDE DEF v
  <2>2. Head(u.tx) \in Nat /\ Tail(u.tx) \in Seq(Nat)
    BY <1>4, Popped DEF UartType
  <2>3. v \in [UartFields -> UartValues]
    BY <1>1, <2>1, <2>2, UartValuesAre DEF UartType
  <2>4. UartType(v)
    BY <1>1, <2>1, <2>2, <2>3 DEF UartType, UartFields
  <2>. QED
    BY <2>4 DEF v
<1>5. CASE u.txBits = 0 /\ ~(u.txe /\ ~u.brk /\ u.tx # <<>>)
  BY <1>5 DEF U!TickTx
<1>6. u.txBits > 1 \/ u.txBits = 1 \/ u.txBits = 0
  BY DEF UartType
<1>. QED
  BY <1>2, <1>3, <1>4, <1>5, <1>6

LEMMA TickRxTyped ==
    ASSUME NEW u, UartType(u)
    PROVE  UartType(U!TickRx(u))
<1>. DEFINE bits == U!BitsPerFrame(u)
            v == U!TickRx(u)
<1>1. bits \in Nat /\ Len(u.rx) \in Nat /\ Depth \in Nat
  <2>1. u.rx \in Seq(Characters)
    BY DEF UartType
  <2>. QED
    BY <2>1, FrameTyped, UartAssumption
<1>. HIDE DEF bits
<1>2. CASE u.rxBits > 1
  <2>1. v = [u EXCEPT !.rxBits = @ - 1] /\ u.rxBits - 1 \in Nat
    BY <1>2 DEF U!TickRx, UartType
  <2>. HIDE DEF v
  <2>2. v \in [UartFields -> UartValues]
    BY <2>1, UartValuesAre DEF UartType
  <2>3. UartType(v)
    BY <2>1, <2>2 DEF UartType, UartFields
  <2>. QED
    BY <2>3 DEF v
<1>3. CASE u.rxBits = 1 /\ Len(u.rx) < Depth
  <2>1. v = [u EXCEPT !.rxBits = 0, !.rx = Append(@, u.rxShift), !.ris = @ \cup u.rxShift.err]
    <3>1. ~(u.rxBits > 1) /\ ~(Len(u.rx) >= Depth) /\ u.rxBits # 0
      BY <1>1, <1>3
    <3>. HIDE DEF v
    <3>. QED
      BY <1>3, <3>1 DEF U!TickRx, v
  <2>. HIDE DEF v
  <2>2. Append(u.rx, u.rxShift) \in Seq(Characters) /\ u.ris \cup u.rxShift.err \in SUBSET Interrupts
    BY DEF UartType, Characters
  <2>3. v \in [UartFields -> UartValues]
    BY <2>1, <2>2, UartValuesAre DEF UartType
  <2>4. UartType(v)
    BY <2>1, <2>2, <2>3 DEF UartType, UartFields
  <2>. QED
    BY <2>4 DEF v
<1>4. CASE u.rxBits = 1 /\ Len(u.rx) >= Depth
  <2>1. v = [u EXCEPT !.rxBits = 0, !.oe = TRUE, !.ris = @ \cup {"OE"},
                                !.lost = @ \cup {u.rxShift.id}, !.untold = TRUE]
    <3>1. ~(u.rxBits > 1) /\ ~(Len(u.rx) < Depth)
      BY <1>1, <1>4
    <3>. QED
      BY <1>4, <3>1 DEF U!TickRx
  <2>. HIDE DEF v
  <2>2. u.lost \cup {u.rxShift.id} \in SUBSET Nat /\ u.ris \cup {"OE"} \in SUBSET Interrupts
    BY DEF UartType, Characters, Interrupts
  <2>3. v \in [UartFields -> UartValues]
    BY <2>1, <2>2, UartValuesAre DEF UartType
  <2>4. UartType(v)
    BY <2>1, <2>2, <2>3 DEF UartType, UartFields
  <2>. QED
    BY <2>4 DEF v
<1>5. CASE u.rxBits = 0 /\ u.rxe /\ u.wire # <<>>
  <2>1. v = [u EXCEPT !.rxShift = Head(u.wire), !.wire = Tail(@), !.rxBits = bits]
    BY <1>5 DEF U!TickRx, bits
  <2>. HIDE DEF v
  <2>2. Head(u.wire) \in Characters /\ Tail(u.wire) \in Seq(Characters)
    BY <1>5, Popped DEF UartType
  <2>3. v \in [UartFields -> UartValues]
    BY <1>1, <2>1, <2>2, UartValuesAre DEF UartType
  <2>4. UartType(v)
    BY <1>1, <2>1, <2>2, <2>3 DEF UartType, UartFields
  <2>. QED
    BY <2>4 DEF v
<1>6. CASE u.rxBits = 0 /\ ~(u.rxe /\ u.wire # <<>>)
  BY <1>6 DEF U!TickRx
<1>7. (u.rxBits > 1 \/ u.rxBits = 1 \/ u.rxBits = 0) /\ (Len(u.rx) < Depth \/ Len(u.rx) >= Depth)
  <2>1. u.rxBits \in Nat
    BY DEF UartType
  <2>. QED
    BY <1>1, <2>1
<1>. QED
  BY <1>2, <1>3, <1>4, <1>5, <1>6, <1>7

\* and a bit ends with refresh_irq.
LEMMA TickBitLine ==
    ASSUME NEW u, UartType(u)
    PROVE  UartLine(U!TickBit(u))
BY TickTxTyped, TickRxTyped, UartRefreshed DEF U!TickBit

\* Bits one after the other keep what a bit keeps.
LEMMA BitsKeep ==
    ASSUME NEW X, \A v \in X : U!TickBit(v) \in X, NEW u \in X, NEW N \in Nat
    PROVE  LET after[k \in 0..N] == IF k = 0 THEN u ELSE U!TickBit(after[k - 1])
           IN  after[N] \in X
<1>. DEFINE after[k \in 0..N] == IF k = 0 THEN u ELSE U!TickBit(after[k - 1])
            Is(f) == f = [k \in 0..N |-> IF k = 0 THEN u ELSE U!TickBit(f[k - 1])]
            F == [k \in 1..N |-> [v \in X |-> U!TickBit(v)]]
<1>2. F \in [1..N -> [X -> X]]
  OBVIOUS
<1>3. PICK g \in [0..N -> X] : Steps(g, u, F, N)
  <2>. HIDE DEF F
  <2>. QED
    BY <1>2, Recursion
<1>4. Is(g)
  <2>1. ASSUME NEW k \in 0..N PROVE g[k] = IF k = 0 THEN u ELSE U!TickBit(g[k - 1])
    <3>1. CASE k = 0
      BY <1>3, <3>1 DEF Steps
    <3>2. CASE k \in 1..N
      <4>1. g[k - 1] \in X
        BY <3>2
      <4>. QED
        BY <1>3, <3>2, <4>1 DEF Steps
    <3>. QED
      BY <2>1, <3>1, <3>2
  <2>. QED
    BY <2>1
<1>5. Is(after)
  <2>1. after = CHOOSE f : Is(f)
    OBVIOUS
  <2>. HIDE DEF after, Is
  <2>. QED
    BY <1>4, <2>1
<1>. HIDE DEF after
<1>6. \A k \in 0..N : after[k] \in X
  <2>. DEFINE M == {k \in Nat : k <= N => after[k] \in X}
  <2>1. 0 \in M
    BY <1>5
  <2>2. ASSUME NEW k \in M PROVE k + 1 \in M
    <3>1. SUFFICES ASSUME k + 1 <= N PROVE after[k + 1] \in X
      OBVIOUS
    <3>2. after[k + 1] = U!TickBit(after[k])
      <4>1. k + 1 \in 0..N /\ k + 1 # 0 /\ (k + 1) - 1 = k
        BY <3>1
      <4>. QED
        BY <1>5, <4>1
    <3>3. after[k] \in X
      BY <3>1
    <3>. QED
      BY <3>2, <3>3
  <2>3. M = Nat
    <3>1. M \in SUBSET Nat
      OBVIOUS
    <3>. HIDE DEF M
    <3>. QED
      BY <2>1, <2>2, <3>1, Induction
  <2>. QED
    BY <2>3
<1>7. N \in 0..N
  OBVIOUS
<1>. QED
  BY <1>6, <1>7 DEF after

\* So do they with the line.
LEMMA BitsLine ==
    ASSUME NEW u, UartLine(u), NEW N \in Nat
    PROVE  LET after[k \in 0..N] == IF k = 0 THEN u ELSE U!TickBit(after[k - 1])
           IN  UartLine(after[N])
<1>. DEFINE X == {v \in [UartFields -> UartValues] : UartLine(v)}
<1>1. u \in X /\ \A v \in X : U!TickBit(v) \in X /\ UartLine(v)
  BY TickBitLine DEF UartLine, UartType
<1>. HIDE DEF X
<1>2. LET after[k \in 0..N] == IF k = 0 THEN u ELSE U!TickBit(after[k - 1])
      IN  after[N] \in X
  BY <1>1, BitsKeep
<1>. QED
  BY <1>2 DEF X

\* The lengths and the settings of a UART are numbers.
LEMMA PeriodTyped ==
    ASSUME NEW u, UartType(u)
    PROVE  U!BitPeriod(u) \in Nat
<1>1. Over \in Nat /\ Frac \in Nat /\ u.ibrd \in Nat /\ u.fbrd \in Nat
  BY UartAssumption DEF UartType
<1>2. Frac * u.ibrd + u.fbrd \in Nat
  BY <1>1
<1>. QED
  BY <1>1, <1>2 DEF U!BitPeriod

\* A clock makes as many bits as the divisors ask for.
LEMMA UartClock ==
    ASSUME UartLine(dev), U!Clock
    PROVE  UartLine(dev')
<1>. DEFINE total == dev.acc + Frac
            period == U!BitPeriod(dev)
            N == total \div period
            after[n \in 0..N] == IF n = 0 THEN dev ELSE U!TickBit(after[n - 1])
            a == total % period
<1>1. dev' = [after[N] EXCEPT !.acc = a] /\ period > 0
  BY DEF U!Clock, U!Ticked
<1>2. total \in Nat /\ period \in Nat \ {0}
  <2>1. UartType(dev) /\ dev.acc \in Nat /\ Frac \in Nat
    BY UartAssumption DEF UartLine, UartType
  <2>2. period \in Nat
    BY <2>1, PeriodTyped
  <2>. HIDE DEF period
  <2>. QED
    BY <1>1, <2>1, <2>2
<1>3. N \in Nat /\ a \in Nat
  <2>. HIDE DEF total, period
  <2>. QED
    BY <1>2, QuotientBelow
<1>4. UartLine(after[N])
  <2>. HIDE DEF N
  <2>. QED
    BY <1>3, BitsLine
<1>. DEFINE u == after[N]
<1>. HIDE DEF u, a, after, N
<1>5. dev' = [u EXCEPT !.acc = a] /\ UartLine(u)
  BY <1>1, <1>4 DEF u
<1>6. dev' \in [UartFields -> UartValues]
  BY <1>3, <1>5, UartValuesAre DEF UartLine, UartType
<1>7. UartType(dev') /\ dev'.en = u.en /\ dev'.imsc = u.imsc /\ dev'.pend = u.pend /\ dev'.touched = u.touched
        /\ dev'.ris = u.ris /\ dev'.tx = u.tx /\ dev'.rx = u.rx
  BY <1>3, <1>5, <1>6 DEF UartLine, UartType, UartFields
<1>. HIDE DEF total, period
<1>8. UartType(u) /\ AsLeft(u.pend, u.touched, U!Cause(u))
  BY <1>5 DEF UartLine
<1>9. U!Cause(dev') = U!Cause(u)
  BY <1>7 DEF U!Cause, U!Ris
<1>. QED
  BY <1>7, <1>8, <1>9 DEF UartLine


UartPast(p) == {"written", "fed", "read"} \subseteq DOMAIN p /\ p.written \in Nat /\ p.fed \in Nat

\* A reset clears the cause.
LEMMA ClearedUart ==
    ASSUME NEW b
    PROVE  UartType(U!Cleared(<<>>)) /\ UartLine(U!Cleared(<<>>)) /\ UartPast(U!Fresh(b))
<1>. DEFINE u == U!Cleared(<<>>)
<1>1. /\ u.tx = <<>> /\ u.txShift = 0 /\ u.txBits = 0 /\ u.log = <<>> /\ u.wire = <<>> /\ u.rx = <<>>
      /\ u.rxShift = [id |-> 0, err |-> {}] /\ u.rxBits = 0 /\ u.wlen = 0 /\ u.ibrd = 0 /\ u.fbrd = 0
      /\ u.acc = 0 /\ u.ris = {} /\ u.lost = {} /\ u.en = FALSE /\ u.imsc = {} /\ u.pend = FALSE /\ u.touched = FALSE
  BY DEF U!Cleared, U!Byte
<1>2. <<>> \in Seq(Nat) /\ <<>> \in Seq(Characters) /\ [id |-> 0, err |-> {}] \in Characters
        /\ {} \in SUBSET Interrupts /\ {} \in SUBSET Nat
  BY DEF Characters
<1>3. u \in [UartFields -> UartValues]
  <2>1. u = [f \in UartFields |-> u[f]]
    BY DEF U!Cleared, UartFields
  <2>2. /\ {u.en, u.txe, u.rxe, u.brk, u.pen, u.stp2, u.oe, u.txdma, u.rxdma, u.pend, u.touched, u.untold} \subseteq BOOLEAN
        /\ u.imsc = {} /\ u.rxErr = {}
    BY DEF U!Cleared
  <2>. HIDE DEF u
  <2>3. ASSUME NEW f \in UartFields PROVE u[f] \in UartValues
    BY <1>1, <1>2, <2>2, UartValuesAre, ZenonT(60) DEF UartFields
  <2>. QED
    BY <2>1, <2>3
<1>. HIDE DEF u
<1>4. UartType(u)
  BY <1>1, <1>2, <1>3 DEF UartType
<1>5. ~U!Cause(u)
  BY <1>1 DEF U!Cause
<1>. QED
  BY <1>1, <1>4, <1>5 DEF UartLine, UartPast, U!Fresh, u, AsLeft, LeftPending

\* The wire and the data register keep the line,
LEMMA UartWires ==
    ASSUME UartLine(dev), UartPast(past), U!Feed \/ U!WriteData \/ U!ReadData
    PROVE  UartLine(dev') /\ UartPast(past')
<1>1. UartType(dev)
  BY DEF UartLine
<1>2. CASE U!Feed
  <2>1. PICK err \in Errors : dev' = [dev EXCEPT !.wire = Append(@, U!Byte(past.fed + 1, err))]
    BY <1>2 DEF U!Feed
  <2>. DEFINE w == Append(dev.wire, U!Byte(past.fed + 1, err))
  <2>2. w \in Seq(Characters)
    <3>1. err \in SUBSET Interrupts
      BY ErrorsAssumption DEF Interrupts
    <3>2. U!Byte(past.fed + 1, err) \in Characters
      BY <3>1 DEF U!Byte, Characters, UartPast
    <3>. QED
      BY <1>1, <3>2 DEF UartType
  <2>3. dev' = [dev EXCEPT !.wire = w]
    BY <2>1
  <2>. HIDE DEF w
  <2>4. dev' \in [UartFields -> UartValues]
    BY <1>1, <2>2, <2>3, UartValuesAre DEF UartType
  <2>5. UartType(dev') /\ dev'.en = dev.en /\ dev'.imsc = dev.imsc /\ dev'.pend = dev.pend /\ dev'.touched = dev.touched
          /\ dev'.ris = dev.ris /\ dev'.tx = dev.tx /\ dev'.rx = dev.rx
    BY <1>1, <2>2, <2>3, <2>4 DEF UartType, UartFields
  <2>6. UartLine(dev')
    BY <2>5, UartSame
  <2>7. UartPast(past')
    BY <1>2 DEF U!Feed, UartPast
  <2>. QED
    BY <2>6, <2>7
<1>3. CASE U!WriteData
  <2>1. CASE dev' = U!RefreshIrq([dev EXCEPT !.tx = Append(@, past.written + 1)]) /\ past' = [past EXCEPT !.written = @ + 1]
    <3>. DEFINE t == Append(dev.tx, past.written + 1)
                v == [dev EXCEPT !.tx = t]
    <3>1. t \in Seq(Nat)
      BY <1>1 DEF UartType, UartPast
    <3>. HIDE DEF t
    <3>2. v \in [UartFields -> UartValues]
      BY <1>1, <3>1, UartValuesAre DEF UartType
    <3>3. UartType(v)
      BY <1>1, <3>1, <3>2 DEF UartType, UartFields
    <3>4. UartPast(past')
      BY <2>1 DEF UartPast
    <3>. QED
      BY <2>1, <3>3, <3>4, UartRefreshed DEF t
  <2>2. CASE dev' = U!RefreshIrq(dev) /\ past' = past
    BY <1>1, <2>2, UartRefreshed
  <2>. QED
    BY <1>3, <2>1, <2>2 DEF U!WriteData
<1>4. CASE U!ReadData
  <2>1. dev.rx # <<>> /\ dev' = U!RefreshIrq([dev EXCEPT !.rx = Tail(@), !.rxErr = Head(dev.rx).err])
    BY <1>4 DEF U!ReadData
  <2>. DEFINE t == Tail(dev.rx)
              e == Head(dev.rx).err
              v == [dev EXCEPT !.rx = t, !.rxErr = e]
  <2>2. t \in Seq(Characters) /\ e \in SUBSET Interrupts
    <3>1. dev.rx \in Seq(Characters)
      BY <1>1 DEF UartType
    <3>. QED
      <4>1. Head(dev.rx) \in Characters /\ t \in Seq(Characters)
        BY <2>1, <3>1, Popped
      <4>. QED
        BY <4>1 DEF Characters
  <2>. HIDE DEF t, e
  <2>3. v \in [UartFields -> UartValues]
    BY <1>1, <2>2, UartValuesAre DEF UartType
  <2>4. UartType(v)
    BY <1>1, <2>2, <2>3 DEF UartType, UartFields
  <2>5. UartPast(past')
    BY <1>4 DEF U!ReadData, UartPast
  <2>. QED
    BY <2>1, <2>4, <2>5, UartRefreshed DEF t, e
<1>. QED
  BY <1>2, <1>3, <1>4

\* and so do the other registers.
LEMMA UartRegisters ==
    ASSUME UartLine(dev), UartPast(past),
           \/ U!ClearErrors \/ U!WriteIcr \/ U!WriteSettings
           \/ U!EnterHandler \/ U!ResetCore \/ U!WriteNvic \/ U!Reset
    PROVE  UartLine(dev') /\ UartPast(past')
<1>1. UartType(dev)
  BY DEF UartLine
<1>2. CASE U!ClearErrors
  <2>. DEFINE r == dev.ris \ U!Sticky
              v == [dev EXCEPT !.rxErr = {}, !.oe = FALSE, !.untold = FALSE, !.ris = r]
  <2>1. r \in SUBSET Interrupts /\ {} \in SUBSET Interrupts
    BY <1>1 DEF UartType
  <2>2. dev' = U!RefreshIrq(v) /\ past' = past
    BY <1>2 DEF U!ClearErrors
  <2>. HIDE DEF r
  <2>3. v \in [UartFields -> UartValues]
    BY <1>1, <2>1, UartValuesAre DEF UartType
  <2>4. UartType(v)
    BY <1>1, <2>1, <2>3 DEF UartType, UartFields
  <2>. HIDE DEF v
  <2>. QED
    BY <2>2, <2>4, UartRefreshed
<1>3. CASE U!WriteIcr
  <2>1. PICK bits : dev' = U!RefreshIrq([dev EXCEPT !.ris = @ \ bits])
    BY <1>3 DEF U!WriteIcr
  <2>. DEFINE r == dev.ris \ bits
              v == [dev EXCEPT !.ris = r]
  <2>2. r \in SUBSET Interrupts
    BY <1>1 DEF UartType
  <2>3. dev' = U!RefreshIrq(v) /\ past' = past
    BY <1>3, <2>1 DEF U!WriteIcr
  <2>. HIDE DEF r
  <2>4. v \in [UartFields -> UartValues]
    BY <1>1, <2>2, UartValuesAre DEF UartType
  <2>5. UartType(v)
    BY <1>1, <2>2, <2>4 DEF UartType, UartFields
  <2>. HIDE DEF v
  <2>. QED
    BY <2>3, <2>5, UartRefreshed
<1>4. CASE U!WriteSettings
  <2>1. PICK s \in UartSettings :
            LET new == [f \in DOMAIN dev |-> IF f \in DOMAIN s THEN s[f] ELSE dev[f]]
            IN  dev' = IF DOMAIN s \cap {"en", "txe", "rxe", "imsc"} # {} THEN U!RefreshIrq(new) ELSE new
    BY <1>4 DEF U!WriteSettings
  <2>. DEFINE new == [f \in DOMAIN dev |-> IF f \in DOMAIN s THEN s[f] ELSE dev[f]]
  <2>2. DOMAIN dev = UartFields
    BY <1>1 DEF UartType
  <2>3. ASSUME NEW f \in DOMAIN s
        PROVE  /\ s[f] \in UartValues
               /\ f \in {"en", "txe", "rxe", "brk", "pen", "stp2", "txdma", "rxdma", "wlen", "ibrd", "fbrd", "imsc"}
               /\ f \in {"wlen", "ibrd", "fbrd"} => s[f] \in Nat
    <3>1. \/ f \in {"en", "txe", "rxe", "brk", "pen", "stp2", "txdma", "rxdma"} /\ s[f] \in BOOLEAN
          \/ f \in {"wlen", "ibrd", "fbrd"} /\ s[f] \in Nat
          \/ f = "imsc" /\ s[f] \in SUBSET Interrupts
      BY UartSettingsAssumption DEF Interrupts
    <3>. QED
      BY <3>1, UartValuesAre
  <2>4. new \in [UartFields -> UartValues]
    BY <1>1, <2>2, <2>3 DEF UartType
  <2>5. \A f \in UartFields : new[f] = IF f \in DOMAIN s THEN s[f] ELSE dev[f]
    BY <2>2
  <2>. HIDE DEF new
  <2>6. new.wlen \in Nat /\ new.ibrd \in Nat /\ new.fbrd \in Nat
    BY <1>1, <2>3, <2>5 DEF UartType, UartFields
  <2>7. \A f \in UartFields \ {"en", "txe", "rxe", "brk", "pen", "stp2", "txdma", "rxdma", "wlen", "ibrd", "fbrd", "imsc"} :
            new[f] = dev[f]
    BY <2>3, <2>5
  <2>8. UartType(new)
    BY <1>1, <2>4, <2>6, <2>7 DEF UartType, UartFields
  <2>9. UartPast(past')
    BY <1>4 DEF U!WriteSettings, UartPast
  <2>10. CASE DOMAIN s \cap {"en", "txe", "rxe", "imsc"} # {}
    BY <2>1, <2>8, <2>10, <2>9, UartRefreshed DEF new
  <2>11. CASE DOMAIN s \cap {"en", "txe", "rxe", "imsc"} = {}
    <3>1. new.en = dev.en /\ new.imsc = dev.imsc
      BY <2>5, <2>11 DEF UartFields
    <3>2. new.ris = dev.ris /\ new.rx = dev.rx /\ new.tx = dev.tx /\ new.pend = dev.pend /\ new.touched = dev.touched
      BY <2>7 DEF UartFields
    <3>3. UartLine(new)
      BY <2>8, <3>1, <3>2, UartSame
    <3>4. dev' = new
      BY <2>1, <2>11 DEF new
    <3>. QED
      BY <2>9, <3>3, <3>4
  <2>. QED
    BY <2>10, <2>11
<1>5. CASE U!EnterHandler \/ U!ResetCore \/ U!WriteNvic
  <2>1. /\ past' = past
        /\ \E p, t : dev' = [dev EXCEPT !.pend = p, !.touched = t] /\ CoreSide(dev.pend, dev.touched, p, t)
    BY <1>5 DEF U!EnterHandler, U!ResetCore, U!WriteNvic, CoreSide
  <2>2. PICK p, t : dev' = [dev EXCEPT !.pend = p, !.touched = t] /\ CoreSide(dev.pend, dev.touched, p, t)
    BY <2>1
  <2>3. AsLeft(p, t, U!Cause(dev))
    BY <2>2, CoreKeeps DEF UartLine
  <2>4. p \in UartValues /\ t \in UartValues
    BY <2>3, UartValuesAre DEF AsLeft
  <2>5. dev' \in [UartFields -> UartValues]
    BY <1>1, <2>2, <2>4 DEF UartType
  <2>6. /\ dev'.tx = dev.tx /\ dev'.txShift = dev.txShift /\ dev'.txBits = dev.txBits /\ dev'.log = dev.log
        /\ dev'.wire = dev.wire /\ dev'.rx = dev.rx /\ dev'.rxShift = dev.rxShift /\ dev'.rxBits = dev.rxBits
        /\ dev'.wlen = dev.wlen /\ dev'.ibrd = dev.ibrd /\ dev'.fbrd = dev.fbrd /\ dev'.acc = dev.acc
        /\ dev'.ris = dev.ris /\ dev'.lost = dev.lost /\ dev'.en = dev.en /\ dev'.imsc = dev.imsc
        /\ dev'.pend = p /\ dev'.touched = t
    BY <1>1, <2>2 DEF UartType, UartFields
  <2>7. UartType(dev')
    BY <1>1, <2>5, <2>6 DEF UartType
  <2>8. U!Cause(dev') = U!Cause(dev)
    BY <2>6 DEF U!Cause, U!Ris
  <2>. QED
    BY <2>1, <2>3, <2>6, <2>7, <2>8 DEF UartLine
<1>6. CASE U!Reset
  <2>1. UartLine(dev')
    BY <1>6, ClearedUart, UartRefreshed DEF U!Reset
  <2>2. UartPast(past')
    BY <1>6 DEF U!Reset, U!Fresh, UartPast
  <2>. QED
    BY <2>1, <2>2
<1>. QED
  BY <1>2, <1>3, <1>4, <1>5, <1>6

\* Every step of a UART.
LEMMA UartStep ==
    ASSUME UartLine(dev), UartPast(past), U!Next
    PROVE  UartLine(dev') /\ UartPast(past')
<1>1. CASE U!Clock
  BY <1>1, UartClock DEF U!Clock
<1>2. CASE U!DmaPaced
  BY <1>2, UartWires DEF U!DmaPaced
<1>. QED
  BY <1>1, <1>2, UartWires, UartRegisters DEF U!Next

-----------------------------------------------------------------------------
(* The interrupt line of the SPI *)

SpiFields == {"tx", "rx", "sse", "imsc", "pend", "touched"}

SpiLine(s) == SpiFields \subseteq DOMAIN s /\ AsLeft(s.pend, s.touched, S!Cause(s))

\* refresh_irq makes the line follow the cause.
LEMMA SpiRefreshed ==
    ASSUME NEW s, SpiFields \subseteq DOMAIN s
    PROVE  SpiLine(S!RefreshIrq(s))
<1>. DEFINE v == S!RefreshIrq(s)
            c == S!Cause(s)
<1>1. v = [s EXCEPT !.pend = c, !.touched = FALSE]
  BY DEF S!RefreshIrq
<1>. HIDE DEF c, v
<1>2. /\ SpiFields \subseteq DOMAIN v /\ v.tx = s.tx /\ v.rx = s.rx /\ v.sse = s.sse /\ v.imsc = s.imsc
      /\ v.pend = c /\ v.touched = FALSE
  BY <1>1 DEF SpiFields
<1>3. S!Cause(v) = c
  BY <1>2 DEF S!Cause, S!Ris, c
<1>4. c \in BOOLEAN
  BY DEF S!Cause, c
<1>. QED
  BY <1>2, <1>3, <1>4, Refreshed DEF SpiLine, v

\* What changes neither the cause nor the line
LEMMA SpiSame ==
    ASSUME NEW s, SpiLine(s), NEW v, DOMAIN v = DOMAIN s, \A f \in SpiFields : v[f] = s[f]
    PROVE  SpiLine(v)
<1>1. v.tx = s.tx /\ v.rx = s.rx /\ v.sse = s.sse /\ v.imsc = s.imsc /\ v.pend = s.pend /\ v.touched = s.touched
  BY DEF SpiFields
<1>2. S!Cause(v) = S!Cause(s)
  BY <1>1 DEF S!Cause, S!Ris
<1>. QED
  BY <1>1, <1>2 DEF SpiLine

\* The wires do not concern the line.
LEMMA SpiDriven ==
    ASSUME NEW s, SpiLine(s), NEW h
    PROVE  SpiLine(S!Driven(s, h))
<1>. DEFINE v == S!Driven(s, h)
<1>1. DOMAIN v = DOMAIN s /\ \A f \in SpiFields : v[f] = s[f]
  BY DEF S!Driven, SpiLine, SpiFields
<1>. HIDE DEF v
<1>. QED
  BY <1>1, SpiSame DEF v

\* A bit keeps it: the last of a word ends with refresh_irq.
LEMMA SpiTicked ==
    ASSUME NEW s, SpiLine(s), NEW answer
    PROVE  SpiLine(S!TickBit(s, answer))
<1>. DEFINE v == S!TickBit(s, answer)
            b == s.bits
<1>1. CASE v = s
  BY <1>1
<1>2. CASE v = [s EXCEPT !.bits = @ - 1]
  BY <1>2, SpiSame DEF SpiLine, SpiFields
<1>3. CASE v = S!EndFrame(s, answer)
  BY <1>3, SpiRefreshed DEF S!EndFrame, SpiLine
<1>4. CASE v = S!RefreshIrq([s EXCEPT !.shift = Head(s.tx), !.tx = Tail(@), !.bits = s.size, !.seen = <<>>, !.steady = TRUE])
  BY <1>4, SpiRefreshed DEF SpiLine
<1>. QED
  BY <1>1, <1>2, <1>3, <1>4 DEF S!TickBit

\* Every step of the SPI keeps the line.
LEMMA SpiStep ==
    ASSUME SpiLine(dev), S!Next
    PROVE  SpiLine(dev')
<1>1. CASE S!Clock
  <2>. DEFINE half == IF dev.cycle + 1 = S!BitPeriod(dev) \div 2 THEN S!Driven(dev, TRUE) ELSE dev
  <2>1. SpiLine(half)
    BY SpiDriven
  <2>2. PICK answer : \/ dev' = S!Driven([S!TickBit(half, answer) EXCEPT !.cycle = 0], FALSE)
                      \/ dev' = [half EXCEPT !.cycle = dev.cycle + 1]
    BY <1>1 DEF S!Clock
  <2>. HIDE DEF half
  <2>3. ASSUME NEW s, SpiLine(s), NEW n PROVE SpiLine([s EXCEPT !.cycle = n])
    BY <2>3, SpiSame DEF SpiLine, SpiFields
  <2>4. CASE dev' = S!Driven([S!TickBit(half, answer) EXCEPT !.cycle = 0], FALSE)
    <3>1. SpiLine([S!TickBit(half, answer) EXCEPT !.cycle = 0])
      BY <2>1, <2>3, SpiTicked
    <3>. QED
      BY <2>4, <3>1, SpiDriven
  <2>5. CASE dev' = [half EXCEPT !.cycle = dev.cycle + 1]
    BY <2>1, <2>3, <2>5
  <2>. QED
    BY <2>2, <2>4, <2>5
<1>2. ASSUME S!WriteData \/ S!ReadData \/ S!Reset PROVE SpiLine(dev')
  <2>1. SpiFields \subseteq DOMAIN dev
    BY DEF SpiLine
  <2>2. CASE S!WriteData
    BY <2>1, <2>2, SpiRefreshed DEF S!WriteData
  <2>3. CASE S!ReadData
    BY <2>1, <2>3, SpiRefreshed DEF S!ReadData
  <2>4. CASE S!Reset
    BY <2>4, SpiRefreshed DEF S!Reset, S!Cleared, SpiFields
  <2>. QED
    BY <1>2, <2>2, <2>3, <2>4
<1>3. CASE S!WriteSettings
  <2>1. PICK s \in SpiSettings :
            LET new == [[f \in DOMAIN dev |-> IF f \in DOMAIN s THEN s[f] ELSE dev[f]]
                            EXCEPT !.steady = @ /\ DOMAIN s \subseteq {"sse", "lbm", "imsc", "txdma", "rxdma"}]
            IN  dev' = IF DOMAIN s \cap {"sse", "lbm", "imsc"} # {} THEN S!RefreshIrq(new) ELSE new
    BY <1>3 DEF S!WriteSettings
  <2>. DEFINE put == [f \in DOMAIN dev |-> IF f \in DOMAIN s THEN s[f] ELSE dev[f]]
              new == [put EXCEPT !.steady = @ /\ DOMAIN s \subseteq {"sse", "lbm", "imsc", "txdma", "rxdma"}]
  <2>2. DOMAIN new = DOMAIN dev /\ SpiFields \subseteq DOMAIN dev
    BY DEF SpiLine
  <2>3. CASE DOMAIN s \cap {"sse", "lbm", "imsc"} # {}
    <3>. HIDE DEF new
    <3>. QED
      BY <2>1, <2>2, <2>3, SpiRefreshed DEF new
  <2>4. CASE DOMAIN s \cap {"sse", "lbm", "imsc"} = {}
    <3>1. \A f \in SpiFields : new[f] = dev[f]
      BY <2>2, <2>4, SpiSettingsAssumption DEF SpiFields
    <3>. HIDE DEF new
    <3>2. dev' = new
      BY <2>1, <2>4 DEF new
    <3>. QED
      BY <2>2, <3>1, <3>2, SpiSame
  <2>. QED
    BY <2>3, <2>4
<1>4. CASE S!EnterHandler \/ S!ResetCore \/ S!WriteNvic
  <2>1. PICK p, t : dev' = [dev EXCEPT !.pend = p, !.touched = t] /\ CoreSide(dev.pend, dev.touched, p, t)
    BY <1>4 DEF S!EnterHandler, S!ResetCore, S!WriteNvic, CoreSide
  <2>2. /\ SpiFields \subseteq DOMAIN dev' /\ dev'.pend = p /\ dev'.touched = t
        /\ dev'.tx = dev.tx /\ dev'.rx = dev.rx /\ dev'.sse = dev.sse /\ dev'.imsc = dev.imsc
    BY <2>1 DEF SpiLine, SpiFields
  <2>3. S!Cause(dev') = S!Cause(dev)
    BY <2>2 DEF S!Cause, S!Ris
  <2>4. AsLeft(p, t, S!Cause(dev))
    BY <2>1, CoreKeeps DEF SpiLine
  <2>. QED
    BY <2>2, <2>3, <2>4 DEF SpiLine
<1>. QED
  BY <1>1, <1>2, <1>3, <1>4 DEF S!Next, S!DmaPaced

\* So does its reset.
LEMMA ClearedSpi == SpiLine(S!Cleared(FALSE, FALSE))
BY DEF S!Cleared, SpiLine, SpiFields, S!Cause, S!Ris, AsLeft, LeftPending

-----------------------------------------------------------------------------
(* The interrupt line of the I2C controller *)

I2cFields == {"raw", "mask", "pend", "touched"}

I2cLine(c) == I2cFields \subseteq DOMAIN c /\ AsLeft(c.pend, c.touched, C!Cause(c))

\* refresh_irq makes the line follow the cause.
LEMMA I2cRefreshed ==
    ASSUME NEW c, I2cFields \subseteq DOMAIN c
    PROVE  I2cLine(C!RefreshIrq(c))
<1>. DEFINE v == C!RefreshIrq(c)
            b == C!Cause(c)
<1>1. v = [c EXCEPT !.pend = b, !.touched = FALSE]
  BY DEF C!RefreshIrq
<1>. HIDE DEF b, v
<1>2. I2cFields \subseteq DOMAIN v /\ v.raw = c.raw /\ v.mask = c.mask /\ v.pend = b /\ v.touched = FALSE
  BY <1>1 DEF I2cFields
<1>3. C!Cause(v) = b
  BY <1>2 DEF C!Cause, b
<1>4. b \in BOOLEAN
  BY DEF C!Cause, b
<1>. QED
  BY <1>2, <1>3, <1>4, Refreshed DEF I2cLine, v

\* What changes neither the cause nor the line
LEMMA I2cSame ==
    ASSUME NEW c, I2cLine(c), NEW v, DOMAIN v = DOMAIN c, \A f \in I2cFields : v[f] = c[f]
    PROVE  I2cLine(v)
<1>1. v.raw = c.raw /\ v.mask = c.mask /\ v.pend = c.pend /\ v.touched = c.touched
  BY DEF I2cFields
<1>2. C!Cause(v) = C!Cause(c)
  BY <1>1 DEF C!Cause
<1>. QED
  BY <1>1, <1>2 DEF I2cLine

\* Every step of the I2C controller keeps the line.
LEMMA I2cStep ==
    ASSUME I2cLine(dev), C!Next
    PROVE  I2cLine(dev')
<1>1. I2cFields \subseteq DOMAIN dev
  BY DEF I2cLine
<1>2. CASE C!Clock
  <2>1. CASE C!RunCommand
    <3>1. PICK ok \in BOOLEAN :
              LET done == C!Transferred(dev, ok, past.came + 1)
              IN  dev' = C!RefreshIrq([done EXCEPT !.raw = IF Head(dev.cmds).stop THEN @ \cup {"STOP_DET"} ELSE @])
      BY <2>1 DEF C!RunCommand
    <3>. DEFINE done == C!Transferred(dev, ok, past.came + 1)
    <3>2. DOMAIN done = DOMAIN dev
      BY DEF C!Transferred, C!Received
    <3>. HIDE DEF done
    <3>. QED
      BY <1>1, <3>1, <3>2, I2cRefreshed DEF done
  <2>2. CASE \E n : dev' = [dev EXCEPT !.left = n]
    BY <1>1, <2>2, I2cSame DEF I2cFields
  <2>3. CASE dev' = [dev EXCEPT !.left = C!Period(dev) * BitsOfByte + dev.stretch, !.stretch = 0]
    BY <1>1, <2>3, I2cSame DEF I2cFields
  <2>. QED
    BY <1>2, <2>1, <2>2, <2>3 DEF C!Clock
<1>3. CASE C!StretchNext
  BY <1>1, <1>3, I2cSame DEF C!StretchNext, I2cFields
<1>4. ASSUME NEW addr, C!SlaveRead(addr) \/ C!SlaveWrite(addr) PROVE I2cLine(dev')
  <2>1. CASE dev' = [dev EXCEPT !.slaveTx = Tail(@)]
    BY <1>1, <2>1, I2cSame DEF I2cFields
  <2>2. CASE C!SlaveRead(addr)
    BY <1>1, <2>1, <2>2, I2cRefreshed DEF C!SlaveRead
  <2>3. CASE C!SlaveWrite(addr)
    BY <1>1, <2>3, I2cRefreshed DEF C!SlaveWrite, C!Received
  <2>. QED
    BY <1>4, <2>2, <2>3
<1>5. ASSUME C!SlaveStop \/ C!Answer \/ C!ReadData \/ C!ClearInterrupts PROVE I2cLine(dev')
  <2>1. CASE C!SlaveStop
    BY <1>1, <2>1, I2cRefreshed DEF C!SlaveStop
  <2>2. CASE C!Answer
    <3>. DEFINE v == [dev EXCEPT !.rdReq = FALSE, !.raw = @ \ {"RD_REQ"},
                            !.slaveTx = IF Len(@) < Depth THEN Append(@, past.answered + 1) ELSE @]
    <3>1. dev' = C!RefreshIrq(v) /\ DOMAIN v = DOMAIN dev
      BY <2>2 DEF C!Answer
    <3>. HIDE DEF v
    <3>. QED
      BY <1>1, <3>1, I2cRefreshed
  <2>3. CASE C!ReadData
    <3>. DEFINE v == [dev EXCEPT !.rx = Tail(@), !.raw = IF Len(dev.rx) = 1 THEN @ \ {"RX_FULL"} ELSE @]
    <3>1. dev' = C!RefreshIrq(v) /\ DOMAIN v = DOMAIN dev
      BY <2>3 DEF C!ReadData
    <3>. HIDE DEF v
    <3>. QED
      BY <1>1, <3>1, I2cRefreshed
  <2>4. CASE C!ClearInterrupts
    BY <1>1, <2>4, I2cRefreshed DEF C!ClearInterrupts
  <2>. QED
    BY <1>5, <2>1, <2>2, <2>3, <2>4
<1>6. CASE C!QueueCommand
  <2>1. CASE dev' = dev
    BY <2>1
  <2>2. CASE \E q : dev' = [[dev EXCEPT !.cmds = q] EXCEPT !.crowded = @ \/ C!Expected([dev EXCEPT !.cmds = q]) > Depth]
    BY <1>1, <2>2, I2cSame, ZenonT(60) DEF I2cFields
  <2>. QED
    BY <1>6, <2>1, <2>2 DEF C!QueueCommand, C!vars
<1>7. CASE C!WriteSettings
  <2>1. PICK s \in I2cSettings :
            LET new == [f \in DOMAIN dev |-> IF f \in DOMAIN s THEN s[f] ELSE dev[f]]
            IN  dev' = IF "mask" \in DOMAIN s THEN C!RefreshIrq(new) ELSE new
    BY <1>7 DEF C!WriteSettings
  <2>. DEFINE new == [f \in DOMAIN dev |-> IF f \in DOMAIN s THEN s[f] ELSE dev[f]]
  <2>2. DOMAIN new = DOMAIN dev
    OBVIOUS
  <2>3. CASE "mask" \in DOMAIN s
    BY <1>1, <2>1, <2>2, <2>3, I2cRefreshed
  <2>4. CASE "mask" \notin DOMAIN s
    <3>1. \A f \in I2cFields : new[f] = dev[f]
      BY <1>1, <2>4, I2cSettingsAssumption DEF I2cFields
    <3>2. dev' = new
      BY <2>1, <2>4
    <3>. HIDE DEF new
    <3>. QED
      BY <2>2, <3>1, <3>2, I2cSame
  <2>. QED
    BY <2>3, <2>4
<1>8. CASE C!EnterHandler \/ C!ResetCore \/ C!WriteNvic
  <2>1. PICK p, t : dev' = [dev EXCEPT !.pend = p, !.touched = t] /\ CoreSide(dev.pend, dev.touched, p, t)
    BY <1>8 DEF C!EnterHandler, C!ResetCore, C!WriteNvic, CoreSide
  <2>2. /\ I2cFields \subseteq DOMAIN dev' /\ dev'.pend = p /\ dev'.touched = t
        /\ dev'.raw = dev.raw /\ dev'.mask = dev.mask
    BY <1>1, <2>1 DEF I2cFields
  <2>3. C!Cause(dev') = C!Cause(dev)
    BY <2>2 DEF C!Cause
  <2>4. AsLeft(p, t, C!Cause(dev))
    BY <2>1, CoreKeeps DEF I2cLine
  <2>. QED
    BY <2>2, <2>3, <2>4 DEF I2cLine
<1>9. CASE C!Reset
  BY <1>9, I2cRefreshed DEF C!Reset, C!Cleared, I2cFields
<1>. QED
  BY <1>2, <1>3, <1>4, <1>5, <1>6, <1>7, <1>8, <1>9 DEF C!Next, C!DmaPaced

\* So does its reset.
LEMMA ClearedI2c == I2cLine(C!Cleared)
BY DEF C!Cleared, I2cLine, I2cFields, C!Cause, AsLeft, LeftPending

-----------------------------------------------------------------------------
(* The interrupt line of the PWM *)

LineFields == {"intr", "inte", "intf", "pend", "touched", "late"}

PwmLine(s) ==
    /\ LineFields \subseteq DOMAIN s
    /\ s.pend \in BOOLEAN /\ s.touched \in BOOLEAN
    /\ LeftPending(s.pend, s.touched) => P!Cause(s)
    /\ P!Cause(s) => LeftPending(s.pend, s.touched) \/ s.late

\* A count may raise the interrupt and leaves everything else about the line alone.
Raises(s, t) ==
    /\ LineFields \subseteq DOMAIN t
    /\ t.inte = s.inte /\ t.intf = s.intf /\ t.pend = s.pend /\ t.touched = s.touched /\ t.late = s.late
    /\ t.intr = s.intr \/ t.intr = TRUE

Leaves(s, t) == LineFields \subseteq DOMAIN t /\ \A f \in LineFields : t[f] = s[f]

\* refresh_irq makes the line follow the cause.
LEMMA PwmRefreshed ==
    ASSUME NEW s, LineFields \subseteq DOMAIN s
    PROVE  PwmLine(P!RefreshIrq(s))
<1>. DEFINE v == P!RefreshIrq(s)
            c == P!Cause(s)
<1>1. v = [s EXCEPT !.pend = c, !.touched = FALSE, !.late = FALSE]
  BY DEF P!RefreshIrq
<1>. HIDE DEF c, v
<1>2. /\ LineFields \subseteq DOMAIN v /\ v.intr = s.intr /\ v.inte = s.inte /\ v.intf = s.intf
      /\ v.pend = c /\ v.touched = FALSE
  BY <1>1 DEF LineFields
<1>3. P!Cause(v) = c
  BY <1>2 DEF P!Cause, c
<1>4. c \in BOOLEAN
  BY DEF P!Cause, c
<1>. QED
  BY <1>2, <1>3, <1>4, Refreshed DEF PwmLine, v

\* What leaves the fields of the line keeps it.
LEMMA PwmSame ==
    ASSUME NEW s, PwmLine(s), NEW v, Leaves(s, v)
    PROVE  PwmLine(v)
<1>1. v.intr = s.intr /\ v.inte = s.inte /\ v.intf = s.intf /\ v.pend = s.pend /\ v.touched = s.touched /\ v.late = s.late
  BY DEF Leaves, LineFields
<1>2. P!Cause(v) = P!Cause(s)
  BY <1>1 DEF P!Cause
<1>. QED
  BY <1>1, <1>2 DEF PwmLine, Leaves

\* The outputs, a new measurement and a count backwards do.
LEMMA OutputsLeave ==
    ASSUME NEW s, LineFields \subseteq DOMAIN s
    PROVE  Leaves(s, P!Outputs(s))
BY DEF Leaves, P!Outputs, LineFields

LEMMA UnknownLeaves ==
    ASSUME NEW s, LineFields \subseteq DOMAIN s
    PROVE  Leaves(s, P!Unknown(s))
BY DEF Leaves, P!Unknown, LineFields

LEMMA RetardLeaves ==
    ASSUME NEW s, PwmType(s)
    PROVE  Leaves(s, P!RetardSlice(s))
<1>0. LineFields \subseteq DOMAIN s /\ s.ph \in BOOLEAN /\ s.down \in BOOLEAN /\ s.ctr \in Nat /\ s.top \in Nat
  BY CountAssumption DEF LineFields, PwmType, PwmFields
<1>1. ASSUME NEW n, NEW w, w = [s EXCEPT !.ctr = n]
      PROVE  Leaves(s, P!Outputs(w))
  BY <1>0, <1>1 DEF Leaves, LineFields, P!Outputs
<1>2. ASSUME NEW n, NEW d, NEW w, w = [s EXCEPT !.down = d, !.ctr = n]
      PROVE  Leaves(s, P!Outputs(w))
  BY <1>0, <1>2 DEF Leaves, LineFields, P!Outputs
<1>. DEFINE v == P!RetardSlice(s)
<1>3. CASE ~s.ph /\ s.ctr = 0
  <2>1. v = P!Outputs([s EXCEPT !.ctr = s.top])
    BY <1>0, <1>3 DEF P!RetardSlice
  <2>. QED
    BY <1>1, <2>1
<1>4. CASE ~s.ph /\ s.ctr > 0
  <2>1. v = P!Outputs([s EXCEPT !.ctr = @ - 1])
    BY <1>0, <1>4 DEF P!RetardSlice
  <2>. QED
    BY <1>1, <2>1
<1>5. CASE s.ph /\ ~s.down /\ s.ctr = 0
  <2>1. v = P!Outputs([s EXCEPT !.down = TRUE, !.ctr = 1])
    BY <1>0, <1>5 DEF P!RetardSlice
  <2>. QED
    BY <1>2, <2>1
<1>6. CASE s.ph /\ ~s.down /\ s.ctr > 0
  <2>1. v = P!Outputs([s EXCEPT !.ctr = @ - 1])
    BY <1>0, <1>6 DEF P!RetardSlice
  <2>. QED
    BY <1>1, <2>1
<1>7. CASE s.ph /\ s.down /\ s.ctr >= s.top
  <2>1. v = P!Outputs([s EXCEPT !.down = FALSE, !.ctr = (@ - 1) % Count])
    BY <1>0, <1>7 DEF P!RetardSlice
  <2>. QED
    BY <1>2, <2>1
<1>8. CASE s.ph /\ s.down /\ s.ctr < s.top
  <2>1. v = P!Outputs([s EXCEPT !.ctr = @ + 1])
    BY <1>0, <1>8 DEF P!RetardSlice
  <2>. QED
    BY <1>1, <2>1
<1>. QED
  BY <1>0, <1>3, <1>4, <1>5, <1>6, <1>7, <1>8

\* A count raises the interrupt, or leaves it.
LEMMA AdvanceRaises ==
    ASSUME NEW s, PwmType(s)
    PROVE  Raises(s, P!AdvanceSlice(s))
<1>. DEFINE m == P!Measured(s)
            u == P!Stepped(m)
<1>1. DOMAIN m = DOMAIN s /\ LineFields \subseteq DOMAIN s /\ \A f \in LineFields \cup {"ph", "down", "ctr", "top"} : m[f] = s[f]
  BY DEF P!Measured, LineFields, PwmType, PwmFields
<1>2. m.ph \in BOOLEAN /\ m.down \in BOOLEAN /\ m.ctr \in Nat /\ m.top \in Nat
  BY <1>1, CountAssumption DEF PwmType
<1>. HIDE DEF m
<1>3. LineFields \subseteq DOMAIN P!Wrapped(m) /\ Raises(m, m) /\ Raises(m, P!Wrapped(m))
  BY <1>1 DEF P!Wrapped, Raises, LineFields
<1>5. ASSUME NEW t, Raises(m, t), NEW n, NEW w, w = [t EXCEPT !.ctr = n]
      PROVE  Raises(m, w)
  BY <1>5 DEF Raises, LineFields
<1>6. ASSUME NEW t, Raises(m, t), NEW n, NEW d, NEW w, w = [t EXCEPT !.down = d, !.ctr = n]
      PROVE  Raises(m, w)
  BY <1>6 DEF Raises, LineFields
<1>. DEFINE x == P!Wrapped(m)
<1>7. Raises(m, u)
  <2>1. CASE ~m.ph /\ m.ctr >= m.top
    <3>1. u = [x EXCEPT !.ctr = 0]
      BY <1>2, <2>1 DEF P!Stepped
    <3>. QED
      BY <1>3, <1>5, <3>1
  <2>2. CASE ~m.ph /\ m.ctr < m.top
    <3>1. u = [m EXCEPT !.ctr = @ + 1]
      BY <1>2, <2>2 DEF P!Stepped
    <3>. QED
      BY <1>3, <1>5, <3>1
  <2>3. CASE m.ph /\ ~m.down /\ m.ctr >= m.top
    <3>1. u = [m EXCEPT !.down = TRUE, !.ctr = (@ - 1) % Count]
      BY <1>2, <2>3 DEF P!Stepped
    <3>. QED
      BY <1>3, <1>6, <3>1
  <2>4. CASE m.ph /\ ~m.down /\ m.ctr < m.top
    <3>1. u = [m EXCEPT !.ctr = @ + 1]
      BY <1>2, <2>4 DEF P!Stepped
    <3>. QED
      BY <1>3, <1>5, <3>1
  <2>5. CASE m.ph /\ m.down /\ m.ctr = 0
    <3>1. u = [x EXCEPT !.down = FALSE, !.ctr = 1]
      BY <1>2, <2>5 DEF P!Stepped
    <3>. QED
      BY <1>3, <1>6, <3>1
  <2>6. CASE m.ph /\ m.down /\ m.ctr > 0
    <3>1. u = [m EXCEPT !.ctr = @ - 1]
      BY <1>2, <2>6 DEF P!Stepped
    <3>. QED
      BY <1>3, <1>5, <3>1
  <2>. QED
    BY <1>2, <2>1, <2>2, <2>3, <2>4, <2>5, <2>6
<1>. HIDE DEF u
<1>8. Leaves(u, P!Outputs(u))
  BY <1>7, OutputsLeave DEF Raises
<1>9. Raises(m, P!Outputs(u))
  <2>. DEFINE o == P!Outputs(u)
  <2>. HIDE DEF o
  <2>1. o.intr = u.intr /\ o.inte = u.inte /\ o.intf = u.intf /\ o.pend = u.pend /\ o.touched = u.touched /\ o.late = u.late
    BY <1>8 DEF Leaves, LineFields, o
  <2>. QED
    BY <1>7, <1>8, <2>1 DEF Raises, Leaves, o
<1>10. m.intr = s.intr /\ m.inte = s.inte /\ m.intf = s.intf /\ m.pend = s.pend /\ m.touched = s.touched /\ m.late = s.late
  BY <1>1 DEF LineFields
<1>11. Raises(s, P!Outputs(u))
  BY <1>9, <1>10 DEF Raises
<1>. QED
  BY <1>11 DEF P!AdvanceSlice, m, u

\* A clock ends with refresh_irq,
LEMMA PwmClockLine ==
    ASSUME PwmInv(dev), P!Clock
    PROVE  PwmLine(dev')
<1>1. LineFields \subseteq DOMAIN dev /\ PwmType(dev)
  BY DEF PwmInv, Ready, PwmType, PwmFields, LineFields
<1>. DEFINE y == CASE ~dev.en /\ ~dev.all -> dev
                   [] (dev.en \/ dev.all) /\ dev.mode \in {"rise", "fall"} -> P!Edged(dev)
                   [] (dev.en \/ dev.all) /\ dev.mode = "level" /\ ~dev.levelB -> dev
                   [] OTHER -> P!Paced(dev)
<1>2. dev' = P!RefreshIrq(y)
  BY DEF P!Clock
<1>3. LineFields \subseteq DOMAIN P!Edged(dev)
  <2>. DEFINE seen == [dev EXCEPT !.prevB = dev.levelB]
  <2>1. PwmType(seen)
    BY <1>1 DEF PwmType, PwmFields
  <2>. HIDE DEF seen
  <2>2. LineFields \subseteq DOMAIN seen /\ LineFields \subseteq DOMAIN P!AdvanceSlice(seen)
    BY <2>1, AdvanceRaises DEF Raises, PwmType, PwmFields, LineFields
  <2>3. P!Edged(dev) = seen \/ P!Edged(dev) = P!AdvanceSlice(seen)
    BY DEF P!Edged, seen
  <2>. QED
    BY <2>2, <2>3
<1>4. LineFields \subseteq DOMAIN P!Paced(dev)
  <2>. DEFINE late(n) == [dev EXCEPT !.acc = n]
  <2>1. \A n : PwmType(late(n))
    BY <1>1 DEF PwmType, PwmFields
  <2>2. \A n : LineFields \subseteq DOMAIN late(n)
    BY <1>1 DEF LineFields
  <2>. HIDE DEF late
  <2>3. \A n : LineFields \subseteq DOMAIN P!AdvanceSlice(late(n))
    BY <2>1, AdvanceRaises DEF Raises
  <2>4. \E n : P!Paced(dev) = late(n) \/ P!Paced(dev) = P!AdvanceSlice(late(n))
    BY DEF P!Paced, late
  <2>. QED
    BY <2>2, <2>3, <2>4
<1>5. y = dev \/ y = P!Edged(dev) \/ y = P!Paced(dev)
  OBVIOUS
<1>. HIDE DEF y
<1>6. LineFields \subseteq DOMAIN y
  BY <1>1, <1>3, <1>4, <1>5
<1>. QED
  BY <1>2, <1>6, PwmRefreshed

\* and CSR does not: what PH_ADV raises is late.
LEMMA PwmCsrLine ==
    ASSUME PwmInv(dev), PwmLine(dev), P!WriteCsr
    PROVE  PwmLine(dev')
<1>1. PICK m \in Modes, strobe \in {"none", "adv", "ret"} : P!WriteCsr!(m, strobe)
  BY DEF P!WriteCsr
<1>. DEFINE new == [P!Unknown(dev) EXCEPT !.en = m.en, !.ph = m.ph, !.invA = m.invA, !.mode = m.mode]
            moved == CASE strobe = "adv" -> P!Unknown(P!AdvanceSlice(new))
                       [] strobe = "ret" -> P!RetardSlice(new)
                       [] strobe = "none" -> new
            w == P!Outputs(moved)
<1>2. dev' = [w EXCEPT !.late = @ \/ (moved.intr /\ ~dev.intr)]
  BY <1>1
<1>3. PwmType(new) /\ Leaves(dev, new)
  BY ModesAssumption, ZenonT(60) DEF PwmInv, Ready, PwmType, PwmFields, P!Unknown, Leaves, LineFields
<1>. HIDE DEF new
<1>4. Raises(new, moved)
  <2>1. CASE strobe = "adv"
    <3>. DEFINE a == P!AdvanceSlice(new)
    <3>1. moved = P!Unknown(a) /\ Raises(new, a)
      BY <1>3, <2>1, AdvanceRaises
    <3>. HIDE DEF a, moved
    <3>2. Leaves(a, moved)
      BY <3>1, UnknownLeaves DEF Raises
    <3>3. moved.intr = a.intr /\ moved.inte = a.inte /\ moved.intf = a.intf /\ moved.pend = a.pend /\ moved.touched = a.touched /\ moved.late = a.late
      BY <3>2 DEF Leaves, LineFields
    <3>. QED
      BY <3>1, <3>2, <3>3 DEF Raises, Leaves
  <2>2. CASE strobe = "ret"
    <3>1. moved = P!RetardSlice(new) /\ Leaves(new, P!RetardSlice(new))
      BY <1>3, <2>2, RetardLeaves
    <3>. HIDE DEF moved
    <3>. QED
      BY <3>1 DEF Leaves, LineFields, Raises
  <2>3. CASE strobe = "none"
    <3>1. moved = new
      BY <2>3
    <3>. HIDE DEF moved
    <3>. QED
      BY <1>3, <3>1 DEF Leaves, Raises
  <2>. QED
    BY <2>1, <2>2, <2>3
<1>. HIDE DEF moved
<1>5. Leaves(moved, w)
  BY <1>4, OutputsLeave DEF Raises
<1>. HIDE DEF w
<1>6. new.intr = dev.intr /\ new.inte = dev.inte /\ new.intf = dev.intf /\ new.pend = dev.pend /\ new.touched = dev.touched /\ new.late = dev.late
  BY <1>3 DEF Leaves, LineFields
<1>7. w.intr = moved.intr /\ w.inte = moved.inte /\ w.intf = moved.intf /\ w.pend = moved.pend /\ w.touched = moved.touched /\ w.late = moved.late
  BY <1>5 DEF Leaves, LineFields
<1>. DEFINE v == dev'
<1>. HIDE DEF v
<1>8. /\ LineFields \subseteq DOMAIN v
      /\ v.inte = dev.inte /\ v.intf = dev.intf /\ v.pend = dev.pend /\ v.touched = dev.touched
      /\ v.intr = moved.intr /\ v.late = (w.late \/ (moved.intr /\ ~dev.intr))
  <2>1. v = [w EXCEPT !.late = @ \/ (moved.intr /\ ~dev.intr)] /\ LineFields \subseteq DOMAIN w
    BY <1>2, <1>5 DEF v, Leaves
  <2>2. /\ LineFields \subseteq DOMAIN v
        /\ v.inte = w.inte /\ v.intf = w.intf /\ v.pend = w.pend /\ v.touched = w.touched
        /\ v.intr = w.intr /\ v.late = (w.late \/ (moved.intr /\ ~dev.intr))
    BY <2>1 DEF LineFields
  <2>. QED
    BY <1>4, <1>6, <1>7, <2>2 DEF Raises
<1>9. w.late = dev.late /\ (moved.intr = dev.intr \/ moved.intr = TRUE)
  BY <1>4, <1>6, <1>7 DEF Raises
<1>10. LeftPending(v.pend, v.touched) => P!Cause(v)
  BY <1>8, <1>9, Zenon DEF PwmLine, P!Cause
<1>11. P!Cause(v) => LeftPending(v.pend, v.touched) \/ v.late
  BY <1>8, <1>9, Zenon DEF PwmLine, P!Cause
<1>12. v.pend \in BOOLEAN /\ v.touched \in BOOLEAN
  BY <1>8 DEF PwmLine
<1>. QED
  BY <1>8, <1>10, <1>11, <1>12 DEF PwmLine, v

\* A reset clears the cause.
LEMMA ClearedPwm ==
    ASSUME NEW b
    PROVE  PwmLine(P!Cleared(b))
<1>. QED
  BY PwmRefreshed, ZenonT(60) DEF P!Cleared, P!Outputs, LineFields

\* No step of the PWM parts its interrupt from the cause.
LEMMA PwmLineStep ==
    ASSUME PwmInv(dev), PwmLine(dev), P!Next
    PROVE  PwmLine(dev')
<1>1. LineFields \subseteq DOMAIN dev
  BY DEF PwmLine
<1>2. CASE P!WriteDiv \/ P!WriteEn \/ P!TurnPinB
  <2>1. Leaves(dev, dev')
    BY <1>1, <1>2 DEF P!WriteDiv, P!WriteEn, P!TurnPinB, Leaves, LineFields
  <2>. QED
    BY <2>1, PwmSame
<1>3. CASE P!WriteCtr
  <2>1. Leaves(dev, dev')
    BY <1>1, <1>3 DEF P!WriteCtr, P!Outputs, P!Unknown, Leaves, LineFields
  <2>. QED
    BY <2>1, PwmSame
<1>4. CASE P!WriteCc
  <2>1. Leaves(dev, dev')
    BY <1>1, <1>4 DEF P!WriteCc, P!Outputs, P!Unknown, Leaves, LineFields
  <2>. QED
    BY <2>1, PwmSame
<1>5. CASE P!WriteTop
  <2>1. Leaves(dev, dev')
    BY <1>1, <1>5 DEF P!WriteTop, P!Unknown, Leaves, LineFields
  <2>. QED
    BY <2>1, PwmSame
<1>6. CASE P!WriteInts
  <2>1. PICK e \in BOOLEAN, f \in BOOLEAN : dev' = P!RefreshIrq([dev EXCEPT !.inte = e, !.intf = f])
    BY <1>6 DEF P!WriteInts
  <2>2. LineFields \subseteq DOMAIN [dev EXCEPT !.inte = e, !.intf = f]
    BY <1>1
  <2>. QED
    BY <2>1, <2>2, PwmRefreshed
<1>7. CASE P!Acknowledge
  <2>1. dev' = P!RefreshIrq([dev EXCEPT !.intr = FALSE])
    BY <1>7 DEF P!Acknowledge
  <2>2. LineFields \subseteq DOMAIN [dev EXCEPT !.intr = FALSE]
    BY <1>1
  <2>. QED
    BY <2>1, <2>2, PwmRefreshed
<1>8. CASE P!EnterHandler \/ P!ResetCore \/ P!WriteNvic
  <2>1. PICK p, t : dev' = [dev EXCEPT !.pend = p, !.touched = t] /\ CoreSide(dev.pend, dev.touched, p, t)
    BY <1>8 DEF P!EnterHandler, P!ResetCore, P!WriteNvic, CoreSide
  <2>2. /\ LineFields \subseteq DOMAIN dev' /\ dev'.pend = p /\ dev'.touched = t
        /\ dev'.intr = dev.intr /\ dev'.inte = dev.inte /\ dev'.intf = dev.intf /\ dev'.late = dev.late
    BY <1>1, <2>1 DEF LineFields
  <2>3. P!Cause(dev') = P!Cause(dev)
    BY <2>2 DEF P!Cause
  <2>4. p \in BOOLEAN /\ t \in BOOLEAN /\ (LeftPending(p, t) <=> LeftPending(dev.pend, dev.touched))
    BY <2>1, CoreTurns DEF PwmLine
  <2>. QED
    BY <2>2, <2>3, <2>4 DEF PwmLine
<1>9. CASE P!Reset
  BY <1>9, ClearedPwm DEF P!Reset
<1>. QED
  BY <1>2, <1>3, <1>4, <1>5, <1>6, <1>7, <1>8, <1>9, PwmClockLine, PwmCsrLine DEF P!Next

-----------------------------------------------------------------------------
(* The interrupt lines of the ADC, the real-time clock and the pins *)

AdcFields == {"fifo", "thresh", "inte", "intf", "pend", "touched"}

AdcLine(a) == AdcFields \subseteq DOMAIN a /\ AsLeft(a.pend, a.touched, A!Cause(a))

\* refresh_irq makes the line follow the cause.
LEMMA AdcRefreshed ==
    ASSUME NEW a, AdcFields \subseteq DOMAIN a
    PROVE  AdcLine(A!RefreshIrq(a))
<1>. DEFINE v == A!RefreshIrq(a)
            c == A!Cause(a)
<1>1. v = [a EXCEPT !.pend = c, !.touched = FALSE]
  BY DEF A!RefreshIrq
<1>. HIDE DEF c, v
<1>2. /\ AdcFields \subseteq DOMAIN v /\ v.fifo = a.fifo /\ v.thresh = a.thresh /\ v.inte = a.inte /\ v.intf = a.intf
      /\ v.pend = c /\ v.touched = FALSE
  BY <1>1 DEF AdcFields
<1>3. A!Cause(v) = c
  BY <1>2 DEF A!Cause, c
<1>4. c \in BOOLEAN
  BY DEF A!Cause, c
<1>. QED
  BY <1>2, <1>3, <1>4, Refreshed DEF AdcLine, v

\* What changes neither the cause nor the line
LEMMA AdcSame ==
    ASSUME NEW a, AdcLine(a), NEW v, DOMAIN v = DOMAIN a, \A f \in AdcFields : v[f] = a[f]
    PROVE  AdcLine(v)
<1>1. v.fifo = a.fifo /\ v.thresh = a.thresh /\ v.inte = a.inte /\ v.intf = a.intf /\ v.pend = a.pend /\ v.touched = a.touched
  BY DEF AdcFields
<1>2. A!Cause(v) = A!Cause(a)
  BY <1>1 DEF A!Cause
<1>. QED
  BY <1>1, <1>2 DEF AdcLine

\* Only the end of a conversion moves the cause.
LEMMA AdcClockLine ==
    ASSUME NEW a, AdcLine(a)
    PROVE  AdcLine(A!AdcClock(a))
<1>. DEFINE ran == IF ~a.converting THEN a
                   ELSE IF a.left = 1 THEN A!Convert([a EXCEPT !.left = 0])
                   ELSE [a EXCEPT !.left = @ - 1, !.age = @ + 1]
            v == A!AdcClock(a)
<1>0. AdcFields \subseteq DOMAIN a
  BY DEF AdcLine
<1>1. AdcLine(ran)
  <2>1. CASE a.converting /\ a.left = 1
    <3>1. ran = A!Convert([a EXCEPT !.left = 0])
      BY <2>1
    <3>. DEFINE b == [a EXCEPT !.left = 0]
                x == [b EXCEPT
                        !.ready = TRUE, !.converting = FALSE, !.age = 0, !.due = 0,
                        !.over = @ \/ (b.fcsEn /\ Len(b.fifo) >= FifoDepth),
                        !.fifo = IF b.fcsEn /\ Len(b.fifo) < FifoDepth THEN Append(@, past.number + 1) ELSE @,
                        !.ainsel = IF b.rrobin = {} THEN @ ELSE A!NextRrobin(b, A!Selected(b))]
    <3>2. A!Convert(b) = A!RefreshIrq(x)
      BY Zenon DEF A!Convert
    <3>3. AdcFields \subseteq DOMAIN x
      BY <1>0
    <3>. HIDE DEF x
    <3>. QED
      BY <3>1, <3>2, <3>3, AdcRefreshed
  <2>2. CASE a.converting /\ a.left # 1
    <3>1. ran = [a EXCEPT !.left = @ - 1, !.age = @ + 1]
      BY <2>2
    <3>. HIDE DEF ran
    <3>2. DOMAIN ran = DOMAIN a /\ \A f \in AdcFields : ran[f] = a[f]
      BY <1>0, <3>1 DEF AdcFields
    <3>. QED
      BY <3>2, AdcSame
  <2>. QED
    BY <2>1, <2>2
<1>2. v = ran \/ v = [ran EXCEPT !.converting = TRUE, !.left = Sar + a.div, !.due = Sar + a.div, !.age = 1, !.ready = FALSE]
  BY DEF A!AdcClock
<1>. HIDE DEF ran, v
<1>3. AdcFields \subseteq DOMAIN ran
  BY <1>1 DEF AdcLine
<1>4. DOMAIN v = DOMAIN ran /\ \A f \in AdcFields : v[f] = ran[f]
  BY <1>2, <1>3 DEF AdcFields
<1>. QED
  BY <1>1, <1>4, AdcSame DEF v

\* A reset clears it.
LEMMA ClearedAdc == AdcLine(A!Cleared) /\ AdcLine(A!RefreshIrq(A!Cleared))
<1>1. AdcFields \subseteq DOMAIN A!Cleared
  BY DEF A!Cleared, AdcFields
<1>2. AdcLine(A!Cleared)
  BY <1>1 DEF AdcLine, A!Cleared, A!Cause, AsLeft, LeftPending
<1>. QED
  BY <1>1, <1>2, AdcRefreshed

\* Every step of the ADC keeps the line.
LEMMA AdcStep ==
    ASSUME AdcLine(dev), A!Next
    PROVE  AdcLine(dev')
<1>0. AdcFields \subseteq DOMAIN dev
  BY DEF AdcLine
<1>1. CASE A!Clock
  BY <1>1, AdcClockLine DEF A!Clock
<1>2. CASE A!Reset
  BY <1>2, ClearedAdc DEF A!Reset
<1>3. CASE A!WriteCs
  <2>1. PICK x : dev' = A!RefreshIrq(x) /\ AdcFields \subseteq DOMAIN x
    BY <1>0, <1>3, ZenonT(60) DEF A!WriteCs
  <2>. QED
    BY <2>1, AdcRefreshed
<1>4. CASE A!WriteFcs
  <2>1. PICK fifo, dreq, clear \in BOOLEAN, level \in {0, FifoDepth} : A!WriteFcs!(fifo, dreq, clear, level)
    BY <1>4 DEF A!WriteFcs
  <2>. DEFINE x == [dev EXCEPT !.fcsEn = fifo, !.dreqEn = dreq, !.thresh = level,
                               !.over = @ /\ ~clear, !.under = @ /\ ~clear]
  <2>2. AdcFields \subseteq DOMAIN x
    BY <1>0
  <2>3. dev' = A!RefreshIrq(x)
    BY <2>1
  <2>. HIDE DEF x
  <2>. QED
    BY <2>2, <2>3, AdcRefreshed
<1>5. CASE A!WriteDiv
  <2>1. PICK d : dev' = [dev EXCEPT !.div = d]
    BY <1>5 DEF A!WriteDiv
  <2>2. DOMAIN dev' = DOMAIN dev /\ \A f \in AdcFields : dev'[f] = dev[f]
    BY <1>0, <2>1 DEF AdcFields
  <2>. QED
    BY <2>2, AdcSame
<1>6. CASE A!WriteInts
  <2>1. PICK x : dev' = A!RefreshIrq(x) /\ AdcFields \subseteq DOMAIN x
    BY <1>0, <1>6 DEF A!WriteInts
  <2>. QED
    BY <2>1, AdcRefreshed
<1>7. CASE A!ReadFifo
  <2>1. CASE dev' = A!RefreshIrq([dev EXCEPT !.fifo = Tail(@)])
    <3>1. AdcFields \subseteq DOMAIN [dev EXCEPT !.fifo = Tail(@)]
      BY <1>0
    <3>. QED
      BY <2>1, <3>1, AdcRefreshed
  <2>2. CASE dev' = [dev EXCEPT !.under = TRUE]
    <3>2. DOMAIN dev' = DOMAIN dev /\ \A f \in AdcFields : dev'[f] = dev[f]
      BY <1>0, <2>2 DEF AdcFields
    <3>. QED
      BY <3>2, AdcSame
  <2>. QED
    BY <1>7, <2>1, <2>2 DEF A!ReadFifo
<1>8. CASE A!EnterHandler \/ A!ResetCore \/ A!WriteNvic
  <2>1. PICK p, t : dev' = [dev EXCEPT !.pend = p, !.touched = t] /\ CoreSide(dev.pend, dev.touched, p, t)
    BY <1>8 DEF A!EnterHandler, A!ResetCore, A!WriteNvic, CoreSide
  <2>2. /\ AdcFields \subseteq DOMAIN dev' /\ dev'.pend = p /\ dev'.touched = t
        /\ dev'.fifo = dev.fifo /\ dev'.thresh = dev.thresh /\ dev'.inte = dev.inte /\ dev'.intf = dev.intf
    BY <1>0, <2>1 DEF AdcFields
  <2>3. A!Cause(dev') = A!Cause(dev)
    BY <2>2 DEF A!Cause
  <2>4. AsLeft(p, t, A!Cause(dev))
    BY <2>1, CoreKeeps DEF AdcLine
  <2>. QED
    BY <2>2, <2>3, <2>4 DEF AdcLine
<1>9. CASE A!Rest
  BY <1>9 DEF A!Rest, A!vars
<1>. QED
  BY <1>1, <1>2, <1>3, <1>4, <1>5, <1>6, <1>7, <1>8, <1>9 DEF A!Next, A!DmaReads
-----------------------------------------------------------------------------
RtcFields == {"intr", "inte", "intf", "pend", "touched"}

RtcLine(r) == RtcFields \subseteq DOMAIN r /\ AsLeft(r.pend, r.touched, R!Cause(r))

\* check_alarm makes the line follow the cause.
LEMMA AlarmChecked ==
    ASSUME NEW r, RtcFields \subseteq DOMAIN r
    PROVE  RtcLine(R!CheckAlarm(r))
<1>. DEFINE w == [r EXCEPT !.intr = @ \/ (R!Matched(r) /\ ~r.matched), !.matched = R!Matched(r)]
            c == R!Cause(w)
            v == [w EXCEPT !.pend = c, !.touched = FALSE]
<1>1. R!CheckAlarm(r) = v
  BY DEF R!CheckAlarm
<1>2. RtcFields \subseteq DOMAIN w
  OBVIOUS
<1>. HIDE DEF w, c
<1>3. RtcFields \subseteq DOMAIN v /\ v.intr = w.intr /\ v.inte = w.inte /\ v.intf = w.intf /\ v.pend = c /\ v.touched = FALSE
  BY <1>2 DEF RtcFields
<1>. HIDE DEF v
<1>4. R!Cause(v) = c
  BY <1>3 DEF R!Cause, c
<1>5. c \in BOOLEAN
  BY DEF R!Cause, c
<1>. QED
  BY <1>1, <1>3, <1>4, <1>5, Refreshed DEF RtcLine

\* A reset clears it.
LEMMA ClearedRtc ==
    ASSUME NEW d
    PROVE  RtcLine(R!Cleared(d)) /\ RtcLine(R!CheckAlarm(R!Cleared(d)))
<1>1. RtcFields \subseteq DOMAIN R!Cleared(d)
  BY DEF R!Cleared, RtcFields
<1>2. RtcLine(R!Cleared(d))
  BY <1>1 DEF RtcLine, R!Cleared, R!Cause, AsLeft, LeftPending
<1>. QED
  BY <1>1, <1>2, AlarmChecked

\* Every step of the real-time clock keeps the line.
LEMMA RtcLineStep ==
    ASSUME RtcLine(dev), R!Next
    PROVE  RtcLine(dev')
<1>0. RtcFields \subseteq DOMAIN dev
  BY DEF RtcLine
<1>1. CASE \E x : dev' = R!CheckAlarm(x) /\ RtcFields \subseteq DOMAIN x
  BY <1>1, AlarmChecked
<1>2. CASE R!Clock
  <2>1. CASE dev.count + 1 > dev.div
    <3>1. dev' = R!CheckAlarm([dev EXCEPT !.count = 0, !.now = R!TickSecond(@)])
      BY <1>2, <2>1 DEF R!Clock
    <3>2. RtcFields \subseteq DOMAIN [dev EXCEPT !.count = 0, !.now = R!TickSecond(@)]
      BY <1>0
    <3>. QED
      BY <1>1, <3>1, <3>2
  <2>2. CASE ~(dev.count + 1 > dev.div)
    <3>. DEFINE v == dev'
    <3>1. v = [dev EXCEPT !.count = @ + 1]
      BY <1>2, <2>2 DEF R!Clock
    <3>. HIDE DEF v
    <3>2. /\ RtcFields \subseteq DOMAIN v /\ v.intr = dev.intr /\ v.inte = dev.inte /\ v.intf = dev.intf
          /\ v.pend = dev.pend /\ v.touched = dev.touched
      BY <1>0, <3>1 DEF RtcFields
    <3>3. R!Cause(v) = R!Cause(dev)
      BY <3>2 DEF R!Cause
    <3>4. RtcLine(v)
      BY <3>2, <3>3 DEF RtcLine
    <3>. QED
      BY <3>4 DEF v
  <2>. QED
    BY <2>1, <2>2
<1>3. CASE R!WriteDiv \/ R!WriteSetup \/ R!WriteInts
  BY <1>0, <1>1, <1>3 DEF R!WriteDiv, R!WriteSetup, R!WriteInts, R!Written
<1>4. CASE R!WriteCtrl
  BY <1>0, <1>1, <1>4, ZenonT(60) DEF R!WriteCtrl
<1>5. CASE R!WriteAlarm
  <2>1. \/ \E d \in Dates : dev' = R!CheckAlarm([dev EXCEPT !.date = d, !.intr = FALSE])
        \/ \E m \in Moments : dev' = R!CheckAlarm([dev EXCEPT !.moment = m, !.intr = FALSE])
    BY <1>5 DEF R!WriteAlarm
  <2>2. \A n : /\ RtcFields \subseteq DOMAIN [dev EXCEPT !.date = n, !.intr = FALSE]
               /\ RtcFields \subseteq DOMAIN [dev EXCEPT !.moment = n, !.intr = FALSE]
    BY <1>0
  <2>. QED
    BY <1>1, <2>1, <2>2
<1>6. CASE R!Acknowledge
  BY <1>0, <1>1, <1>6 DEF R!Acknowledge
<1>7. CASE R!EnterHandler \/ R!ResetCore \/ R!WriteNvic
  <2>1. PICK p, t : dev' = [dev EXCEPT !.pend = p, !.touched = t] /\ CoreSide(dev.pend, dev.touched, p, t)
    BY <1>7 DEF R!EnterHandler, R!ResetCore, R!WriteNvic, CoreSide
  <2>2. /\ RtcFields \subseteq DOMAIN dev' /\ dev'.pend = p /\ dev'.touched = t
        /\ dev'.intr = dev.intr /\ dev'.inte = dev.inte /\ dev'.intf = dev.intf
    BY <1>0, <2>1 DEF RtcFields
  <2>3. R!Cause(dev') = R!Cause(dev)
    BY <2>2 DEF R!Cause
  <2>4. AsLeft(p, t, R!Cause(dev))
    BY <2>1, CoreKeeps DEF RtcLine
  <2>. QED
    BY <2>2, <2>3, <2>4 DEF RtcLine
<1>8. CASE R!Reset
  BY <1>8, ClearedRtc DEF R!Reset
<1>9. CASE R!Rest
  BY <1>9 DEF R!Rest, R!vars
<1>. QED
  BY <1>2, <1>3, <1>4, <1>5, <1>6, <1>7, <1>8, <1>9 DEF R!Next
-----------------------------------------------------------------------------
PinFields == {"intr", "inte", "intf", "pend", "touched"}

PinsLine(i) ==
    /\ PinFields \subseteq DOMAIN i /\ DOMAIN i.pend = G!Core /\ DOMAIN i.touched = G!Core
    /\ \A c \in G!Core : AsLeft(i.pend[c], i.touched[c], G!Cause(i, c))

\* refresh_irq makes the lines of both cores follow the cause.
LEMMA PinsRefreshed ==
    ASSUME NEW i, PinFields \subseteq DOMAIN i
    PROVE  PinsLine(G!RefreshIrq(i))
<1>. DEFINE v == G!RefreshIrq(i)
            p == [c \in G!Core |-> G!Cause(i, c)]
            t == [c \in G!Core |-> FALSE]
<1>1. v = [i EXCEPT !.pend = p, !.touched = t]
  BY DEF G!RefreshIrq
<1>2. DOMAIN p = G!Core /\ DOMAIN t = G!Core /\ \A c \in G!Core : p[c] = G!Cause(i, c)
  OBVIOUS
<1>. HIDE DEF p, t, v
<1>3. PinFields \subseteq DOMAIN v /\ v.intr = i.intr /\ v.inte = i.inte /\ v.intf = i.intf /\ v.pend = p /\ v.touched = t
  BY <1>1 DEF PinFields
<1>4. \A c \in G!Core : G!Cause(v, c) = G!Cause(i, c)
  BY <1>3 DEF G!Cause
<1>5. ASSUME NEW c \in G!Core PROVE AsLeft(v.pend[c], v.touched[c], G!Cause(v, c))
  <2>1. G!Cause(i, c) \in BOOLEAN
    BY DEF G!Cause
  <2>2. v.pend[c] = G!Cause(i, c) /\ v.touched[c] = FALSE
    BY <1>2, <1>3 DEF t
  <2>. QED
    BY <1>4, <2>1, <2>2, Refreshed
<1>. QED
  BY <1>2, <1>3, <1>5 DEF PinsLine, v

\* What changes neither the cause nor the lines
LEMMA PinsSame ==
    ASSUME NEW i, PinsLine(i), NEW v, DOMAIN v = DOMAIN i, \A f \in PinFields : v[f] = i[f]
    PROVE  PinsLine(v)
<1>1. v.intr = i.intr /\ v.inte = i.inte /\ v.intf = i.intf /\ v.pend = i.pend /\ v.touched = i.touched
  BY DEF PinFields
<1>2. \A c \in G!Core : G!Cause(v, c) = G!Cause(i, c)
  BY <1>1 DEF G!Cause
<1>. QED
  BY <1>1, <1>2 DEF PinsLine

\* A reset of the block ends with refresh_irq.
LEMMA ClearedPins ==
    ASSUME NEW pend, NEW rest
    PROVE  PinsLine(G!RefreshIrq(G!Both(G!Cleared(pend), rest)))
<1>1. PinFields \subseteq DOMAIN G!Both(G!Cleared(pend), rest)
  BY DEF G!Both, G!Cleared, PinFields
<1>. QED
  BY <1>1, PinsRefreshed

\* At first there is no cause.
LEMMA PinsBegin ==
    ASSUME NEW i, i = G!Both(G!Cleared([c \in G!Core |-> FALSE]), G!Outside)
    PROVE  PinsLine(i)
<1>. DEFINE b == G!Cleared([c \in G!Core |-> FALSE])
<1>1. \A f \in PinFields : f \in DOMAIN b /\ f \in DOMAIN i /\ i[f] = b[f]
  BY DEF G!Both, G!Cleared, PinFields
<1>2. /\ b.intr = {} /\ b.intf = [c \in G!Core |-> {}] /\ b.inte = [c \in G!Core |-> {}]
      /\ b.pend = [c \in G!Core |-> FALSE] /\ b.touched = [c \in G!Core |-> FALSE]
  BY DEF G!Cleared
<1>. HIDE DEF b
<1>3. PinFields \subseteq DOMAIN i
  BY <1>1
<1>4. /\ i.intr = {} /\ i.intf = [c \in G!Core |-> {}] /\ i.inte = [c \in G!Core |-> {}]
      /\ i.pend = [c \in G!Core |-> FALSE] /\ i.touched = [c \in G!Core |-> FALSE]
  BY <1>1, <1>2 DEF PinFields
<1>5. \A c \in G!Core : ~G!Cause(i, c)
  BY <1>4 DEF G!Cause
<1>6. \A c \in G!Core : i.pend[c] = FALSE /\ i.touched[c] = FALSE
  BY <1>4
<1>. QED
  BY <1>3, <1>4, <1>5, <1>6 DEF PinsLine, AsLeft, LeftPending

\* Every step of the pins keeps the lines.
LEMMA PinsStep ==
    ASSUME PinsLine(dev), G!Next
    PROVE  PinsLine(dev')
<1>0. PinFields \subseteq DOMAIN dev
  BY DEF PinsLine
<1>1. CASE \E x : dev' = G!RefreshIrq(x) /\ PinFields \subseteq DOMAIN x
  BY <1>1, PinsRefreshed
<1>2. CASE \E f \in {"func", "over", "out", "oe", "pull", "ext"} : \E n : dev' = [dev EXCEPT ![f] = n]
  <2>1. DOMAIN dev' = DOMAIN dev /\ \A f \in PinFields : dev'[f] = dev[f]
    BY <1>0, <1>2 DEF PinFields
  <2>. QED
    BY <2>1, PinsSame
<1>3. CASE G!Poll
  <2>. DEFINE high == {p \in Pin : G!IrqLevel(p)}
              x == [dev EXCEPT !.intr = G!Latched(high), !.prev = high, !.primed = TRUE]
  <2>1. dev' = G!RefreshIrq(x)
    BY <1>3 DEF G!Poll
  <2>2. PinFields \subseteq DOMAIN x
    BY <1>0
  <2>. HIDE DEF x
  <2>. QED
    BY <2>1, <2>2, PinsRefreshed
<1>4. CASE G!WriteCtrl
  <2>1. PICK x, y : dev' = [dev EXCEPT !.func = x, !.over = y]
    BY <1>4 DEF G!WriteCtrl, G!Moved
  <2>2. DOMAIN dev' = DOMAIN dev /\ \A f \in PinFields : dev'[f] = dev[f]
    BY <1>0, <2>1 DEF PinFields
  <2>. QED
    BY <2>2, PinsSame
<1>5. CASE G!Drive
  BY <1>2, <1>5 DEF G!Drive, G!Moved
<1>6. CASE G!WritePad
  BY <1>2, <1>6 DEF G!WritePad, G!Moved
<1>7. CASE G!SetExternal
  BY <1>2, <1>7 DEF G!SetExternal, G!Moved
<1>8. CASE G!ResetPads
  BY <1>2, <1>8 DEF G!ResetPads, G!Moved
<1>9. CASE G!WriteEnables \/ G!WriteForce
  BY <1>0, <1>1, <1>9 DEF G!WriteEnables, G!WriteForce, G!Written
<1>10. CASE G!Acknowledge
  BY <1>0, <1>1, <1>10 DEF G!Acknowledge
<1>11. CASE G!EnterHandler \/ G!ResetCore \/ G!WriteNvic
  <2>. DEFINE v == dev'
  <2>1. PICK c \in G!Core : \E p, t : /\ v = [dev EXCEPT !.pend[c] = p, !.touched[c] = t]
                                    /\ CoreSide(dev.pend[c], dev.touched[c], p, t)
    BY <1>11 DEF G!EnterHandler, G!ResetCore, G!WriteNvic, CoreSide
  <2>2. PICK p, t : v = [dev EXCEPT !.pend[c] = p, !.touched[c] = t] /\ CoreSide(dev.pend[c], dev.touched[c], p, t)
    BY <2>1
  <2>. HIDE DEF v
  <2>3. /\ PinFields \subseteq DOMAIN v /\ v.intr = dev.intr /\ v.inte = dev.inte /\ v.intf = dev.intf
        /\ v.pend = [dev.pend EXCEPT ![c] = p] /\ v.touched = [dev.touched EXCEPT ![c] = t]
    BY <1>0, <2>2 DEF PinFields
  <2>4. \A d \in G!Core : G!Cause(v, d) = G!Cause(dev, d)
    BY <2>3 DEF G!Cause
  <2>5. DOMAIN dev.pend = G!Core /\ DOMAIN dev.touched = G!Core
    BY DEF PinsLine
  <2>6. ASSUME NEW d \in G!Core PROVE AsLeft(v.pend[d], v.touched[d], G!Cause(v, d))
    <3>1. AsLeft(dev.pend[d], dev.touched[d], G!Cause(dev, d))
      BY DEF PinsLine
    <3>2. CASE d = c
      <4>1. v.pend[d] = p /\ v.touched[d] = t
        BY <2>3, <2>5, <3>2
      <4>. QED
        BY <2>2, <2>4, <3>1, <3>2, <4>1, CoreKeeps
    <3>3. CASE d # c
      <4>1. v.pend[d] = dev.pend[d] /\ v.touched[d] = dev.touched[d]
        BY <2>3, <2>5, <3>3
      <4>. QED
        BY <2>4, <3>1, <4>1
    <3>. QED
      BY <3>2, <3>3
  <2>7. PinsLine(v)
    BY <2>3, <2>5, <2>6 DEF PinsLine
  <2>. QED
    BY <2>7 DEF v
<1>12. CASE G!ResetBank
  BY <1>12, ClearedPins DEF G!ResetBank
<1>13. CASE G!Rest
  BY <1>13 DEF G!Rest, G!vars
<1>. QED
  BY <1>3, <1>4, <1>5, <1>6, <1>7, <1>8, <1>9, <1>10, <1>11, <1>12, <1>13 DEF G!Next

-----------------------------------------------------------------------------
(* All of them *)

LinesFollow ==
    CASE unit = "uart" -> UartLine(dev) /\ UartPast(past)
      [] unit = "spi" -> SpiLine(dev)
      [] unit = "i2c" -> I2cLine(dev)
      [] unit = "timer" -> TimerInv(dev, past)
      [] unit = "pwm" -> PwmInv(dev) /\ PwmLine(dev)
      [] unit = "adc" -> AdcLine(dev)
      [] unit = "rtc" -> RtcLine(dev)
      [] unit = "pins" -> PinsLine(dev)
      [] OTHER -> TRUE

\* Theorem: no register write, byte, tick, edge or reset of the unit leaves the line of a
\* UART, the SPI, the I2C controller, the timer, the PWM, the ADC, the real-time clock or the
\* pins behind its cause, whatever the sizes of their FIFOs, frames and counters, and
\* whatever handlers' entries, resets of the core and writes of the NVIC did to the pending
\* bit in between: with the unit's next refresh it is the cause again.
THEOREM LineFollowsCauseHolds == Spec => []LineFollowsCause
<1>1. Init => LinesFollow
  <2>1. ASSUME U!Init PROVE UartLine(dev) /\ UartPast(past)
    BY <2>1, ClearedUart DEF U!Init
  <2>2. ASSUME S!Init PROVE SpiLine(dev)
    BY <2>2, ClearedSpi DEF S!Init
  <2>3. ASSUME C!Init PROVE I2cLine(dev)
    BY <2>3, ClearedI2c DEF C!Init
  <2>4. ASSUME T!Init PROVE TimerInv(dev, past)
    BY <2>4, ClearedTimer, IdleRead DEF T!Init, TimerType
  <2>5. ASSUME P!Init PROVE PwmInv(dev) /\ PwmLine(dev)
    BY <2>5, ClearedKept, ClearedPwm DEF P!Init
  <2>6. ASSUME A!Init PROVE AdcLine(dev)
    BY <2>6, ClearedAdc DEF A!Init
  <2>7. ASSUME R!Init PROVE RtcLine(dev)
    BY <2>7, ClearedRtc DEF R!Init
  <2>8. ASSUME G!Init PROVE PinsLine(dev)
    BY <2>8, PinsBegin DEF G!Init
  <2>. QED
    BY <2>1, <2>2, <2>3, <2>4, <2>5, <2>6, <2>7, <2>8 DEF Init, LinesFollow
<1>2. LinesFollow /\ [Next]_vars => LinesFollow'
  <2>1. CASE UNCHANGED vars
    BY <2>1 DEF vars, LinesFollow
  <2>2. CASE Next
    <3>1. ASSUME unit = "uart", LinesFollow PROVE LinesFollow'
      BY <2>2, <3>1, UartStep DEF Next, LinesFollow
    <3>2. ASSUME unit = "spi", LinesFollow PROVE LinesFollow'
      BY <2>2, <3>2, SpiStep DEF Next, LinesFollow
    <3>3. ASSUME unit = "i2c", LinesFollow PROVE LinesFollow'
      BY <2>2, <3>3, I2cStep DEF Next, LinesFollow
    <3>4. ASSUME unit = "timer", LinesFollow PROVE LinesFollow'
      BY <2>2, <3>4, TimerStep DEF Next, LinesFollow
    <3>5. ASSUME unit = "pwm", LinesFollow PROVE LinesFollow'
      BY <2>2, <3>5, PwmStep, PwmLineStep DEF Next, LinesFollow
    <3>6. ASSUME unit = "adc", LinesFollow PROVE LinesFollow'
      BY <2>2, <3>6, AdcStep DEF Next, LinesFollow
    <3>7. ASSUME unit = "rtc", LinesFollow PROVE LinesFollow'
      BY <2>2, <3>7, RtcLineStep DEF Next, LinesFollow
    <3>8. ASSUME unit = "pins", LinesFollow PROVE LinesFollow'
      BY <2>2, <3>8, PinsStep DEF Next, LinesFollow
    <3>9. ASSUME unit \notin {"uart", "spi", "i2c", "timer", "pwm", "adc", "rtc", "pins"} PROVE LinesFollow'
      BY <2>2, <3>9 DEF Next, LinesFollow
    <3>. QED
      BY <3>1, <3>2, <3>3, <3>4, <3>5, <3>6, <3>7, <3>8, <3>9
  <2>. QED
    BY <2>1, <2>2
<1>3. LinesFollow => LineFollowsCause
  <2>1. ASSUME NEW pend, NEW touched, NEW cause, AsLeft(pend, touched, cause) PROVE ~touched => (pend <=> cause)
    BY <2>1 DEF AsLeft, LeftPending
  <2>2. ASSUME TimerInv(dev, past) PROVE T!LineFollowsCause
    <3>1. T!Cause(dev) = Left(dev) /\ dev.pend \subseteq Alarms
      BY <2>2 DEF TimerInv, TimerType, TimerShape, Follows
    <3>. QED
      BY <3>1 DEF Left, T!LineFollowsCause
  <2>3. ASSUME PwmLine(dev) PROVE P!LineFollowsCause
    BY <2>3 DEF PwmLine, LeftPending, P!LineFollowsCause
  <2>4. ASSUME PinsLine(dev) PROVE G!LineFollowsCause
    BY <2>1, <2>4 DEF PinsLine, G!LineFollowsCause
  <2>5. /\ UartLine(dev) => U!LineFollowsCause
        /\ SpiLine(dev) => S!LineFollowsCause
        /\ I2cLine(dev) => C!LineFollowsCause
        /\ AdcLine(dev) => A!LineFollowsCause
        /\ RtcLine(dev) => R!LineFollowsCause
    BY <2>1 DEF UartLine, SpiLine, I2cLine, AdcLine, RtcLine, U!LineFollowsCause, S!LineFollowsCause,
                C!LineFollowsCause, A!LineFollowsCause, R!LineFollowsCause
  <2>. QED
    BY <2>2, <2>3, <2>4, <2>5 DEF LinesFollow, LineFollowsCause
<1>. QED
  BY <1>1, <1>2, <1>3, PTL DEF Spec

-----------------------------------------------------------------------------
(* SysTick runs out on time *)

SystFields == {"enable", "tickint", "count", "rvr", "cvr", "pend", "since", "steady", "wrong"}

\* Left alone, what has passed and what is left are a period.
SystInv(s) ==
    /\ s = [f \in SystFields |-> s[f]]
    /\ s.rvr \in Nat /\ s.cvr \in Nat /\ s.since \in Nat
    /\ s.wrong = FALSE
    /\ s.steady => s.rvr > 0 /\ s.since + s.cvr = (IF s.cvr = 0 THEN 0 ELSE s.rvr + 1)

\* A cycle of SysTick keeps the invariant.
LEMMA SystCycle ==
    ASSUME NEW s, SystInv(s), NEW c, c = [s EXCEPT !.since = IF s.steady THEN @ + 1 ELSE 0]
    PROVE  SystInv(K!Cycle(c))
<1>1. /\ c = [f \in SystFields |-> c[f]] /\ c.rvr = s.rvr /\ c.cvr = s.cvr /\ c.steady = s.steady /\ c.wrong = FALSE
      /\ c.since = (IF s.steady THEN s.since + 1 ELSE 0)
  BY DEF SystInv, SystFields
<1>2. c.rvr \in Nat /\ c.cvr \in Nat /\ c.since \in Nat
  BY <1>1 DEF SystInv
<1>. DEFINE v == K!Cycle(c)
<1>3. CASE c.cvr = 0
  <2>1. v = [c EXCEPT !.cvr = c.rvr]
    BY <1>3 DEF K!Cycle
  <2>. HIDE DEF v
  <2>2. /\ v = [f \in SystFields |-> v[f]] /\ v.rvr = c.rvr /\ v.cvr = c.rvr /\ v.steady = c.steady /\ v.wrong = FALSE
        /\ v.since = c.since
    BY <1>1, <2>1 DEF SystFields
  <2>3. SystInv(v)
    BY <1>1, <1>2, <1>3, <2>2 DEF SystInv
  <2>. QED
    BY <2>3 DEF v
<1>4. CASE c.cvr = 1
  <2>1. v = K!RunsOut(c)
    BY <1>4 DEF K!Cycle
  <2>2. c.steady => c.since = c.rvr + 1
    BY <1>1, <1>2, <1>4 DEF SystInv
  <2>. HIDE DEF v
  <2>3. /\ v = [f \in SystFields |-> v[f]] /\ v.rvr = c.rvr /\ v.cvr = 0 /\ v.since = 0
        /\ v.wrong = (c.wrong \/ (c.steady /\ c.since # c.rvr + 1))
    BY <1>1, <2>1 DEF SystFields, K!RunsOut
  <2>4. v.wrong = FALSE /\ v.rvr \in Nat /\ v.cvr \in Nat /\ v.since \in Nat
    <3>1. ~(c.steady /\ c.since # c.rvr + 1)
      BY <2>2
    <3>2. v.wrong = FALSE
      BY <1>1, <2>3, <3>1, Zenon
    <3>. QED
      BY <1>2, <2>3, <3>2
  <2>5. v.steady => v.rvr > 0
    <3>1. v.steady = (c.rvr > 0)
      BY <1>1, <2>1 DEF SystFields, K!RunsOut
    <3>2. v.steady => c.rvr > 0
      BY <3>1, Zenon
    <3>. QED
      BY <2>3, <3>2
  <2>6. SystInv(v)
    BY <2>3, <2>4, <2>5 DEF SystInv
  <2>. QED
    BY <2>6 DEF v
<1>5. CASE c.cvr # 0 /\ c.cvr # 1
  <2>1. v = [c EXCEPT !.cvr = c.cvr - 1]
    BY <1>5 DEF K!Cycle
  <2>. HIDE DEF v
  <2>2. /\ v = [f \in SystFields |-> v[f]] /\ v.rvr = c.rvr /\ v.cvr = c.cvr - 1 /\ v.steady = c.steady /\ v.wrong = FALSE
        /\ v.since = c.since
    BY <1>1, <2>1 DEF SystFields
  <2>3. SystInv(v)
    BY <1>1, <1>2, <1>5, <2>2 DEF SystInv
  <2>. QED
    BY <2>3 DEF v
<1>. QED
  BY <1>3, <1>4, <1>5

\* Every step of SysTick does.
LEMMA SystStep ==
    ASSUME SystInv(dev), K!Next
    PROVE  SystInv(dev')
<1>1. CASE K!Clock
  BY <1>1, SystCycle DEF K!Clock
<1>2. CASE K!WriteCsr \/ K!ReadCsr \/ K!EnterHandler \/ K!ResetCore \/ K!WriteIcsr
  <2>0. dev = [f \in SystFields |-> dev[f]]
    BY DEF SystInv
  <2>1. /\ dev' = [f \in SystFields |-> dev'[f]]
        /\ \A f \in {"rvr", "cvr", "since", "steady", "wrong"} : dev'[f] = dev[f]
    <3>1. CASE K!WriteCsr
      <4>1. PICK e, t \in BOOLEAN : dev' = [dev EXCEPT !.enable = e, !.tickint = t]
        BY <3>1 DEF K!WriteCsr
      <4>. QED
        BY <2>0, <4>1 DEF SystFields
    <3>2. CASE K!ReadCsr
      BY <2>0, <3>2 DEF K!ReadCsr, SystFields
    <3>3. CASE K!EnterHandler \/ K!ResetCore \/ K!WriteIcsr
      <4>1. PICK p : dev' = [dev EXCEPT !.pend = p]
        BY <3>3 DEF K!EnterHandler, K!ResetCore, K!WriteIcsr
      <4>. QED
        BY <2>0, <4>1 DEF SystFields
    <3>. QED
      BY <1>2, <3>1, <3>2, <3>3
  <2>. QED
    BY <2>1 DEF SystInv
<1>3. CASE K!WriteRvr
  <2>1. ASSUME NEW r \in Reloads PROVE SystInv([dev EXCEPT !.rvr = r, !.steady = FALSE])
    BY ReloadsAssumption DEF SystInv, SystFields
  <2>. QED
    BY <1>3, <2>1 DEF K!WriteRvr
<1>4. CASE K!WriteCvr
  <2>. DEFINE v == [dev EXCEPT !.cvr = 0, !.count = FALSE, !.steady = dev.rvr > 0, !.since = 0]
  <2>1. /\ v = [f \in SystFields |-> v[f]] /\ v.rvr = dev.rvr /\ v.cvr = 0
        /\ v.wrong = FALSE /\ v.since = 0 /\ dev.rvr \in Nat
    BY DEF SystInv, SystFields
  <2>2. dev' = v
    BY <1>4 DEF K!WriteCvr
  <2>3. v.steady => dev.rvr > 0
    <3>1. v.steady = (dev.rvr > 0)
      BY DEF SystInv, SystFields
    <3>. QED
      BY <3>1, Zenon
  <2>. HIDE DEF v
  <2>4. SystInv(v)
    BY <2>1, <2>3 DEF SystInv
  <2>. QED
    BY <2>2, <2>4
<1>5. CASE K!Rest
  BY <1>5 DEF K!Rest, K!vars
<1>. QED
  BY <1>1, <1>2, <1>3, <1>4, <1>5 DEF K!Next

LEMMA SystBegins == ASSUME K!Init PROVE SystInv(dev)
BY DEF K!Init, SystInv, SystFields
-----------------------------------------------------------------------------
(* The conversions of the ADC take their time *)

AdcPacing == {"converting", "left", "age", "due", "div"}

AdcInv(a, p) ==
    /\ AdcPacing \subseteq DOMAIN a /\ "wrong" \in DOMAIN p
    /\ p.wrong = FALSE /\ a.div \in Int
    /\ a.converting => a.left \in Int /\ a.age \in Int /\ a.due \in Int /\ a.age + a.left = a.due + 1

\* What neither begins, ends nor counts a conversion
LEMMA SamePacing ==
    ASSUME NEW a, NEW p, AdcInv(a, p), NEW v, NEW q, AdcPacing \subseteq DOMAIN v, \A f \in AdcPacing : v[f] = a[f],
           "wrong" \in DOMAIN q, q.wrong = p.wrong
    PROVE  AdcInv(v, q)
<1>1. v.converting = a.converting /\ v.left = a.left /\ v.age = a.age /\ v.due = a.due /\ v.div = a.div
  BY DEF AdcPacing
<1>. QED
  BY <1>1 DEF AdcInv

LEMMA RefreshedPacing ==
    ASSUME NEW a, AdcPacing \subseteq DOMAIN a
    PROVE  LET v == A!RefreshIrq(a) IN AdcPacing \subseteq DOMAIN v /\ \A f \in AdcPacing : v[f] = a[f]
BY DEF A!RefreshIrq, AdcPacing

\* A conversion that ends is not under way any more.
LEMMA ConvertEnds ==
    ASSUME NEW a, AdcPacing \subseteq DOMAIN a
    PROVE  LET v == A!Convert([a EXCEPT !.left = 0])
           IN  AdcPacing \subseteq DOMAIN v /\ v.converting = FALSE /\ v.div = a.div
<1>. DEFINE b == [a EXCEPT !.left = 0]
            x == [b EXCEPT
                    !.ready = TRUE, !.converting = FALSE, !.age = 0, !.due = 0,
                    !.over = @ \/ (b.fcsEn /\ Len(b.fifo) >= FifoDepth),
                    !.fifo = IF b.fcsEn /\ Len(b.fifo) < FifoDepth THEN Append(@, past.number + 1) ELSE @,
                    !.ainsel = IF b.rrobin = {} THEN @ ELSE A!NextRrobin(b, A!Selected(b))]
<1>1. A!Convert(b) = A!RefreshIrq(x)
  BY Zenon DEF A!Convert
<1>2. AdcPacing \subseteq DOMAIN x /\ x.converting = FALSE /\ x.div = a.div
  BY DEF AdcPacing
<1>. HIDE DEF x
<1>3. /\ AdcPacing \subseteq DOMAIN A!RefreshIrq(x) /\ A!RefreshIrq(x).converting = x.converting
      /\ A!RefreshIrq(x).div = x.div
  BY <1>2, RefreshedPacing DEF AdcPacing
<1>. QED
  BY <1>1, <1>2, <1>3

\* A clock of the ADC
LEMMA AdcClockPaces ==
    ASSUME AdcInv(dev, past), A!Clock
    PROVE  AdcInv(dev', past')
<1>0. AdcPacing \subseteq DOMAIN dev /\ Sar \in Nat
  BY SarAssumption DEF AdcInv
<1>. DEFINE ran == IF ~dev.converting THEN dev
                   ELSE IF dev.left = 1 THEN A!Convert([dev EXCEPT !.left = 0])
                   ELSE [dev EXCEPT !.left = @ - 1, !.age = @ + 1]
            more == [ran EXCEPT !.converting = TRUE, !.left = Sar + dev.div, !.due = Sar + dev.div, !.age = 1,
                                !.ready = FALSE]
<1>1. dev' = ran \/ (dev' = more /\ ~ran.converting)
  BY DEF A!Clock, A!AdcClock
<1>2. AdcPacing \subseteq DOMAIN ran
  <2>1. CASE dev.converting /\ dev.left = 1
    <3>1. AdcPacing \subseteq DOMAIN A!Convert([dev EXCEPT !.left = 0])
      BY <1>0, ConvertEnds
    <3>. QED
      BY <2>1, <3>1
  <2>. QED
    BY <1>0, <2>1
<1>3. ran.converting => /\ dev.converting /\ dev.left # 1 /\ ran.left = dev.left - 1 /\ ran.age = dev.age + 1
                        /\ ran.due = dev.due
  <2>1. CASE dev.converting /\ dev.left = 1
    <3>1. A!Convert([dev EXCEPT !.left = 0]).converting = FALSE
      BY <1>0, ConvertEnds
    <3>. QED
      BY <2>1, <3>1
  <2>2. CASE dev.converting /\ dev.left # 1
    BY <1>0, <2>2 DEF AdcPacing
  <2>. QED
    BY <2>1, <2>2
<1>4. "wrong" \in DOMAIN past' /\ past'.wrong = FALSE
  <2>1. CASE A!Ends(dev)
    <3>1. dev.age = dev.due
      BY <2>1 DEF A!Ends, AdcInv
    <3>2. past' = A!Remembered(dev)
      BY DEF A!Clock
    <3>3. "wrong" \in DOMAIN past' /\ past'.wrong = (past.wrong \/ dev.age # dev.due)
      BY <2>1, <3>2 DEF A!Remembered, AdcInv
    <3>. QED
      BY <3>1, <3>3 DEF AdcInv
  <2>2. CASE ~A!Ends(dev)
    BY <2>2 DEF A!Clock, A!Remembered, AdcInv
  <2>. QED
    BY <2>1, <2>2
<1>5. dev.div \in Int
  BY DEF AdcInv
<1>5a. ran.div = dev.div
  <2>1. CASE dev.converting /\ dev.left = 1
    <3>1. A!Convert([dev EXCEPT !.left = 0]).div = dev.div
      BY <1>0, ConvertEnds
    <3>. QED
      BY <2>1, <3>1
  <2>. QED
    BY <1>0, <2>1 DEF AdcPacing
<1>. HIDE DEF ran
<1>6. CASE dev' = ran
  BY <1>2, <1>3, <1>4, <1>5, <1>5a, <1>6 DEF AdcInv
<1>7. CASE dev' = more
  <2>1. /\ AdcPacing \subseteq DOMAIN more /\ more.left = Sar + dev.div /\ more.due = Sar + dev.div /\ more.age = 1
        /\ more.div = dev.div
    BY <1>2, <1>5a DEF AdcPacing
  <2>. HIDE DEF more
  <2>. QED
    BY <1>0, <1>4, <1>5, <1>7, <2>1 DEF AdcInv
<1>. QED
  BY <1>1, <1>6, <1>7

\* Every step of the ADC keeps the invariant.
LEMMA AdcPaced ==
    ASSUME AdcInv(dev, past), A!Next
    PROVE  AdcInv(dev', past')
<1>0. AdcPacing \subseteq DOMAIN dev /\ "wrong" \in DOMAIN past /\ Sar \in Nat /\ dev.div \in Int /\ past.wrong = FALSE
  BY SarAssumption DEF AdcInv
<1>1. ASSUME NEW x, AdcPacing \subseteq DOMAIN x, \A f \in AdcPacing : x[f] = dev[f],
             dev' = x \/ dev' = A!RefreshIrq(x), "wrong" \in DOMAIN past', past'.wrong = past.wrong
      PROVE  AdcInv(dev', past')
  <2>1. AdcPacing \subseteq DOMAIN dev' /\ \A f \in AdcPacing : dev'[f] = dev[f]
    BY <1>1, RefreshedPacing
  <2>. QED
    BY <1>1, <2>1, SamePacing
<1>2. CASE A!WriteCs
  <2>1. PICK en, once, many \in BOOLEAN, sel \in {0, Channels}, mask \in Masks : A!WriteCs!(en, once, many, sel, mask)
    BY <1>2 DEF A!WriteCs
  <2>. DEFINE starts == once /\ en /\ ~dev.converting
              new == [dev EXCEPT !.en = en, !.many = many, !.ainsel = sel, !.rrobin = mask, !.ready = FALSE]
              begun == [new EXCEPT !.converting = TRUE, !.left = Sar + dev.div, !.due = Sar + dev.div, !.age = 1]
  <2>2. /\ dev' = A!RefreshIrq(IF starts THEN begun ELSE new)
        /\ "wrong" \in DOMAIN past' /\ past'.wrong = past.wrong
    BY <1>0, <2>1
  <2>3. AdcPacing \subseteq DOMAIN new /\ \A f \in AdcPacing : new[f] = dev[f]
    BY <1>0 DEF AdcPacing
  <2>. HIDE DEF new
  <2>4. CASE ~starts
    BY <1>1, <2>2, <2>3, <2>4
  <2>5. CASE starts
    <3>1. /\ AdcPacing \subseteq DOMAIN begun /\ begun.left = Sar + dev.div /\ begun.due = Sar + dev.div
          /\ begun.age = 1 /\ begun.div = dev.div
      BY <2>3 DEF AdcPacing
    <3>2. dev' = A!RefreshIrq(begun)
      BY <2>2, <2>5
    <3>. HIDE DEF begun
    <3>3. /\ AdcPacing \subseteq DOMAIN dev' /\ dev'.left = begun.left /\ dev'.due = begun.due /\ dev'.age = begun.age
          /\ dev'.div = begun.div
      BY <3>1, <3>2, RefreshedPacing DEF AdcPacing
    <3>. QED
      BY <1>0, <2>2, <3>1, <3>3 DEF AdcInv
  <2>. QED
    BY <2>4, <2>5
<1>3. CASE A!WriteFcs
  <2>1. PICK fifo, dreq, clear \in BOOLEAN, level \in {0, FifoDepth} : A!WriteFcs!(fifo, dreq, clear, level)
    BY <1>3 DEF A!WriteFcs
  <2>. DEFINE x == [dev EXCEPT !.fcsEn = fifo, !.dreqEn = dreq, !.thresh = level,
                               !.over = @ /\ ~clear, !.under = @ /\ ~clear]
  <2>2. AdcPacing \subseteq DOMAIN x /\ \A f \in AdcPacing : x[f] = dev[f]
    BY <1>0 DEF AdcPacing
  <2>3. dev' = A!RefreshIrq(x) /\ "wrong" \in DOMAIN past' /\ past'.wrong = past.wrong
    BY <1>0, <2>1
  <2>. HIDE DEF x
  <2>. QED
    BY <1>1, <2>2, <2>3
<1>4. CASE A!WriteDiv
  <2>1. PICK d \in 0..1 : A!WriteDiv!(d)
    BY <1>4 DEF A!WriteDiv
  <2>2. /\ AdcPacing \subseteq DOMAIN dev' /\ dev'.div = d
        /\ dev'.converting = dev.converting /\ dev'.left = dev.left /\ dev'.age = dev.age /\ dev'.due = dev.due
        /\ "wrong" \in DOMAIN past' /\ past'.wrong = past.wrong
    BY <1>0, <2>1 DEF AdcPacing
  <2>. QED
    BY <1>0, <2>2 DEF AdcInv
<1>5. CASE A!WriteInts
  <2>1. PICK e, f \in BOOLEAN : A!WriteInts!(e, f)
    BY <1>5 DEF A!WriteInts
  <2>. DEFINE x == [dev EXCEPT !.inte = e, !.intf = f]
  <2>2. AdcPacing \subseteq DOMAIN x /\ \A g \in AdcPacing : x[g] = dev[g]
    BY <1>0 DEF AdcPacing
  <2>3. dev' = A!RefreshIrq(x) /\ "wrong" \in DOMAIN past' /\ past'.wrong = past.wrong
    BY <1>0, <2>1
  <2>. HIDE DEF x
  <2>. QED
    BY <1>1, <2>2, <2>3
<1>6. CASE A!ReadFifo \/ A!DmaReads
  <2>1. CASE dev' = A!RefreshIrq([dev EXCEPT !.fifo = Tail(@)]) /\ past' = [past EXCEPT !.read = @ + 1]
    <3>. DEFINE x == [dev EXCEPT !.fifo = Tail(@)]
    <3>1. AdcPacing \subseteq DOMAIN x /\ \A f \in AdcPacing : x[f] = dev[f]
      BY <1>0 DEF AdcPacing
    <3>2. dev' = A!RefreshIrq(x) /\ "wrong" \in DOMAIN past' /\ past'.wrong = past.wrong
      BY <1>0, <2>1
    <3>. HIDE DEF x
    <3>. QED
      BY <1>1, <3>1, <3>2
  <2>2. CASE dev' = [dev EXCEPT !.under = TRUE] /\ UNCHANGED past
    <3>. DEFINE x == [dev EXCEPT !.under = TRUE]
    <3>1. AdcPacing \subseteq DOMAIN x /\ \A f \in AdcPacing : x[f] = dev[f]
      BY <1>0 DEF AdcPacing
    <3>2. dev' = x /\ "wrong" \in DOMAIN past' /\ past'.wrong = past.wrong
      BY <1>0, <2>2
    <3>. HIDE DEF x
    <3>. QED
      BY <1>1, <3>1, <3>2
  <2>. QED
    BY <1>6, <2>1, <2>2 DEF A!ReadFifo, A!DmaReads
<1>7. CASE A!EnterHandler \/ A!ResetCore \/ A!WriteNvic
  <2>1. past' = past /\ \E p, t : dev' = [dev EXCEPT !.pend = p, !.touched = t]
    BY <1>7 DEF A!EnterHandler, A!ResetCore, A!WriteNvic
  <2>2. AdcPacing \subseteq DOMAIN dev' /\ \A f \in AdcPacing : dev'[f] = dev[f]
    BY <1>0, <2>1 DEF AdcPacing
  <2>. QED
    BY <1>0, <1>1, <2>1, <2>2
<1>8. CASE A!Reset
  <2>1. AdcPacing \subseteq DOMAIN A!Cleared /\ A!Cleared.converting = FALSE /\ A!Cleared.div = 0
    BY DEF A!Cleared, AdcPacing
  <2>2. /\ AdcPacing \subseteq DOMAIN A!RefreshIrq(A!Cleared)
        /\ A!RefreshIrq(A!Cleared).converting = FALSE /\ A!RefreshIrq(A!Cleared).div = 0
    BY <2>1, RefreshedPacing DEF AdcPacing
  <2>3. "wrong" \in DOMAIN past' /\ past'.wrong = FALSE
    BY <1>8 DEF A!Reset, A!Fresh
  <2>4. dev' = A!RefreshIrq(A!Cleared)
    BY <1>8 DEF A!Reset
  <2>. QED
    BY <2>2, <2>3, <2>4 DEF AdcInv
<1>9. CASE A!Rest
  BY <1>9 DEF A!Rest, A!vars
<1>10. CASE A!Clock
  BY <1>10, AdcClockPaces
<1>. QED
  BY <1>2, <1>3, <1>4, <1>5, <1>6, <1>7, <1>8, <1>9, <1>10 DEF A!Next

\* And so the converter begins.
LEMMA AdcBegins == ASSUME A!Init PROVE AdcInv(dev, past)
BY DEF A!Init, A!Cleared, A!Fresh, AdcInv, AdcPacing

-----------------------------------------------------------------------------
(* The watchdog bites on time *)

WatchFields == {"period", "acc", "counter", "enabled", "ctrl", "reason", "age", "fed", "paced", "wrong"}

\* The ticks since the watchdog was fed, and where in a microsecond that was
Elapsed(w, k, a) ==
    /\ w.counter = w.fed - 2 * k
    /\ w.age = k * w.period + w.acc - a
    /\ k > 0 => w.fed > 2 * k

WatchLoose(w) ==
    /\ w = [f \in WatchFields |-> w[f]]
    /\ w.period \in Nat \ {0} /\ w.acc \in Nat /\ w.counter \in Nat /\ w.age \in Nat /\ w.fed \in Nat
    /\ w.wrong = FALSE
    /\ w.paced => w.acc <= w.period /\ \E k \in Nat, a \in 0..(w.period - 1) : Elapsed(w, k, a)

WatchInv(w) == WatchLoose(w) /\ (w.paced => w.acc < w.period)

\* A load runs out in the tick that leaves no more than two of it.
LEMMA LastTick ==
    ASSUME NEW fed \in Nat, NEW k \in Nat, k > 0 => fed > 2 * k
    PROVE  /\ W!Ticks(fed) \in Nat /\ k + 1 <= W!Ticks(fed)
           /\ fed - 2 * k <= 2 => W!Ticks(fed) = k + 1
BY DEF W!Ticks

\* From a feed on the ticks are counted anew.
LEMMA CountsAnew ==
    ASSUME NEW w, w = [f \in WatchFields |-> w[f]], w.period \in Nat \ {0}, w.acc \in Nat, w.wrong = FALSE,
           NEW load \in Nat
    PROVE  /\ WatchInv(W!Counted(w, load))
           /\ W!Counted(w, load).enabled = w.enabled
<1>. DEFINE v == W!Counted(w, load)
<1>1. /\ v = [f \in WatchFields |-> v[f]] /\ v.period = w.period /\ v.acc = w.acc /\ v.counter = load /\ v.fed = load
      /\ v.age = 0 /\ v.wrong = FALSE /\ v.enabled = w.enabled
  BY DEF W!Counted, WatchFields
<1>2. v.paced => w.acc < w.period
  <2>1. v.paced = (w.acc < w.period)
    BY DEF W!Counted, WatchFields
  <2>. QED
    BY <2>1, Zenon
<1>. HIDE DEF v
<1>3. v.paced => Elapsed(v, 0, v.acc)
  BY <1>1, <1>2 DEF Elapsed
<1>4. v.paced => v.acc \in 0..(v.period - 1) /\ v.acc <= v.period /\ v.acc < v.period
  BY <1>1, <1>2
<1>5. WatchInv(v)
  BY <1>1, <1>3, <1>4 DEF WatchInv, WatchLoose
<1>. QED
  BY <1>1, <1>5 DEF v

\* It bites in the microsecond in which the load runs out.
LEMMA BitesOnTime ==
    ASSUME NEW w, WatchLoose(w), w.counter <= 2, w.paced => w.acc = w.period,
           NEW v, v = [w EXCEPT !.acc = w.acc - w.period], v.acc \in Nat
    PROVE  WatchInv(W!Bite(v))
<1>. DEFINE x == [v EXCEPT !.reason = "timer", !.enabled = FALSE]
            late == v.paced /\ v.age \notin (W!Ticks(v.fed) - 1) * v.period + 1 .. W!Ticks(v.fed) * v.period
            y == W!Counted(x, 0)
            z == W!Bite(v)
<1>1. /\ v = [f \in WatchFields |-> v[f]] /\ v.period = w.period /\ v.age = w.age /\ v.fed = w.fed
      /\ v.counter = w.counter /\ v.wrong = FALSE /\ v.acc = w.acc - w.period /\ v.paced = w.paced
  BY DEF WatchLoose, WatchFields
<1>2. ~late
  <2>1. SUFFICES ASSUME w.paced
                 PROVE  v.age \in (W!Ticks(v.fed) - 1) * v.period + 1 .. W!Ticks(v.fed) * v.period
    BY <1>1
  <2>2. PICK k \in Nat, a \in 0..(w.period - 1) : Elapsed(w, k, a)
    BY <2>1 DEF WatchLoose
  <2>3. /\ w.period \in Nat \ {0} /\ w.fed \in Nat /\ w.acc = w.period /\ w.counter = w.fed - 2 * k
        /\ w.age = k * w.period + w.acc - a /\ (k > 0 => w.fed > 2 * k)
    BY <2>1, <2>2 DEF WatchLoose, Elapsed
  <2>4. W!Ticks(w.fed) = k + 1
    BY <2>3, LastTick
  <2>. DEFINE p == w.period
              q == k * p
  <2>5. q \in Int /\ p \in Nat \ {0} /\ a \in 0..(p - 1) /\ w.age = q + p - a /\ (k + 1) * p = q + p
        /\ ((k + 1) - 1) * p = q
    BY <2>3
  <2>. HIDE DEF q
  <2>. QED
    BY <1>1, <2>4, <2>5
<1>3. x = [f \in WatchFields |-> x[f]] /\ x.period \in Nat \ {0} /\ x.acc \in Nat /\ x.wrong = FALSE
  BY <1>1 DEF WatchFields, WatchLoose
<1>4. z = [y EXCEPT !.wrong = @ \/ late]
  BY DEF W!Bite, W!FireReset
<1>. HIDE DEF x, late, z
<1>5. WatchInv(y)
  BY <1>3, CountsAnew
<1>6. y.wrong = FALSE /\ y = [f \in WatchFields |-> y[f]]
  BY <1>5 DEF WatchInv, WatchLoose
<1>. HIDE DEF y
<1>7. (y.wrong \/ late) = FALSE
  BY <1>2, <1>6
<1>8. z = y
  BY <1>4, <1>6, <1>7 DEF WatchFields
<1>. QED
  BY <1>5, <1>8 DEF z

\* A round of the loop of a cycle
Round(w) == IF w.enabled /\ w.acc >= w.period THEN W!Tick([w EXCEPT !.acc = @ - w.period]) ELSE w

LEMMA RoundKeeps ==
    ASSUME NEW w, WatchLoose(w), w.enabled \/ WatchInv(w)
    PROVE  WatchInv(Round(w))
<1>1. CASE ~(w.enabled /\ w.acc >= w.period)
  <2>1. WatchInv(w)
    BY <1>1 DEF WatchInv, WatchLoose
  <2>. QED
    BY <1>1, <2>1 DEF Round
<1>2. CASE w.enabled /\ w.acc >= w.period
  <2>. DEFINE v == [w EXCEPT !.acc = w.acc - w.period]
  <2>1. Round(w) = IF v.counter <= 2 THEN W!Bite(v) ELSE [v EXCEPT !.counter = @ - 2]
    BY <1>2 DEF Round, W!Tick, W!RunOut
  <2>2. /\ v = [f \in WatchFields |-> v[f]] /\ v.period = w.period /\ v.age = w.age /\ v.fed = w.fed
        /\ v.counter = w.counter /\ v.wrong = FALSE /\ v.acc = w.acc - w.period /\ v.paced = w.paced
    BY DEF WatchLoose, WatchFields
  <2>3. v.acc \in Nat /\ (w.paced => w.acc = w.period)
    BY <1>2, <2>2 DEF WatchLoose
  <2>4. CASE v.counter <= 2
    <3>1. w.counter <= 2
      BY <2>2, <2>4
    <3>2. WatchInv(W!Bite(v))
      BY <2>3, <3>1, BitesOnTime
    <3>. QED
      BY <2>1, <2>4, <3>2
  <2>5. CASE ~(v.counter <= 2)
    <3>. DEFINE u == [v EXCEPT !.counter = @ - 2]
    <3>1. /\ u = [f \in WatchFields |-> u[f]] /\ u.period = w.period /\ u.age = w.age /\ u.fed = w.fed
          /\ u.counter = w.counter - 2 /\ u.wrong = FALSE /\ u.acc = w.acc - w.period /\ u.paced = w.paced
      BY <2>2 DEF WatchFields
    <3>. HIDE DEF u, v
    <3>2. u.counter \in Nat /\ u.acc \in Nat
      BY <2>2, <2>3, <2>5, <3>1 DEF WatchLoose
    <3>3. ASSUME w.paced
          PROVE  u.acc < u.period /\ u.acc <= u.period /\ \E k \in Nat, a \in 0..(u.period - 1) : Elapsed(u, k, a)
      <4>1. PICK k \in Nat, a \in 0..(w.period - 1) : Elapsed(w, k, a)
        BY <3>3 DEF WatchLoose
      <4>2. /\ w.period \in Nat \ {0} /\ w.fed \in Nat /\ w.acc = w.period /\ w.counter = w.fed - 2 * k
            /\ w.age = k * w.period + w.acc - a
        BY <2>3, <3>3, <4>1 DEF WatchLoose, Elapsed
      <4>3. u.age = (k + 1) * u.period + u.acc - a
        <5>. DEFINE p == w.period
                    q == k * p
        <5>1. q \in Int /\ p \in Nat /\ w.age = q + p - a /\ (k + 1) * p = q + p
          BY <4>2
        <5>2. (k + 1) * u.period = (k + 1) * p
          BY <3>1
        <5>. HIDE DEF q
        <5>3. u.acc = 0 /\ w.acc = p /\ u.age = w.age
          BY <3>1, <4>2
        <5>. HIDE DEF p
        <5>. QED
          BY <5>1, <5>2, <5>3
      <4>4. u.counter = u.fed - 2 * (k + 1) /\ u.fed > 2 * (k + 1)
        BY <2>2, <2>5, <3>1, <4>2
      <4>5. k + 1 \in Nat /\ a \in 0..(u.period - 1) /\ Elapsed(u, k + 1, a)
        BY <3>1, <4>3, <4>4 DEF Elapsed
      <4>6. u.acc = 0 /\ u.period \in Nat \ {0}
        BY <3>1, <4>2
      <4>. QED
        BY <4>5, <4>6
    <3>4. WatchInv(u)
      BY <3>1, <3>2, <3>3 DEF WatchInv, WatchLoose
    <3>. QED
      BY <2>1, <2>5, <3>4 DEF u
  <2>. QED
    BY <2>4, <2>5
<1>. QED
  BY <1>1, <1>2

\* The rounds of a cycle, and that there is such a function
Rounds(f, w, n) == f = [k \in 0..n |-> IF k = 0 THEN w ELSE Round(f[k - 1])]

LEMMA RoundsExist ==
    ASSUME NEW w, NEW N \in Nat
    PROVE  \E f : Rounds(f, w, N)
<1>. DEFINE M == {n \in Nat : \E f : Rounds(f, w, n)}
<1>1. 0 \in M
  <2>. DEFINE f == [k \in 0..0 |-> w]
  <2>1. f = [k \in 0..0 |-> IF k = 0 THEN w ELSE Round(f[k - 1])]
    OBVIOUS
  <2>2. Rounds(f, w, 0)
    BY <2>1 DEF Rounds
  <2>. QED
    BY <2>2
<1>2. ASSUME NEW n \in M PROVE n + 1 \in M
  <2>1. PICK g : Rounds(g, w, n)
    OBVIOUS
  <2>2. g = [k \in 0..n |-> IF k = 0 THEN w ELSE Round(g[k - 1])]
    BY <2>1 DEF Rounds
  <2>. DEFINE f == [k \in 0..(n + 1) |-> IF k = n + 1 THEN Round(g[n]) ELSE g[k]]
  <2>3. n \in Nat
    OBVIOUS
  <2>4. ASSUME NEW k \in 0..(n + 1) PROVE f[k] = IF k = 0 THEN w ELSE Round(f[k - 1])
    <3>1. CASE k = n + 1
      <4>1. k # 0 /\ k - 1 = n /\ n \in 0..(n + 1) /\ n # n + 1
        BY <2>3, <3>1
      <4>2. f[k - 1] = g[n]
        BY <4>1
      <4>. QED
        BY <3>1, <4>1, <4>2
    <3>2. CASE k = 0
      BY <2>2, <2>3, <3>2
    <3>3. CASE k \in 1..n
      <4>1. f[k] = g[k] /\ f[k - 1] = g[k - 1]
        BY <2>3, <3>3
      <4>2. g[k] = Round(g[k - 1])
        BY <2>2, <2>3, <3>3
      <4>. QED
        BY <3>3, <4>1, <4>2
    <3>. QED
      BY <2>3, <3>1, <3>2, <3>3
  <2>5. f = [k \in 0..(n + 1) |-> IF k = 0 THEN w ELSE Round(f[k - 1])]
    <3>1. f = [k \in 0..(n + 1) |-> f[k]]
      OBVIOUS
    <3>. HIDE DEF f
    <3>. QED
      BY <2>4, <3>1
  <2>. HIDE DEF f
  <2>6. Rounds(f, w, n + 1)
    BY <2>5 DEF Rounds
  <2>. QED
    BY <2>3, <2>6
<1>3. M = Nat
  <2>1. M \in SUBSET Nat
    OBVIOUS
  <2>. HIDE DEF M
  <2>. QED
    BY <1>1, <1>2, <2>1, Induction
<1>. QED
  BY <1>3

\* All rounds of a cycle keep it.
LEMMA RoundsKeep ==
    ASSUME NEW w, WatchLoose(w), w.enabled, NEW N \in Nat \ {0}, NEW f, Rounds(f, w, N)
    PROVE  WatchInv(f[N])
<1>1. f = [k \in 0..N |-> IF k = 0 THEN w ELSE Round(f[k - 1])]
  BY DEF Rounds
<1>. DEFINE M == {n \in Nat : n + 1 <= N => WatchInv(f[n + 1])}
<1>2. 0 \in M
  <2>1. f[0] = w
    BY <1>1
  <2>2. f[1] = Round(w)
    BY <1>1, <2>1
  <2>3. WatchInv(f[0 + 1])
    BY <2>2, RoundKeeps
  <2>. QED
    BY <2>3
<1>3. ASSUME NEW n \in M PROVE n + 1 \in M
  <2>1. SUFFICES ASSUME (n + 1) + 1 <= N PROVE WatchInv(f[(n + 1) + 1])
    OBVIOUS
  <2>2. n \in Nat /\ (n + 1) + 1 \in 0..N /\ (n + 1) + 1 # 0 /\ ((n + 1) + 1) - 1 = n + 1 /\ n + 1 <= N
    BY <2>1
  <2>3. f[(n + 1) + 1] = Round(f[n + 1])
    BY <1>1, <2>2
  <2>4. WatchInv(f[n + 1])
    BY <2>2
  <2>5. WatchLoose(f[n + 1])
    BY <2>4 DEF WatchInv
  <2>. QED
    BY <2>3, <2>4, <2>5, RoundKeeps
<1>4. M = Nat
  <2>1. M \in SUBSET Nat
    OBVIOUS
  <2>. HIDE DEF M
  <2>. QED
    BY <1>2, <1>3, <2>1, Induction
<1>5. N - 1 \in M /\ (N - 1) + 1 = N
  <2>1. N - 1 \in Nat /\ (N - 1) + 1 = N
    OBVIOUS
  <2>. HIDE DEF M
  <2>. QED
    BY <1>4, <2>1
<1>. QED
  BY <1>5

\* A cycle of the watchdog
LEMMA WatchCycle ==
    ASSUME WatchInv(dev), W!Clock
    PROVE  WatchInv(dev')
<1>. DEFINE began == [dev EXCEPT !.acc = @ + 1, !.age = @ + 1]
            N == began.acc
            after[n \in 0..began.acc] ==
                LET w == after[n - 1]
                IN  IF n = 0 THEN began
                    ELSE IF w.enabled /\ w.acc >= w.period THEN W!Tick([w EXCEPT !.acc = @ - w.period]) ELSE w
            Is(f) == f = [n \in 0..began.acc |->
                            LET w == f[n - 1]
                            IN  IF n = 0 THEN began
                                ELSE IF w.enabled /\ w.acc >= w.period THEN W!Tick([w EXCEPT !.acc = @ - w.period])
                                ELSE w]
<1>1. dev' = after[N] /\ dev.enabled
  BY DEF W!Clock
<1>2. /\ began = [f \in WatchFields |-> began[f]] /\ began.period = dev.period /\ began.acc = dev.acc + 1
      /\ began.counter = dev.counter /\ began.enabled = dev.enabled /\ began.age = dev.age + 1 /\ began.fed = dev.fed
      /\ began.paced = dev.paced /\ began.wrong = FALSE
  BY DEF WatchInv, WatchLoose, WatchFields
<1>3. WatchLoose(began)
  <2>. HIDE DEF began
  <2>1. began.period \in Nat \ {0} /\ began.acc \in Nat /\ began.counter \in Nat /\ began.age \in Nat
        /\ began.fed \in Nat
    BY <1>2 DEF WatchInv, WatchLoose
  <2>2. ASSUME began.paced
        PROVE  began.acc <= began.period /\ \E k \in Nat, a \in 0..(began.period - 1) : Elapsed(began, k, a)
    <3>1. dev.acc < dev.period
      BY <1>2, <2>2 DEF WatchInv
    <3>2. PICK k \in Nat, a \in 0..(dev.period - 1) : Elapsed(dev, k, a)
      BY <1>2, <2>2 DEF WatchInv, WatchLoose
    <3>3. dev.period \in Nat \ {0} /\ dev.acc \in Nat
      BY DEF WatchInv, WatchLoose
    <3>4. began.age = k * began.period + began.acc - a
      <4>. DEFINE q == k * dev.period
      <4>1. q \in Int /\ dev.age = q + dev.acc - a /\ k * began.period = q
        BY <1>2, <3>2, <3>3 DEF Elapsed
      <4>. HIDE DEF q
      <4>. QED
        BY <1>2, <3>3, <4>1
    <3>5. Elapsed(began, k, a) /\ a \in 0..(began.period - 1)
      BY <1>2, <3>2, <3>4 DEF Elapsed
    <3>. QED
      BY <1>2, <3>1, <3>3, <3>5
  <2>. QED
    BY <1>2, <2>1, <2>2 DEF WatchLoose
<1>4. N \in Nat \ {0}
  <2>1. dev.acc \in Nat
    BY DEF WatchInv, WatchLoose
  <2>. HIDE DEF after, began, Is
  <2>. QED
    BY <1>2, <2>1
<1>5. \A f : Is(f) <=> Rounds(f, began, N)
  BY DEF Rounds, Round
<1>6. after = CHOOSE f : Is(f)
  OBVIOUS
<1>. HIDE DEF after, began, N
<1>7. \E f : Is(f)
  BY <1>4, <1>5, RoundsExist
<1>. HIDE DEF Is
<1>8. Is(after)
  BY <1>6, <1>7
<1>. QED
  BY <1>1, <1>2, <1>3, <1>4, <1>5, <1>8, RoundsKeep

\* Every step of the watchdog keeps the invariant.
LEMMA WatchStep ==
    ASSUME WatchInv(dev), W!Next
    PROVE  WatchInv(dev')
<1>0. /\ dev = [f \in WatchFields |-> dev[f]] /\ dev.period \in Nat \ {0} /\ dev.acc \in Nat /\ dev.wrong = FALSE
      /\ WatchdogPeriods \subseteq Nat \ {0} /\ Loads \subseteq Nat
  BY WatchdogAssumption DEF WatchInv, WatchLoose
<1>1. CASE W!Clock
  BY <1>1, WatchCycle
<1>2. CASE W!WriteCtrl
  <2>1. PICK alias \in {"plain", "set", "clear", "xor"}, bits \in {{"ENABLE"}, {"TRIGGER"}, {"PAUSE"}} :
            W!WriteCtrl!(alias, bits)
    BY <1>2 DEF W!WriteCtrl
  <2>. DEFINE value == W!Combined(alias, W!ReadCtrl, bits)
              new == [dev EXCEPT !.ctrl = value, !.enabled = "ENABLE" \in value]
              off == [new EXCEPT !.reason = "force", !.enabled = FALSE]
  <2>2. dev' = IF "TRIGGER" \in value THEN W!Counted(off, 0) ELSE new
    BY <2>1 DEF W!FireReset
  <2>. HIDE DEF value
  <2>3. /\ new = [f \in WatchFields |-> new[f]]
        /\ \A f \in WatchFields \ {"ctrl", "enabled"} : new[f] = dev[f]
    BY <1>0 DEF WatchFields
  <2>4. off = [f \in WatchFields |-> off[f]] /\ off.period \in Nat \ {0} /\ off.acc \in Nat /\ off.wrong = FALSE
    BY <1>0 DEF WatchFields
  <2>. HIDE DEF new, off
  <2>5. CASE "TRIGGER" \in value
    BY <2>2, <2>4, <2>5, CountsAnew
  <2>6. CASE ~("TRIGGER" \in value)
    <3>1. /\ new = [f \in WatchFields |-> new[f]] /\ new.period = dev.period /\ new.acc = dev.acc
          /\ new.counter = dev.counter /\ new.age = dev.age /\ new.fed = dev.fed /\ new.paced = dev.paced
          /\ new.wrong = dev.wrong
      BY <2>3 DEF WatchFields
    <3>2. WatchInv(new)
      BY <3>1 DEF WatchInv, WatchLoose, Elapsed
    <3>. QED
      BY <2>2, <2>6, <3>2
  <2>. QED
    BY <2>5, <2>6
<1>3. CASE W!Feed
  <2>1. PICK load \in Loads : W!Feed!(load)
    BY <1>3 DEF W!Feed
  <2>. QED
    BY <1>0, <2>1, CountsAnew
<1>4. CASE W!SetPeriod
  <2>1. PICK p \in WatchdogPeriods \ {dev.period} : W!SetPeriod!(p)
    BY <1>4 DEF W!SetPeriod
  <2>. DEFINE v == [dev EXCEPT !.period = p, !.paced = FALSE]
  <2>2. /\ v = [f \in WatchFields |-> v[f]] /\ v.period = p /\ v.acc = dev.acc /\ v.counter = dev.counter
        /\ v.age = dev.age /\ v.fed = dev.fed /\ v.paced = FALSE /\ v.wrong = FALSE
    BY <1>0 DEF WatchFields
  <2>3. dev' = v
    BY <2>1
  <2>. HIDE DEF v
  <2>4. WatchInv(v)
    BY <1>0, <2>2 DEF WatchInv, WatchLoose
  <2>. QED
    BY <2>3, <2>4
<1>5. CASE W!Rest
  BY <1>5 DEF W!Rest, W!vars
<1>. QED
  BY <1>1, <1>2, <1>3, <1>4, <1>5 DEF W!Next

LEMMA WatchBegins == ASSUME W!Init PROVE WatchInv(dev)
<1>1. PICK p \in WatchdogPeriods : W!Init!1!(p)
  BY DEF W!Init
<1>2. p \in Nat \ {0}
  BY WatchdogAssumption
<1>3. /\ dev = [f \in WatchFields |-> dev[f]] /\ dev.period = p /\ dev.acc = 0 /\ dev.counter = 0
      /\ dev.age = 0 /\ dev.fed = 0 /\ dev.wrong = FALSE
  BY <1>1 DEF WatchFields
<1>4. Elapsed(dev, 0, 0)
  BY <1>2, <1>3 DEF Elapsed
<1>. QED
  BY <1>2, <1>3, <1>4 DEF WatchInv, WatchLoose

\* What the invariant says of the watchdog
LEMMA WatchOnTime == ASSUME WatchInv(dev) PROVE W!OnTime
<1>1. ASSUME dev.paced PROVE dev.age < W!Ticks(dev.fed) * dev.period
  <2>1. PICK k \in Nat, a \in 0..(dev.period - 1) : Elapsed(dev, k, a)
    BY <1>1 DEF WatchInv, WatchLoose
  <2>. DEFINE p == dev.period
              t == W!Ticks(dev.fed)
              q == k * p
  <2>2. p \in Nat \ {0} /\ dev.acc \in Nat /\ dev.acc < p /\ dev.fed \in Nat /\ dev.age = q + dev.acc - a
        /\ (k > 0 => dev.fed > 2 * k)
    BY <1>1, <2>1 DEF WatchInv, WatchLoose, Elapsed
  <2>3. t \in Nat /\ k + 1 <= t
    BY <2>2, LastTick
  <2>. HIDE DEF t
  <2>4. t * p >= (k + 1) * p
    BY <2>2, <2>3
  <2>5. (k + 1) * p = q + p /\ q \in Int /\ t * p \in Int
    BY <2>2, <2>3
  <2>. HIDE DEF q
  <2>6. dev.age < t * p
    <3>. DEFINE r == t * p
    <3>1. r >= q + p /\ r \in Int
      BY <2>4, <2>5
    <3>. HIDE DEF r
    <3>2. dev.age < r
      BY <2>2, <2>5, <3>1
    <3>. QED
      BY <3>2 DEF r
  <2>. QED
    BY <2>6 DEF t
<1>. QED
  BY <1>1 DEF W!OnTime, WatchInv, WatchLoose

-----------------------------------------------------------------------------
(* The alarm of the real-time clock rings at its second *)

\* The calendar whose years begin in March
MarchYear(t) == IF t.month <= 2 THEN t.year - 1 ELSE t.year
MarchMonth(t) == (t.month + 9) % 12
YearStart(y) == 365 * y + y \div 4 - y \div 100 + y \div 400
MonthStart(m) == (153 * m + 2) \div 5

\* Its years follow each other, and so do its months.
LEMMA YearsGrow ==
    ASSUME NEW x \in Int, NEW y \in Int, x <= y
    PROVE  YearStart(x) \in Int /\ YearStart(y) \in Int /\ YearStart(x) <= YearStart(y)
<1>. DEFINE x1 == x \div 4
            x2 == x \div 100
            x3 == x \div 400
            y1 == y \div 4
            y2 == y \div 100
            y3 == y \div 400
<1>1. /\ x1 \in Int /\ x2 \in Int /\ x3 \in Int /\ y1 \in Int /\ y2 \in Int /\ y3 \in Int
  OBVIOUS
<1>2. x1 <= y1
  OBVIOUS
<1>3. x3 <= y3
  OBVIOUS
<1>4. y2 - x2 <= y - x
  OBVIOUS
<1>5. YearStart(x) = 365 * x + x1 - x2 + x3 /\ YearStart(y) = 365 * y + y1 - y2 + y3
  BY DEF YearStart
<1>. HIDE DEF x1, x2, x3, y1, y2, y3
<1>. QED
  BY <1>1, <1>2, <1>3, <1>4, <1>5

LEMMA YearLength ==
    ASSUME NEW y \in Int
    PROVE  YearStart(y) + 365 <= YearStart(y + 1)
<1>. DEFINE x1 == y \div 4
            x2 == y \div 100
            x3 == y \div 400
            y1 == (y + 1) \div 4
            y2 == (y + 1) \div 100
            y3 == (y + 1) \div 400
<1>1. /\ x1 \in Int /\ x2 \in Int /\ x3 \in Int /\ y1 \in Int /\ y2 \in Int /\ y3 \in Int
  OBVIOUS
<1>2. x1 <= y1 /\ x3 <= y3
  OBVIOUS
<1>3. y2 = x2 \/ (y2 = x2 + 1 /\ y1 = x1 + 1)
  OBVIOUS
<1>4. YearStart(y) = 365 * y + x1 - x2 + x3 /\ YearStart(y + 1) = 365 * (y + 1) + y1 - y2 + y3
  BY DEF YearStart
<1>. HIDE DEF x1, x2, x3, y1, y2, y3
<1>. QED
  BY <1>1, <1>2, <1>3, <1>4

LEMMA MonthStarts ==
    /\ MonthStart(0) = 0 /\ MonthStart(1) = 31 /\ MonthStart(2) = 61 /\ MonthStart(3) = 92
    /\ MonthStart(4) = 122 /\ MonthStart(5) = 153 /\ MonthStart(6) = 184 /\ MonthStart(7) = 214
    /\ MonthStart(8) = 245 /\ MonthStart(9) = 275 /\ MonthStart(10) = 306 /\ MonthStart(11) = 337
BY DEF MonthStart

LEMMA MonthTyped == ASSUME NEW m \in 0..11 PROVE MonthStart(m) \in 0..337
BY MonthStarts

LEMMA YearTyped == ASSUME NEW y \in Int PROVE YearStart(y) \in Int
BY DEF YearStart

LEMMA MonthsGrow ==
    ASSUME NEW m \in 0..11, NEW n \in 0..11, m <= n
    PROVE  MonthStart(m) \in 0..337 /\ MonthStart(n) \in 0..337 /\ MonthStart(m) <= MonthStart(n)
BY MonthStarts

\* The parts of a date
LEMMA MarchDate ==
    ASSUME NEW t, TimeType(t), R!Valid(t)
    PROVE  /\ MarchYear(t) \in Int /\ MarchMonth(t) \in 0..11 /\ t.day \in Nat /\ t.day >= 1
           /\ YearStart(MarchYear(t)) \in Int /\ MonthStart(MarchMonth(t)) \in 0..337
           /\ R!DayNumber(t) = YearStart(MarchYear(t)) + MonthStart(MarchMonth(t)) + t.day
           /\ MarchMonth(t) < 11 => MonthStart(MarchMonth(t)) + t.day <= MonthStart(MarchMonth(t) + 1)
           /\ YearStart(MarchYear(t)) + MonthStart(MarchMonth(t)) + t.day <= YearStart(MarchYear(t) + 1)
<1>. DEFINE y == MarchYear(t)
            m == MarchMonth(t)
<1>1. /\ t.year \in Nat /\ t.month \in 1..12 /\ t.day \in Nat /\ t.day >= 1 /\ t.day <= R!DaysInMonth(t.year, t.month)
  BY DEF R!Valid, TimeType
<1>2. y \in Int /\ m \in 0..11
  BY <1>1 DEF MarchYear, MarchMonth
<1>3. R!DayNumber(t) = YearStart(y) + MonthStart(m) + t.day
  BY DEF R!DayNumber, MarchYear, MarchMonth, YearStart, MonthStart
<1>4. /\ t.month = 3 => m = 0
      /\ t.month = 4 => m = 1
      /\ t.month = 5 => m = 2
      /\ t.month = 6 => m = 3
      /\ t.month = 7 => m = 4
      /\ t.month = 8 => m = 5
      /\ t.month = 9 => m = 6
      /\ t.month = 10 => m = 7
      /\ t.month = 11 => m = 8
      /\ t.month = 12 => m = 9
      /\ t.month = 1 => m = 10
      /\ t.month = 2 => m = 11
  BY DEF MarchMonth
<1>4a. YearStart(y) \in Int /\ MonthStart(m) \in 0..337
  <2>. HIDE DEF y, m
  <2>. QED
    BY <1>2, YearTyped, MonthTyped
<1>5. CASE t.month # 2
  <2>1. t.day <= (IF t.month \in {4, 6, 9, 11} THEN 30 ELSE 31)
    BY <1>1, <1>5, MonthLengths
  <2>2. m < 11
    BY <1>1, <1>4, <1>5
  <2>. HIDE DEF m, y
  <2>3. MonthStart(m) + t.day <= MonthStart(m + 1)
    BY <1>1, <1>4, <1>5, <2>1, MonthStarts
  <2>4. MonthStart(m + 1) <= 337 /\ MonthStart(m) \in Int /\ MonthStart(m + 1) \in Int
    <3>1. m + 1 \in 0..11
      BY <1>2, <2>2
    <3>2. MonthStart(m) \in 0..337
      BY <1>2, MonthTyped
    <3>3. MonthStart(m + 1) \in 0..337
      BY <3>1, MonthTyped
    <3>. QED
      BY <3>2, <3>3
  <2>5. YearStart(y) + 365 <= YearStart(y + 1) /\ YearStart(y) \in Int /\ YearStart(y + 1) \in Int
    BY <1>2, YearLength, YearsGrow
  <2>6. YearStart(y) + MonthStart(m) + t.day <= YearStart(y + 1)
    BY <1>1, <2>3, <2>4, <2>5
  <2>. QED
    BY <1>1, <1>2, <1>3, <1>4a, <2>3, <2>6 DEF y, m
<1>6. CASE t.month = 2
  <2>. DEFINE x == t.year
  <2>1. y = x - 1 /\ m = 11 /\ y + 1 = x /\ x \in Nat
    BY <1>1, <1>4, <1>6 DEF MarchYear
  <2>2. t.day <= (IF x % 4 = 0 /\ (x % 100 # 0 \/ x % 400 = 0) THEN 29 ELSE 28)
    BY <1>1, <1>6, MonthLengths
  <2>3. YearStart(x) = YearStart(x - 1) + (IF x % 4 = 0 /\ (x % 100 # 0 \/ x % 400 = 0) THEN 366 ELSE 365)
    <3>0. x \in Nat
      BY <2>1
    <3>. HIDE DEF x
    <3>. DEFINE x1 == x \div 4
                x2 == x \div 100
                x3 == x \div 400
                y1 == (x - 1) \div 4
                y2 == (x - 1) \div 100
                y3 == (x - 1) \div 400
                k1 == x % 4
                k2 == x % 100
                k3 == x % 400
    <3>1. /\ x1 \in Int /\ x2 \in Int /\ x3 \in Int /\ y1 \in Int /\ y2 \in Int /\ y3 \in Int
      BY <3>0
    <3>2. /\ (k1 = 0 => x1 = y1 + 1) /\ (k1 # 0 => x1 = y1)
          /\ (k2 = 0 => x2 = y2 + 1) /\ (k2 # 0 => x2 = y2)
          /\ (k3 = 0 => x3 = y3 + 1) /\ (k3 # 0 => x3 = y3)
          /\ (k2 = 0 => k1 = 0) /\ (k3 = 0 => k2 = 0)
      BY <3>0, LeapYears
    <3>3. YearStart(x) = 365 * x + x1 - x2 + x3 /\ YearStart(x - 1) = 365 * (x - 1) + y1 - y2 + y3
      BY DEF YearStart
    <3>. HIDE DEF x1, x2, x3, y1, y2, y3, k1, k2, k3
    <3>4. YearStart(x) = YearStart(x - 1) + (IF k1 = 0 /\ (k2 # 0 \/ k3 = 0) THEN 366 ELSE 365)
      BY <3>0, <3>1, <3>2, <3>3
    <3>. QED
      BY <3>4 DEF k1, k2, k3
  <2>4. YearStart(x - 1) \in Int /\ MonthStart(11) = 337
    BY <2>1, YearsGrow, MonthStarts
  <2>5. YearStart(y) + MonthStart(m) + t.day <= YearStart(y + 1)
    BY <1>1, <2>1, <2>2, <2>3, <2>4
  <2>. QED
    BY <1>1, <1>2, <1>3, <1>4a, <2>1, <2>5
<1>. QED
  BY <1>5, <1>6

\* An earlier year or month makes an earlier day.
LEMMA EarlierDay ==
    ASSUME NEW a, TimeType(a), R!Valid(a), NEW b, TimeType(b), R!Valid(b),
           MarchYear(a) < MarchYear(b) \/ (MarchYear(a) = MarchYear(b) /\ MarchMonth(a) < MarchMonth(b))
    PROVE  R!DayNumber(a) < R!DayNumber(b)
<1>. DEFINE ya == MarchYear(a)
            ma == MarchMonth(a)
            yb == MarchYear(b)
            mb == MarchMonth(b)
            da == a.day
            db == b.day
<1>1. /\ ya \in Int /\ ma \in 0..11 /\ da \in Nat /\ yb \in Int /\ mb \in 0..11 /\ db \in Nat /\ da >= 1 /\ db >= 1
      /\ R!DayNumber(a) = YearStart(ya) + MonthStart(ma) + da
      /\ R!DayNumber(b) = YearStart(yb) + MonthStart(mb) + db
      /\ ma < 11 => MonthStart(ma) + da <= MonthStart(ma + 1)
      /\ YearStart(ya) + MonthStart(ma) + da <= YearStart(ya + 1)
  BY MarchDate
<1>2. ya < yb \/ (ya = yb /\ ma < mb)
  OBVIOUS
<1>3. YearStart(ya) \in Int /\ YearStart(yb) \in Int /\ MonthStart(ma) \in 0..337 /\ MonthStart(mb) \in 0..337
  BY MarchDate
<1>. HIDE DEF ya, ma, yb, mb, da, db
<1>. DEFINE sa == YearStart(ya)
            sb == YearStart(yb)
            ga == MonthStart(ma)
            gb == MonthStart(mb)
<1>4. CASE ya < yb
  <2>. DEFINE sc == YearStart(ya + 1)
  <2>1. ya + 1 \in Int /\ ya + 1 <= yb
    BY <1>1, <1>4
  <2>2. sc <= sb /\ sc \in Int
    BY <1>1, <2>1, YearsGrow
  <2>3. sa + ga + da <= sc /\ sa \in Int /\ sb \in Int /\ ga \in 0..337 /\ gb \in 0..337
    BY <1>1, <1>3
  <2>. HIDE DEF sa, sb, ga, gb, sc
  <2>4. sa + ga + da < sb + gb + db
    BY <1>1, <2>2, <2>3
  <2>. QED
    BY <1>1, <2>4 DEF sa, sb, ga, gb
<1>5. CASE ya = yb /\ ma < mb
  <2>. DEFINE gc == MonthStart(ma + 1)
  <2>1. ma + 1 \in 0..11 /\ mb \in 0..11 /\ ma + 1 <= mb /\ ma < 11
    BY <1>1, <1>5
  <2>2. gc <= gb /\ gc \in Int
    <3>1. gc \in 0..337 /\ gc <= gb
      BY ONLY <2>1, MonthsGrow
    <3>. QED
      BY <3>1
  <2>3. ga + da <= gc /\ sa \in Int /\ sb = sa /\ ga \in 0..337 /\ gb \in 0..337
    BY <1>1, <1>3, <1>5, <2>1
  <2>. HIDE DEF sa, sb, ga, gb, gc
  <2>4. sa + ga + da < sb + gb + db
    BY <1>1, <2>2, <2>3
  <2>. QED
    BY <1>1, <2>4 DEF sa, sb, ga, gb
<1>. QED
  BY <1>2, <1>4, <1>5

\* The number of a day is that of one day only.
LEMMA SameDay ==
    ASSUME NEW a, TimeType(a), R!Valid(a), NEW b, TimeType(b), R!Valid(b), R!DayNumber(a) = R!DayNumber(b)
    PROVE  a.year = b.year /\ a.month = b.month /\ a.day = b.day
<1>1. /\ MarchYear(a) \in Int /\ MarchMonth(a) \in 0..11 /\ a.day \in Nat
      /\ R!DayNumber(a) = YearStart(MarchYear(a)) + MonthStart(MarchMonth(a)) + a.day
      /\ MarchYear(b) \in Int /\ MarchMonth(b) \in 0..11 /\ b.day \in Nat
      /\ R!DayNumber(b) = YearStart(MarchYear(b)) + MonthStart(MarchMonth(b)) + b.day
  BY MarchDate
<1>2. R!DayNumber(a) \in Int /\ R!DayNumber(b) \in Int
  BY IntegerDay DEF TimeType
<1>3. ~(R!DayNumber(a) < R!DayNumber(b)) /\ ~(R!DayNumber(b) < R!DayNumber(a))
  BY <1>2
<1>4. MarchYear(a) = MarchYear(b) /\ MarchMonth(a) = MarchMonth(b)
  <2>1. ~(MarchYear(a) < MarchYear(b)) /\ ~(MarchYear(b) < MarchYear(a))
    BY <1>3, EarlierDay
  <2>2. MarchYear(a) = MarchYear(b)
    BY <1>1, <2>1
  <2>3. ~(MarchMonth(a) < MarchMonth(b)) /\ ~(MarchMonth(b) < MarchMonth(a))
    BY <1>3, <2>2, EarlierDay
  <2>. QED
    BY <1>1, <2>2, <2>3
<1>5. a.month \in 1..12 /\ b.month \in 1..12 /\ a.year \in Nat /\ b.year \in Nat
  BY DEF R!Valid, TimeType
<1>6. a.month = b.month
  BY <1>4, <1>5 DEF MarchMonth
<1>7. a.year = b.year
  BY <1>4, <1>5, <1>6 DEF MarchYear
<1>8. a.day = b.day
  <2>. DEFINE g == YearStart(MarchYear(a)) + MonthStart(MarchMonth(a))
  <2>1. g \in Int
    <3>1. YearStart(MarchYear(a)) \in Int /\ MonthStart(MarchMonth(a)) \in 0..337
      BY MarchDate
    <3>. QED
      BY <3>1
  <2>2. R!DayNumber(a) = g + a.day /\ R!DayNumber(b) = g + b.day
    BY <1>1, <1>4
  <2>. HIDE DEF g
  <2>3. g + a.day = g + b.day
    BY <2>2
  <2>4. a.day \in Nat /\ b.day \in Nat
    BY <1>1
  <2>. QED
    BY <2>1, <2>3, <2>4
<1>. QED
  BY <1>6, <1>7, <1>8

\* Numbers with a last digit are the same when both parts are.
LEMMA SameDigits ==
    ASSUME NEW n \in Nat \ {0}, NEW x \in Int, NEW y \in Int, NEW i \in 0..(n - 1), NEW j \in 0..(n - 1),
           x * n + i = y * n + j
    PROVE  x = y /\ i = j
<1>1. (x * n + i) \div n = x /\ (y * n + j) \div n = y
  BY QuotientIs
<1>2. (x * n + i) % n = i /\ (y * n + j) % n = j
  BY Residue
<1>. QED
  BY <1>1, <1>2

LEMMA IntegerSeconds ==
    ASSUME NEW t, TimeType(t)
    PROVE  R!Seconds(t) \in Int
<1>. DEFINE n == R!DayNumber(t)
            h == n * Day + t.hour
            m == h * Hour + t.min
<1>1. R!Seconds(t) = m * Minute + t.sec
  BY DEF R!Seconds
<1>2. n \in Int /\ t.hour \in Nat /\ t.min \in Nat /\ t.sec \in Nat
  BY IntegerDay DEF TimeType
<1>. HIDE DEF n
<1>3. h \in Int
  BY <1>2, ClockAssumption
<1>. HIDE DEF h
<1>4. m \in Int
  BY <1>2, <1>3, ClockAssumption
<1>. HIDE DEF m
<1>. QED
  BY <1>1, <1>2, <1>4, ClockAssumption

\* Valid times are the same when their seconds are.
LEMMA SameSecond ==
    ASSUME NEW a, TimeType(a), R!Valid(a), NEW b, TimeType(b), R!Valid(b)
    PROVE  /\ R!Seconds(a) \in Int /\ R!Seconds(b) \in Int
           /\ R!Seconds(a) = R!Seconds(b) <=> \A f \in TimeFields \ {"dotw"} : a[f] = b[f]
<1>. DEFINE ha == R!DayNumber(a) * Day + a.hour
            hb == R!DayNumber(b) * Day + b.hour
            na == ha * Hour + a.min
            nb == hb * Hour + b.min
<1>1. /\ a.hour \in 0..(Day - 1) /\ b.hour \in 0..(Day - 1) /\ a.min \in 0..(Hour - 1) /\ b.min \in 0..(Hour - 1)
      /\ a.sec \in 0..(Minute - 1) /\ b.sec \in 0..(Minute - 1)
      /\ Day \in Nat \ {0} /\ Hour \in Nat \ {0} /\ Minute \in Nat \ {0}
  BY ClockAssumption DEF R!Valid, TimeType
<1>2. R!DayNumber(a) \in Int /\ R!DayNumber(b) \in Int
  BY IntegerDay DEF TimeType
<1>3. R!Seconds(a) = na * Minute + a.sec /\ R!Seconds(b) = nb * Minute + b.sec
  BY DEF R!Seconds
<1>4. ha \in Int /\ hb \in Int
  BY <1>1, <1>2
<1>5. na \in Int /\ nb \in Int
  <2>. HIDE DEF ha, hb
  <2>. QED  BY <1>1, <1>4
<1>6. ASSUME R!Seconds(a) = R!Seconds(b) PROVE \A f \in TimeFields \ {"dotw"} : a[f] = b[f]
  <2>1. na = nb /\ a.sec = b.sec
    <3>. HIDE DEF na, nb
    <3>. QED  BY <1>1, <1>3, <1>5, <1>6, SameDigits
  <2>2. ha = hb /\ a.min = b.min
    <3>1. ha * Hour + a.min = hb * Hour + b.min
      BY <2>1
    <3>. HIDE DEF ha, hb
    <3>. QED  BY <1>1, <1>4, <3>1, SameDigits
  <2>3. R!DayNumber(a) = R!DayNumber(b) /\ a.hour = b.hour
    <3>. DEFINE da == R!DayNumber(a)
                db == R!DayNumber(b)
    <3>1. da * Day + a.hour = db * Day + b.hour /\ da \in Int /\ db \in Int
      BY <1>2, <2>2
    <3>. HIDE DEF da, db
    <3>2. da = db /\ a.hour = b.hour
      BY <1>1, <3>1, SameDigits
    <3>. QED
      BY <3>2 DEF da, db
  <2>4. a.year = b.year /\ a.month = b.month /\ a.day = b.day
    BY <2>3, SameDay
  <2>. QED
    BY <2>1, <2>2, <2>3, <2>4 DEF TimeFields
<1>7. ASSUME \A f \in TimeFields \ {"dotw"} : a[f] = b[f] PROVE R!Seconds(a) = R!Seconds(b)
  <2>1. /\ a.year = b.year /\ a.month = b.month /\ a.day = b.day /\ a.hour = b.hour /\ a.min = b.min
        /\ a.sec = b.sec
    BY <1>7 DEF TimeFields
  <2>. QED
    BY <2>1 DEF R!Seconds, R!DayNumber
<1>8. R!Seconds(a) \in Int /\ R!Seconds(b) \in Int
  <2>. HIDE DEF na, nb
  <2>. QED  BY <1>1, <1>3, <1>5
<1>. QED
  BY <1>6, <1>7, <1>8

\* The alarm that is set, and whether it is for one second of one day
AlarmOf(r) == [f \in DOMAIN R!First |->
                IF f \in DOMAIN r.date THEN r.date[f] ELSE IF f \in DOMAIN r.moment THEN r.moment[f] ELSE 0]
Full(r) == DOMAIN r.date \cup DOMAIN r.moment = DOMAIN R!First \ {"dotw"}

\* The seconds there were
ClockNow(p) == R!Seconds(p.base) + p.passed
SetFor(r, p) == R!Valid(p.base) /\ Full(r) /\ R!Valid(AlarmOf(r)) /\ p.set # R!Seconds(AlarmOf(r))

Half(h, fields) == DOMAIN h \subseteq fields /\ \A f \in DOMAIN h : h[f] \in Nat
Halves(r) == Half(r.date, {"year", "month", "day"}) /\ Half(r.moment, {"hour", "min", "sec", "dotw"})

AlarmFields == {"now", "date", "moment", "matched"}
SetFields == {"base", "passed", "set", "rung"}

\* The alarm has rung when its second came after it was set.
Alarming(r, p) ==
    /\ AlarmFields \subseteq DOMAIN r /\ SetFields \subseteq DOMAIN p
    /\ Halves(r) /\ r.matched = R!Matched(r)
    /\ p.set \in Int /\ p.set <= ClockNow(p) /\ p.rung \in BOOLEAN
    /\ SetFor(r, p) => (p.rung <=> p.set < R!Seconds(AlarmOf(r)) /\ R!Seconds(AlarmOf(r)) <= ClockNow(p))

\* An alarm is a time.
LEMMA AlarmTyped ==
    ASSUME NEW r, Halves(r)
    PROVE  TimeType(AlarmOf(r))
<1>. DEFINE a == AlarmOf(r)
<1>1. DOMAIN R!First = TimeFields
  BY DEF R!First, TimeFields
<1>2. \A f \in TimeFields : a[f] \in Nat
  BY <1>1 DEF AlarmOf, Halves, Half
<1>3. a = [f \in TimeFields |-> a[f]]
  BY <1>1 DEF AlarmOf
<1>. HIDE DEF a
<1>4. TimeType(a)
  BY <1>2, <1>3 DEF TimeType, TimeFields
<1>. QED
  BY <1>4 DEF a

\* It matches in its own second.
LEMMA MatchedThen ==
    ASSUME NEW r, Halves(r), Full(r), TimeType(r.now), R!Valid(r.now), R!Valid(AlarmOf(r))
    PROVE  R!Matched(r) <=> R!Seconds(r.now) = R!Seconds(AlarmOf(r))
<1>. DEFINE a == AlarmOf(r)
            named == TimeFields \ {"dotw"}
<1>1. DOMAIN R!First = TimeFields
  BY DEF R!First, TimeFields
<1>2. DOMAIN r.date \cup DOMAIN r.moment = named
  BY <1>1 DEF Full
<1>3. DOMAIN r.date \cap DOMAIN r.moment = {}
  BY DEF Halves, Half
<1>4. \A f \in named : a[f] = IF f \in DOMAIN r.date THEN r.date[f] ELSE r.moment[f]
  BY <1>1, <1>2 DEF AlarmOf
<1>5. DOMAIN r.date # {} \/ DOMAIN r.moment # {}
  <2>1. "sec" \in named
    BY DEF TimeFields
  <2>. QED
    BY <1>2, <2>1
<1>. HIDE DEF a, named
<1>6. R!Matched(r) <=> \A f \in named : a[f] = r.now[f]
  BY <1>2, <1>3, <1>4, <1>5 DEF R!Matched, R!Matches
<1>7. R!Matched(r) <=> \A f \in named : r.now[f] = a[f]
  BY <1>6
<1>8. TimeType(a)
  BY AlarmTyped DEF a
<1>. QED
  BY <1>7, <1>8, SameSecond DEF a, named

\* What check_alarm leaves, and what it notes
LEMMA CheckAlarmNotes ==
    ASSUME NEW r, AlarmFields \subseteq DOMAIN r
    PROVE  LET c == R!CheckAlarm(r)
           IN  /\ AlarmFields \subseteq DOMAIN c /\ c.now = r.now /\ c.date = r.date /\ c.moment = r.moment
               /\ c.matched = R!Matched(c)
<1>. DEFINE c == R!CheckAlarm(r)
<1>1. /\ AlarmFields \subseteq DOMAIN c /\ c.now = r.now /\ c.date = r.date /\ c.moment = r.moment
      /\ c.matched = R!Matched(r)
  BY DEF R!CheckAlarm, AlarmFields
<1>. HIDE DEF c
<1>2. R!Matched(c) = R!Matched(r)
  BY <1>1 DEF R!Matched
<1>. QED
  BY <1>1, <1>2 DEF c

\* What leaves the time, the alarm and what was noted of it
LEMMA StillSet ==
    ASSUME NEW r, NEW p, Alarming(r, p),
           NEW q, AlarmFields \subseteq DOMAIN q, q.now = r.now, q.date = r.date, q.moment = r.moment,
           q.matched = R!Matched(q),
           NEW w, SetFields \subseteq DOMAIN w, \A f \in SetFields : w[f] = p[f]
    PROVE  Alarming(q, w)
<1>1. w.base = p.base /\ w.passed = p.passed /\ w.set = p.set /\ w.rung = p.rung
  BY DEF SetFields
<1>2. AlarmOf(q) = AlarmOf(r) /\ (Full(q) <=> Full(r)) /\ ClockNow(w) = ClockNow(p)
  BY <1>1 DEF AlarmOf, Full, ClockNow
<1>3. SetFor(q, w) <=> SetFor(r, p)
  BY <1>1, <1>2 DEF SetFor
<1>. QED
  BY <1>1, <1>2, <1>3 DEF Alarming, Halves

\* An alarm that is set now has not rung.
LEMMA SetNow ==
    ASSUME NEW r, AlarmFields \subseteq DOMAIN r, Halves(r), r.matched = R!Matched(r),
           NEW p, SetFields \subseteq DOMAIN p, p.set = ClockNow(p), p.set \in Int, p.rung = FALSE
    PROVE  Alarming(r, p)
<1>1. Halves(r) => TimeType(AlarmOf(r))
  BY AlarmTyped
<1>2. ASSUME SetFor(r, p)
      PROVE  ~(p.set < R!Seconds(AlarmOf(r)) /\ R!Seconds(AlarmOf(r)) <= ClockNow(p))
  <2>1. R!Seconds(AlarmOf(r)) \in Int
    BY <1>1, <1>2, SameSecond DEF SetFor
  <2>. QED
    BY <2>1
<1>3. p.set <= ClockNow(p)
  OBVIOUS
<1>4. p.rung \in BOOLEAN /\ ~p.rung
  OBVIOUS
<1>. QED
  BY <1>2, <1>3, <1>4 DEF Alarming

\* The clock starts without an alarm.
LEMMA AlarmBegins ==
    ASSUME NEW div, NEW k, NEW w
    PROVE  /\ Alarming(R!Cleared(div), R!Fresh(k, w))
           /\ Alarming(R!CheckAlarm(R!Cleared(div)), R!Fresh(k, w))
<1>. DEFINE r == R!Cleared(div)
            c == R!CheckAlarm(r)
            p == R!Fresh(k, w)
<1>1. AlarmFields \subseteq DOMAIN r /\ r.date = R!Nothing /\ r.moment = R!Nothing /\ r.matched = FALSE
  BY DEF R!Cleared, AlarmFields
<1>2. SetFields \subseteq DOMAIN p /\ p.base = R!First /\ p.passed = 0 /\ p.set = R!Seconds(R!First) /\ p.rung = FALSE
  BY DEF R!Fresh, SetFields
<1>3. R!Seconds(R!First) \in Int
  BY FirstTime, IntegerSeconds
<1>4. p.set = ClockNow(p) /\ p.set \in Int
  BY <1>2, <1>3 DEF ClockNow
<1>. HIDE DEF r, p
<1>5. Halves(r) /\ ~R!Matched(r)
  BY <1>1 DEF Halves, Half, R!Matched, R!Nothing
<1>6. r.matched = R!Matched(r)
  <2>1. R!Matched(r) = FALSE
    BY <1>5, Zenon DEF R!Matched
  <2>. QED
    BY <1>1, <2>1
<1>7. /\ AlarmFields \subseteq DOMAIN c /\ c.now = r.now /\ c.date = r.date /\ c.moment = r.moment
      /\ c.matched = R!Matched(c)
  BY <1>1, CheckAlarmNotes
<1>. HIDE DEF c
<1>8. Halves(c)
  BY <1>5, <1>7 DEF Halves
<1>9. Alarming(r, p) /\ Alarming(c, p)
  BY <1>1, <1>2, <1>4, <1>5, <1>6, <1>7, <1>8, SetNow
<1>. QED
  BY <1>9 DEF r, c, p

\* A second that passes
LEMMA AlarmClock ==
    ASSUME Timekeeping(dev, past), Alarming(dev, past), R!Clock, Timekeeping(dev', past')
    PROVE  Alarming(dev', past')
<1>0. AlarmFields \subseteq DOMAIN dev /\ SetFields \subseteq DOMAIN past
  BY DEF Alarming
<1>1. CASE dev.count + 1 > dev.div
  <2>. DEFINE t == [dev EXCEPT !.count = 0, !.now = R!TickSecond(@)]
              rings == R!Rings(t)
  <2>1. /\ dev' = R!CheckAlarm(t)
        /\ past' = [past EXCEPT !.passed = @ + 1, !.seconds = @ - 1, !.rung = @ \/ rings]
    BY <1>1 DEF R!Clock
  <2>2. /\ AlarmFields \subseteq DOMAIN t /\ t.date = dev.date /\ t.moment = dev.moment
        /\ t.matched = dev.matched
    BY <1>0 DEF AlarmFields
  <2>3. rings <=> R!Matched(t) /\ ~R!Matched(dev)
    <3>1. t.matched = R!Matched(dev)
      BY <2>2 DEF Alarming
    <3>. HIDE DEF t
    <3>. QED
      BY <3>1, Zenon DEF R!Rings
  <2>. HIDE DEF t, rings
  <2>4. /\ AlarmFields \subseteq DOMAIN dev' /\ dev'.now = t.now /\ dev'.date = dev.date
        /\ dev'.moment = dev.moment /\ dev'.matched = R!Matched(dev')
    BY <2>1, <2>2, CheckAlarmNotes
  <2>5. /\ SetFields \subseteq DOMAIN past' /\ past'.base = past.base /\ past'.set = past.set
        /\ past'.passed = past.passed + 1
    BY <1>0, <2>1 DEF SetFields
  <2>6. past'.rung = (past.rung \/ rings)
    BY <1>0, <2>1 DEF SetFields
  <2>7. past'.rung \in BOOLEAN /\ (past'.rung <=> past.rung \/ rings)
    BY <2>6, Zenon
  <2>8. Halves(dev) /\ Halves(dev') /\ past.set \in Int /\ past.set <= ClockNow(past)
    BY <2>4 DEF Alarming, Halves
  <2>9. TimeType(past.base) /\ past.passed \in Nat
    BY DEF Timekeeping
  <2>10. ClockNow(past) \in Int /\ ClockNow(past') = ClockNow(past) + 1
    <3>. DEFINE s == R!Seconds(past.base)
    <3>1. s \in Int
      BY <2>9, IntegerSeconds
    <3>2. ClockNow(past) = s + past.passed /\ ClockNow(past') = s + (past.passed + 1)
      BY <2>5 DEF ClockNow
    <3>. HIDE DEF s
    <3>. QED
      BY <2>9, <3>1, <3>2
  <2>11. AlarmOf(dev') = AlarmOf(dev) /\ AlarmOf(t) = AlarmOf(dev) /\ (Full(dev') <=> Full(dev)) /\ (Full(t) <=> Full(dev))
    BY <2>2, <2>4 DEF AlarmOf, Full
  <2>. DEFINE x == R!Seconds(AlarmOf(dev))
              k == ClockNow(past)
  <2>12. ASSUME SetFor(dev', past')
         PROVE  past'.rung <=> past'.set < x /\ x <= k + 1
    <3>1. SetFor(dev, past) /\ R!Valid(past.base) /\ R!Valid(past'.base) /\ Full(dev) /\ R!Valid(AlarmOf(dev))
      BY <2>5, <2>11, <2>12 DEF SetFor
    <3>2. /\ TimeType(dev.now) /\ R!Valid(dev.now) /\ R!Seconds(dev.now) = k
          /\ TimeType(dev'.now) /\ R!Valid(dev'.now) /\ R!Seconds(dev'.now) = k + 1
      BY <2>10, <3>1 DEF Timekeeping, ClockNow
    <3>3. R!Matched(dev) <=> k = x
      BY <2>8, <3>1, <3>2, MatchedThen
    <3>4. R!Matched(t) <=> k + 1 = x
      <4>1. Halves(t) /\ Full(t) /\ TimeType(t.now) /\ R!Valid(t.now) /\ R!Valid(AlarmOf(t))
        BY <2>2, <2>4, <2>8, <2>11, <3>1, <3>2 DEF Halves
      <4>2. R!Matched(t) <=> R!Seconds(t.now) = R!Seconds(AlarmOf(t))
        BY <4>1, MatchedThen
      <4>. QED
        BY <2>4, <2>11, <3>2, <4>2
    <3>5. x \in Int
      BY <2>8, <3>1, AlarmTyped, SameSecond
    <3>6. past.rung <=> past.set < x /\ x <= k
      BY <3>1 DEF Alarming
    <3>7. past'.rung <=> (past.set < x /\ x <= k) \/ (k + 1 = x /\ ~(k = x))
      BY <2>3, <2>7, <3>3, <3>4, <3>6
    <3>. HIDE DEF x, k
    <3>8. past.set \in Int /\ past.set <= k /\ k \in Int
      BY <2>8, <2>10 DEF k
    <3>9. (past.set < x /\ x <= k) \/ (k + 1 = x /\ ~(k = x)) <=> past.set < x /\ x <= k + 1
      BY <3>5, <3>8
    <3>. QED
      BY <2>5, <3>7, <3>9
  <2>13. past'.set \in Int /\ past'.set <= ClockNow(past')
    BY <2>5, <2>8, <2>10
  <2>. QED
    BY <2>4, <2>5, <2>7, <2>8, <2>10, <2>11, <2>12, <2>13 DEF Alarming
<1>2. CASE ~(dev.count + 1 > dev.div)
  <2>1. dev' = [dev EXCEPT !.count = @ + 1] /\ past' = past
    BY <1>2 DEF R!Clock
  <2>2. /\ AlarmFields \subseteq DOMAIN dev' /\ dev'.now = dev.now /\ dev'.date = dev.date /\ dev'.moment = dev.moment
        /\ dev'.matched = dev.matched
    BY <1>0, <2>1 DEF AlarmFields
  <2>3. R!Matched(dev') = R!Matched(dev)
    BY <2>2 DEF R!Matched
  <2>4. dev'.matched = R!Matched(dev')
    BY <2>2, <2>3 DEF Alarming
  <2>. QED
    BY <1>0, <2>1, <2>2, <2>4, StillSet
<1>. QED
  BY <1>1, <1>2

\* Every step of the real-time clock keeps it.
LEMMA AlarmStep ==
    ASSUME Timekeeping(dev, past), Alarming(dev, past), R!Next, Timekeeping(dev', past')
    PROVE  Alarming(dev', past')
<1>0. /\ AlarmFields \subseteq DOMAIN dev /\ SetFields \subseteq DOMAIN past /\ dev.matched = R!Matched(dev)
      /\ past.rung \in BOOLEAN /\ Halves(dev)
  BY DEF Alarming
<1>1. ASSUME NEW new, AlarmFields \subseteq DOMAIN new, \A f \in AlarmFields : new[f] = dev[f],
             dev' = R!CheckAlarm(new), NEW k, past' = [past EXCEPT !.writes = k, !.rung = @ \/ R!Rings(new)]
      PROVE  Alarming(dev', past')
  <2>1. new.now = dev.now /\ new.date = dev.date /\ new.moment = dev.moment /\ new.matched = dev.matched
    BY <1>1 DEF AlarmFields
  <2>2. R!Matched(new) = R!Matched(dev)
    BY <2>1 DEF R!Matched
  <2>3. ~R!Rings(new)
    BY <1>0, <2>1, <2>2, Zenon DEF R!Rings
  <2>4. (past.rung \/ R!Rings(new)) = past.rung
    BY <1>0, <2>3
  <2>5. SetFields \subseteq DOMAIN past' /\ \A f \in SetFields : past'[f] = past[f]
    BY <1>0, <1>1, <2>4 DEF SetFields
  <2>6. /\ AlarmFields \subseteq DOMAIN dev' /\ dev'.now = dev.now /\ dev'.date = dev.date /\ dev'.moment = dev.moment
        /\ dev'.matched = R!Matched(dev')
    BY <1>1, <2>1, CheckAlarmNotes
  <2>. QED
    BY <2>5, <2>6, StillSet
<1>1a. ASSUME NEW new, AlarmFields \subseteq DOMAIN new, \A f \in AlarmFields : new[f] = dev[f], R!Written(new)
       PROVE  Alarming(dev', past')
  BY <1>1, <1>1a DEF R!Written
<1>2. CASE R!WriteDiv
  <2>1. PICK d \in RtcDivs : R!Written([dev EXCEPT !.div = d])
    BY <1>2 DEF R!WriteDiv
  <2>. DEFINE new == [dev EXCEPT !.div = d]
  <2>2. AlarmFields \subseteq DOMAIN new /\ \A f \in AlarmFields : new[f] = dev[f]
    BY <1>0 DEF AlarmFields
  <2>. HIDE DEF new
  <2>. QED
    BY <1>1a, <2>1, <2>2 DEF new
<1>3. CASE R!WriteSetup
  <2>1. PICK x \in Times : R!Written([dev EXCEPT !.setup = x])
    BY <1>3 DEF R!WriteSetup
  <2>. DEFINE new == [dev EXCEPT !.setup = x]
  <2>2. AlarmFields \subseteq DOMAIN new /\ \A f \in AlarmFields : new[f] = dev[f]
    BY <1>0 DEF AlarmFields
  <2>. HIDE DEF new
  <2>. QED
    BY <1>1a, <2>1, <2>2 DEF new
<1>4. CASE R!WriteInts
  <2>1. PICK e, f \in BOOLEAN : R!Written([dev EXCEPT !.inte = e, !.intf = f])
    BY <1>4 DEF R!WriteInts
  <2>. DEFINE new == [dev EXCEPT !.inte = e, !.intf = f]
  <2>2. AlarmFields \subseteq DOMAIN new /\ \A g \in AlarmFields : new[g] = dev[g]
    BY <1>0 DEF AlarmFields
  <2>. HIDE DEF new
  <2>. QED
    BY <1>1a, <2>1, <2>2 DEF new
<1>5. CASE R!WriteCtrl
  <2>1. PICK e, load \in BOOLEAN :
            LET new == [dev EXCEPT !.enabled = e, !.now = IF load THEN dev.setup ELSE @, !.count = IF load THEN 0 ELSE @]
            IN  /\ dev' = R!CheckAlarm(new)
                /\ past' = IF load
                           THEN [past EXCEPT !.writes = @ - 1, !.base = dev.setup, !.passed = 0,
                                             !.set = R!Seconds(dev.setup), !.rung = FALSE]
                           ELSE [past EXCEPT !.writes = @ - 1, !.rung = @ \/ R!Rings(new)]
    BY <1>5 DEF R!WriteCtrl
  <2>. DEFINE new == [dev EXCEPT !.enabled = e, !.now = IF load THEN dev.setup ELSE @, !.count = IF load THEN 0 ELSE @]
  <2>2. dev' = R!CheckAlarm(new)
    BY <2>1
  <2>3. CASE load
    <3>1. /\ SetFields \subseteq DOMAIN past' /\ past'.base = dev.setup /\ past'.passed = 0
          /\ past'.set = R!Seconds(dev.setup) /\ past'.rung = FALSE
      BY <1>0, <2>1, <2>3 DEF SetFields
    <3>2. /\ AlarmFields \subseteq DOMAIN new /\ new.date = dev.date /\ new.moment = dev.moment
      BY <1>0 DEF AlarmFields
    <3>. HIDE DEF new
    <3>3. /\ AlarmFields \subseteq DOMAIN dev' /\ dev'.date = dev.date /\ dev'.moment = dev.moment
          /\ dev'.matched = R!Matched(dev')
      BY <2>2, <3>2, CheckAlarmNotes
    <3>4. Halves(dev')
      BY <1>0, <3>3 DEF Halves
    <3>5. TimeType(dev.setup)
      BY DEF Timekeeping
    <3>6. R!Seconds(dev.setup) \in Int
      BY <3>5, IntegerSeconds
    <3>7. past'.set = ClockNow(past') /\ past'.set \in Int
      BY <3>1, <3>6 DEF ClockNow
    <3>. QED
      BY <3>1, <3>3, <3>4, <3>7, SetNow
  <2>4. CASE ~load
    <3>1. past' = [past EXCEPT !.writes = @ - 1, !.rung = @ \/ R!Rings(new)]
      BY <2>1, <2>4
    <3>2. AlarmFields \subseteq DOMAIN new /\ \A f \in AlarmFields : new[f] = dev[f]
      BY <1>0, <2>4 DEF AlarmFields
    <3>. HIDE DEF new
    <3>. QED
      BY <1>1, <2>2, <3>1, <3>2
  <2>. QED
    BY <2>3, <2>4
<1>6. CASE R!WriteAlarm
  <2>1. /\ SetFields \subseteq DOMAIN past' /\ past'.base = past.base /\ past'.passed = past.passed
        /\ past'.set = R!Now /\ past'.rung = FALSE
    BY <1>0, <1>6 DEF R!WriteAlarm, SetFields
  <2>2. past'.set = ClockNow(past') /\ past'.set \in Int
    <3>1. TimeType(past.base) /\ past.passed \in Nat
      BY DEF Timekeeping
    <3>2. R!Seconds(past.base) \in Int
      BY <3>1, IntegerSeconds
    <3>. QED
      BY <2>1, <3>1, <3>2 DEF ClockNow, R!Now
  <2>3. CASE \E d \in Dates : dev' = R!CheckAlarm([dev EXCEPT !.date = d, !.intr = FALSE])
    <3>1. PICK d \in Dates : dev' = R!CheckAlarm([dev EXCEPT !.date = d, !.intr = FALSE])
      BY <2>3
    <3>. DEFINE new == [dev EXCEPT !.date = d, !.intr = FALSE]
    <3>2. AlarmFields \subseteq DOMAIN new /\ new.date = d /\ new.moment = dev.moment
      BY <1>0 DEF AlarmFields
    <3>. HIDE DEF new
    <3>3. /\ AlarmFields \subseteq DOMAIN dev' /\ dev'.date = d /\ dev'.moment = dev.moment
          /\ dev'.matched = R!Matched(dev')
      BY <3>1, <3>2, CheckAlarmNotes DEF new
    <3>4. Halves(dev')
      BY <1>0, <3>3, AlarmsAssumption DEF Halves, Half
    <3>. QED
      BY <2>1, <2>2, <3>3, <3>4, SetNow
  <2>4. CASE \E m \in Moments : dev' = R!CheckAlarm([dev EXCEPT !.moment = m, !.intr = FALSE])
    <3>1. PICK m \in Moments : dev' = R!CheckAlarm([dev EXCEPT !.moment = m, !.intr = FALSE])
      BY <2>4
    <3>. DEFINE new == [dev EXCEPT !.moment = m, !.intr = FALSE]
    <3>2. AlarmFields \subseteq DOMAIN new /\ new.moment = m /\ new.date = dev.date
      BY <1>0 DEF AlarmFields
    <3>. HIDE DEF new
    <3>3. /\ AlarmFields \subseteq DOMAIN dev' /\ dev'.moment = m /\ dev'.date = dev.date
          /\ dev'.matched = R!Matched(dev')
      BY <3>1, <3>2, CheckAlarmNotes DEF new
    <3>4. Halves(dev')
      BY <1>0, <3>3, AlarmsAssumption DEF Halves, Half
    <3>. QED
      BY <2>1, <2>2, <3>3, <3>4, SetNow
  <2>. QED
    BY <1>6, <2>3, <2>4 DEF R!WriteAlarm
<1>7. CASE R!Acknowledge
  <2>. DEFINE new == [dev EXCEPT !.intr = FALSE]
  <2>1. dev' = R!CheckAlarm(new) /\ past' = past
    BY <1>7 DEF R!Acknowledge
  <2>2. AlarmFields \subseteq DOMAIN new /\ new.now = dev.now /\ new.date = dev.date /\ new.moment = dev.moment
    BY <1>0 DEF AlarmFields
  <2>. HIDE DEF new
  <2>3. /\ AlarmFields \subseteq DOMAIN dev' /\ dev'.now = dev.now /\ dev'.date = dev.date /\ dev'.moment = dev.moment
        /\ dev'.matched = R!Matched(dev')
    BY <2>1, <2>2, CheckAlarmNotes
  <2>. QED
    BY <1>0, <2>1, <2>3, StillSet
<1>8. CASE R!EnterHandler \/ R!ResetCore \/ R!WriteNvic
  <2>1. past' = past /\ \E p, t : dev' = [dev EXCEPT !.pend = p, !.touched = t]
    BY <1>8 DEF R!EnterHandler, R!ResetCore, R!WriteNvic
  <2>2. /\ AlarmFields \subseteq DOMAIN dev' /\ dev'.now = dev.now /\ dev'.date = dev.date /\ dev'.moment = dev.moment
        /\ dev'.matched = dev.matched
    BY <1>0, <2>1 DEF AlarmFields
  <2>3. R!Matched(dev') = R!Matched(dev)
    BY <2>2 DEF R!Matched
  <2>. QED
    BY <1>0, <2>1, <2>2, <2>3, StillSet
<1>9. CASE R!Reset
  <2>1. dev' = R!CheckAlarm(R!Cleared(R!ResetDiv)) /\ past' = R!Fresh(past.seconds, past.writes - 1)
    BY <1>9 DEF R!Reset
  <2>. QED
    BY <2>1, AlarmBegins
<1>10. CASE R!Rest
  <2>1. dev' = dev /\ past' = past
    BY <1>10 DEF R!Rest, R!vars
  <2>. QED
    BY <2>1
<1>. QED
  BY <1>2, <1>3, <1>4, <1>5, <1>6, <1>7, <1>8, <1>9, <1>10, AlarmClock DEF R!Next

\* What the invariant says of the alarm
LEMMA AlarmOnTime == ASSUME Alarming(dev, past) PROVE R!OnTime
<1>1. ASSUME SetFor(dev, past)
      PROVE  past.rung = (past.set < R!Seconds(AlarmOf(dev)) /\ R!Seconds(AlarmOf(dev)) <= ClockNow(past))
  <2>. DEFINE then == past.set < R!Seconds(AlarmOf(dev)) /\ R!Seconds(AlarmOf(dev)) <= ClockNow(past)
  <2>1. (past.rung <=> then) /\ past.rung \in BOOLEAN /\ then \in BOOLEAN
    BY <1>1 DEF Alarming
  <2>. HIDE DEF then
  <2>2. CASE past.rung
    <3>1. past.rung = TRUE /\ then = TRUE
      BY <2>1, <2>2, Zenon
    <3>. QED
      BY <3>1 DEF then
  <2>3. CASE ~past.rung
    <3>1. past.rung = FALSE /\ then = FALSE
      BY <2>1, <2>3, Zenon
    <3>. QED
      BY <3>1 DEF then
  <2>. QED
    BY <2>2, <2>3
<1>. QED
  BY <1>1 DEF R!OnTime, AlarmOf, Full, SetFor, ClockNow, R!Now

-----------------------------------------------------------------------------
(* The pace of the clocks *)

Below(n) == {k \in Nat : k < n}
PwrRegister == Below(64) \cup L!AllOnes - 63..L!AllOnes
PllType == [cs : Below(2^9), pwr : PwrRegister, fbdiv : Below(2^12), prim : Below(2^19)]
TreeFields == {"xosc", "rosc", "pll", "gen", "tick", "told", "sig"}

TreeType(t) ==
    /\ DOMAIN t = TreeFields /\ t = [f \in TreeFields |-> t[f]]
    /\ t.pll \in [L!Plls -> PllType]
    /\ t.gen \in [L!Generators -> [ctrl : Int, div : Int, set : BOOLEAN]]

\* Between two looks a write is noticed, or it changes no pace.
ClockInv(t, p) ==
    /\ TreeType(t)
    /\ p = [now |-> p.now, before |-> p.before, left |-> p.left] /\ p.now \in Nat /\ p.before \in Nat
    /\ p.now = 0 => t.sig = L!Signature(t)
    /\ p.now = 0 /\ p.before <= 1 => t.told = L!Paces(t)
    /\ p.now = 1 /\ p.before <= 1 => t.sig # L!Signature(t) \/ t.told = L!Paces(t)

\* The exclusive or of a PLL's registers
PllSum(pll) ==
    L!Differ(L!Differ(L!Ones(pll.cs), L!Ones(pll.pwr)), L!Differ(L!Ones(pll.fbdiv), L!Ones(pll.prim)))

LEMMA SameOnes ==
    ASSUME NEW a, NEW b, L!Ones(a) = L!Ones(b), NEW i \in 0..30
    PROVE  L!Field(a, i, 1) = 1 <=> L!Field(b, i, 1) = 1
<1>1. \A r : i \in L!Ones(r) <=> L!Field(r, i, 1) = 1
  BY DEF L!Ones
<1>. QED
  BY <1>1, Zenon

\* The three lowest bits of a number
LEMMA LowBits ==
    ASSUME NEW x \in Nat
    PROVE  x % 8 = (x % 2) + 2 * ((x \div 2) % 2) + 4 * ((x \div 4) % 2)
OBVIOUS

LEMMA FieldBits ==
    ASSUME NEW r \in Nat
    PROVE  /\ L!Field(r, 16, 3) = L!Field(r, 16, 1) + 2 * L!Field(r, 17, 1) + 4 * L!Field(r, 18, 1)
           /\ L!Field(r, 12, 3) = L!Field(r, 12, 1) + 2 * L!Field(r, 13, 1) + 4 * L!Field(r, 14, 1)
<1>1. /\ 2^12 = 4096 /\ 2^13 = 8192 /\ 2^14 = 16384 /\ 2^16 = 65536 /\ 2^17 = 131072 /\ 2^18 = 262144
      /\ 2^1 = 2 /\ 2^3 = 8
  BY SMT
<1>2. /\ (r \div 4096) \div 2 = r \div 8192 /\ (r \div 4096) \div 4 = r \div 16384
      /\ (r \div 65536) \div 2 = r \div 131072 /\ (r \div 65536) \div 4 = r \div 262144
      /\ r \div 4096 \in Nat /\ r \div 65536 \in Nat
  OBVIOUS
<1>3. /\ (r \div 4096) % 8 = ((r \div 4096) % 2) + 2 * ((r \div 8192) % 2) + 4 * ((r \div 16384) % 2)
      /\ (r \div 65536) % 8 = ((r \div 65536) % 2) + 2 * ((r \div 131072) % 2) + 4 * ((r \div 262144) % 2)
  BY <1>2, LowBits
<1>. QED
  BY <1>1, <1>3 DEF L!Field

LEMMA BitRange ==
    ASSUME NEW r \in Nat
    PROVE  \A i \in {0, 1, 2, 3, 4, 5, 6, 7, 8, 9, 10, 11, 12, 13, 14, 16, 17, 18, 20} : L!Field(r, i, 1) \in {0, 1}
<1>1. \A n \in Nat : n % 2 \in {0, 1}
  OBVIOUS
<1>2. \A n \in Nat \ {0} : r \div n \in Nat
  OBVIOUS
<1>3. 2^1 = 2 /\ \A i \in {0, 1, 2, 3, 4, 5, 6, 7, 8, 9, 10, 11, 12, 13, 14, 16, 17, 18, 20} : 2^i \in Nat \ {0}
  BY SMT
<1>. QED
  BY <1>1, <1>2, <1>3 DEF L!Field

\* Halves and remainders decide a number.
LEMMA HalfAndBit ==
    ASSUME NEW a \in Nat, NEW b \in Nat, a \div 2 = b \div 2, a % 2 = b % 2
    PROVE  a = b
OBVIOUS

\* What makes the same exclusive or with the same set is the same.
LEMMA Cancels ==
    ASSUME NEW s, NEW t, NEW u, L!Differ(s, u) = L!Differ(t, u) \/ L!Differ(u, s) = L!Differ(u, t)
    PROVE  s = t
<1>1. \A e : e \in s <=> e \in t
  BY DEF L!Differ
<1>. QED
  BY <1>1

\* What bits a register has decides its field of twelve bits.
LEMMA TwelveBits ==
    ASSUME NEW a \in Below(2^12), NEW b \in Below(2^12), L!Ones(a) = L!Ones(b)
    PROVE  a = b
<1>0. a \in Nat /\ b \in Nat /\ a < 4096 /\ b < 4096
  BY DEF Below
<1>1. \A i \in 0..11 : L!Field(a, i, 1) = L!Field(b, i, 1)
  <2>. SUFFICES ASSUME NEW i \in 0..11 PROVE L!Field(a, i, 1) = L!Field(b, i, 1)
    OBVIOUS
  <2>1. L!Field(a, i, 1) = 1 <=> L!Field(b, i, 1) = 1
    BY SameOnes, i \in 0..30
  <2>2. L!Field(a, i, 1) \in {0, 1} /\ L!Field(b, i, 1) \in {0, 1}
    BY <1>0, BitRange, i \in {0, 1, 2, 3, 4, 5, 6, 7, 8, 9, 10, 11}
  <2>. QED
    BY <2>1, <2>2
<1>. DEFINE Bit(k) == (a \div k) % 2 = (b \div k) % 2
            Same(k) == a \div k = b \div k
<1>2. Bit(1) /\ Bit(2) /\ Bit(4) /\ Bit(8) /\ Bit(16) /\ Bit(32)
  <2>1. /\ L!Field(a, 0, 1) = L!Field(b, 0, 1) /\ L!Field(a, 1, 1) = L!Field(b, 1, 1)
        /\ L!Field(a, 2, 1) = L!Field(b, 2, 1) /\ L!Field(a, 3, 1) = L!Field(b, 3, 1)
        /\ L!Field(a, 4, 1) = L!Field(b, 4, 1) /\ L!Field(a, 5, 1) = L!Field(b, 5, 1)
    BY <1>1
  <2>. QED
    BY <2>1, SMT DEF L!Field
<1>3. Bit(64) /\ Bit(128) /\ Bit(256) /\ Bit(512) /\ Bit(1024) /\ Bit(2048)
  <2>1. /\ L!Field(a, 6, 1) = L!Field(b, 6, 1) /\ L!Field(a, 7, 1) = L!Field(b, 7, 1)
        /\ L!Field(a, 8, 1) = L!Field(b, 8, 1) /\ L!Field(a, 9, 1) = L!Field(b, 9, 1)
        /\ L!Field(a, 10, 1) = L!Field(b, 10, 1) /\ L!Field(a, 11, 1) = L!Field(b, 11, 1)
    BY <1>1
  <2>. QED
    BY <2>1, SMT DEF L!Field
<1>4. \A x \in Nat : /\ (x \div 1) \div 2 = x \div 2 /\ (x \div 2) \div 2 = x \div 4
                     /\ (x \div 4) \div 2 = x \div 8 /\ (x \div 8) \div 2 = x \div 16
                     /\ (x \div 16) \div 2 = x \div 32 /\ (x \div 32) \div 2 = x \div 64
  OBVIOUS
<1>5. \A x \in Nat : /\ (x \div 64) \div 2 = x \div 128 /\ (x \div 128) \div 2 = x \div 256
                     /\ (x \div 256) \div 2 = x \div 512 /\ (x \div 512) \div 2 = x \div 1024
                     /\ (x \div 1024) \div 2 = x \div 2048 /\ (x \div 2048) \div 2 = x \div 4096
  OBVIOUS
<1>6. Same(4096)
  BY <1>0
<1>7. \A k \in Nat \ {0} : (a \div k) \div 2 = (b \div k) \div 2 /\ Bit(k) => Same(k)
  <2>. SUFFICES ASSUME NEW k \in Nat \ {0}, (a \div k) \div 2 = (b \div k) \div 2, Bit(k) PROVE Same(k)
    OBVIOUS
  <2>1. a \div k \in Nat /\ b \div k \in Nat
    BY <1>0, QuotientBelow
  <2>. QED
    BY <2>1, HalfAndBit
<1>8. Same(64)
  <2>1. Same(2048)
    BY <1>0, <1>3, <1>5, <1>6, <1>7
  <2>2. Same(1024)
    BY <1>0, <1>3, <1>5, <1>7, <2>1
  <2>3. Same(512)
    BY <1>0, <1>3, <1>5, <1>7, <2>2
  <2>4. Same(256)
    BY <1>0, <1>3, <1>5, <1>7, <2>3
  <2>5. Same(128)
    BY <1>0, <1>3, <1>5, <1>7, <2>4
  <2>. QED
    BY <1>0, <1>3, <1>5, <1>7, <2>5
<1>9. Same(1)
  <2>1. Same(32)
    BY <1>0, <1>2, <1>4, <1>7, <1>8
  <2>2. Same(16)
    BY <1>0, <1>2, <1>4, <1>7, <2>1
  <2>3. Same(8)
    BY <1>0, <1>2, <1>4, <1>7, <2>2
  <2>4. Same(4)
    BY <1>0, <1>2, <1>4, <1>7, <2>3
  <2>5. Same(2)
    BY <1>0, <1>2, <1>4, <1>7, <2>4
  <2>. QED
    BY <1>0, <1>2, <1>4, <1>7, <2>5
<1>. QED
  BY <1>0, <1>9


LEMMA Registers ==
    ASSUME NEW p \in PllType
    PROVE  p.cs \in Nat /\ p.pwr \in Nat /\ p.fbdiv \in Below(2^12) /\ p.prim \in Nat
<1>1. \A n \in PwrRegister : n \in Nat
  BY SMT DEF Below, PwrRegister, L!AllOnes
<1>2. p.cs \in Below(2^9) /\ p.pwr \in PwrRegister /\ p.fbdiv \in Below(2^12) /\ p.prim \in Below(2^19)
  BY DEF PllType
<1>3. \A n : \A k \in Below(n) : k \in Nat
  BY DEF Below
<1>. QED
  BY <1>1, <1>2, <1>3, SMT

\* A PLL makes what it made after one of its registers was written, if the exclusive or of
\* the four is what it was.
LEMMA PllHeard ==
    ASSUME NEW p \in PllType, NEW q \in PllType, PllSum(p) = PllSum(q),
           \/ q.pwr = p.pwr /\ q.fbdiv = p.fbdiv /\ q.prim = p.prim
           \/ q.cs = p.cs /\ q.fbdiv = p.fbdiv /\ q.prim = p.prim
           \/ q.cs = p.cs /\ q.pwr = p.pwr /\ q.prim = p.prim
           \/ q.cs = p.cs /\ q.pwr = p.pwr /\ q.fbdiv = p.fbdiv
    PROVE  L!Output(q) = L!Output(p)
<1>1. /\ p.cs \in Nat /\ p.pwr \in Nat /\ p.fbdiv \in Below(2^12) /\ p.prim \in Nat
      /\ q.cs \in Nat /\ q.pwr \in Nat /\ q.fbdiv \in Below(2^12) /\ q.prim \in Nat
  BY Registers
<1>3. CASE q.pwr = p.pwr /\ q.fbdiv = p.fbdiv /\ q.prim = p.prim
  <2>1. L!Differ(L!Differ(L!Ones(q.cs), L!Ones(p.pwr)), L!Differ(L!Ones(p.fbdiv), L!Ones(p.prim)))
        = L!Differ(L!Differ(L!Ones(p.cs), L!Ones(p.pwr)), L!Differ(L!Ones(p.fbdiv), L!Ones(p.prim)))
    BY <1>3 DEF PllSum
  <2>2. L!Ones(q.cs) = L!Ones(p.cs)
    <3>1. L!Differ(L!Ones(q.cs), L!Ones(p.pwr)) = L!Differ(L!Ones(p.cs), L!Ones(p.pwr))
      BY <2>1, Cancels
    <3>. QED
      BY <3>1, Cancels
  <2>3. L!Field(q.cs, 8, 1) = 1 <=> L!Field(p.cs, 8, 1) = 1
    BY <2>2, SameOnes, 8 \in 0..30
  <2>4. L!Field(q.cs, 8, 1) \in {0, 1} /\ L!Field(p.cs, 8, 1) \in {0, 1}
    BY <1>1, BitRange
  <2>5. L!Field(q.cs, 8, 1) = L!Field(p.cs, 8, 1)
    BY <2>3, <2>4
  <2>. QED
    BY <1>3, <2>5 DEF L!Output, L!Locked
<1>4. CASE q.cs = p.cs /\ q.fbdiv = p.fbdiv /\ q.prim = p.prim
  <2>1. L!Differ(L!Differ(L!Ones(p.cs), L!Ones(q.pwr)), L!Differ(L!Ones(p.fbdiv), L!Ones(p.prim)))
        = L!Differ(L!Differ(L!Ones(p.cs), L!Ones(p.pwr)), L!Differ(L!Ones(p.fbdiv), L!Ones(p.prim)))
    BY <1>4 DEF PllSum
  <2>2. L!Ones(q.pwr) = L!Ones(p.pwr)
    <3>1. L!Differ(L!Ones(p.cs), L!Ones(q.pwr)) = L!Differ(L!Ones(p.cs), L!Ones(p.pwr))
      BY <2>1, Cancels
    <3>. QED
      BY <3>1, Cancels
  <2>3. L!Field(q.pwr, 0, 1) = 1 <=> L!Field(p.pwr, 0, 1) = 1
    BY <2>2, SameOnes, 0 \in 0..30
  <2>4. L!Field(q.pwr, 0, 1) \in {0, 1} /\ L!Field(p.pwr, 0, 1) \in {0, 1}
    BY <1>1, BitRange
  <2>5. L!Field(q.pwr, 0, 1) = L!Field(p.pwr, 0, 1)
    BY <2>3, <2>4
  <2>. QED
    BY <1>4, <2>5 DEF L!Output, L!Locked
<1>5. CASE q.cs = p.cs /\ q.pwr = p.pwr /\ q.prim = p.prim
  <2>1. L!Differ(L!Differ(L!Ones(p.cs), L!Ones(p.pwr)), L!Differ(L!Ones(q.fbdiv), L!Ones(p.prim)))
        = L!Differ(L!Differ(L!Ones(p.cs), L!Ones(p.pwr)), L!Differ(L!Ones(p.fbdiv), L!Ones(p.prim)))
    BY <1>5 DEF PllSum
  <2>2. L!Ones(q.fbdiv) = L!Ones(p.fbdiv)
    <3>1. L!Differ(L!Ones(q.fbdiv), L!Ones(p.prim)) = L!Differ(L!Ones(p.fbdiv), L!Ones(p.prim))
      BY <2>1, Cancels
    <3>. QED
      BY <3>1, Cancels
  <2>3. q.fbdiv = p.fbdiv
    BY <1>1, <2>2, TwelveBits
  <2>. QED
    BY <1>5, <2>3 DEF L!Output, L!Locked
<1>6. CASE q.cs = p.cs /\ q.pwr = p.pwr /\ q.fbdiv = p.fbdiv
  <2>1. L!Differ(L!Differ(L!Ones(p.cs), L!Ones(p.pwr)), L!Differ(L!Ones(p.fbdiv), L!Ones(q.prim)))
        = L!Differ(L!Differ(L!Ones(p.cs), L!Ones(p.pwr)), L!Differ(L!Ones(p.fbdiv), L!Ones(p.prim)))
    BY <1>6 DEF PllSum
  <2>2. L!Ones(q.prim) = L!Ones(p.prim)
    <3>1. L!Differ(L!Ones(p.fbdiv), L!Ones(q.prim)) = L!Differ(L!Ones(p.fbdiv), L!Ones(p.prim))
      BY <2>1, Cancels
    <3>. QED
      BY <3>1, Cancels
  <2>3. \A i \in {12, 13, 14, 16, 17, 18} : L!Field(q.prim, i, 1) = L!Field(p.prim, i, 1)
    <3>. SUFFICES ASSUME NEW i \in {12, 13, 14, 16, 17, 18} PROVE L!Field(q.prim, i, 1) = L!Field(p.prim, i, 1)
      OBVIOUS
    <3>1. L!Field(q.prim, i, 1) = 1 <=> L!Field(p.prim, i, 1) = 1
      BY <2>2, SameOnes, i \in 0..30
    <3>2. L!Field(q.prim, i, 1) \in {0, 1} /\ L!Field(p.prim, i, 1) \in {0, 1}
      BY <1>1, BitRange
    <3>. QED
      BY <3>1, <3>2
  <2>4. L!Field(q.prim, 16, 3) = L!Field(p.prim, 16, 3) /\ L!Field(q.prim, 12, 3) = L!Field(p.prim, 12, 3)
    BY <1>1, <2>3, FieldBits
  <2>. QED
    BY <1>6, <2>4 DEF L!Output, L!Locked
<1>. QED
  BY <1>3, <1>4, <1>5, <1>6

\* So it does after a reset: without its lock it makes nothing, and to escape the exclusive
\* or, a locked one must have had no divider.
LEMMA PllResetHeard ==
    ASSUME NEW p \in PllType, PllSum(L!PllReset) = PllSum(p)
    PROVE  L!Output(L!PllReset) = L!Output(p)
<1>1. p.cs \in Below(2^9) /\ p.pwr \in PwrRegister /\ p.fbdiv \in Below(2^12) /\ p.prim \in Below(2^19)
  BY DEF PllType
<1>0. p.prim \in Nat
  BY Registers
<1>2. /\ L!PllReset.cs = 0 /\ L!PllReset.pwr = L!AllOnes /\ L!PllReset.fbdiv = 0
  BY SMT DEF L!PllReset
<1>3. L!Output(L!PllReset) = 0
  <2>1. L!Field(L!AllOnes, 0, 1) = 1
    BY SMT DEF L!Field, L!AllOnes
  <2>. QED
    BY <1>2, <2>1 DEF L!Output, L!Locked
<1>4. \A e : (e \in L!Ones(p.cs) <=> (e \in L!Ones(p.pwr) <=> (e \in L!Ones(p.fbdiv) <=> e \in L!Ones(p.prim))))
             <=> (e \in L!Ones(0) <=> (e \in L!Ones(L!AllOnes) <=> (e \in L!Ones(0) <=> e \in L!Ones(L!PllReset.prim))))
  <2>1. \A s, t, u, v : \A e : e \in L!Differ(L!Differ(s, t), L!Differ(u, v))
                              <=> ~(e \in s <=> (e \in t <=> ~(e \in u <=> ~(e \in v))))
    BY SMT DEF L!Differ
  <2>2. \A e : e \in PllSum(p) <=> e \in PllSum(L!PllReset)
    OBVIOUS
  <2>3. \A e : e \in PllSum(p) <=> ~(e \in L!Ones(p.cs) <=> (e \in L!Ones(p.pwr)
                                      <=> ~(e \in L!Ones(p.fbdiv) <=> ~(e \in L!Ones(p.prim)))))
    BY <2>1 DEF PllSum
  <2>4. \A e : e \in PllSum(L!PllReset) <=> ~(e \in L!Ones(0) <=> (e \in L!Ones(L!AllOnes)
                                      <=> ~(e \in L!Ones(0) <=> ~(e \in L!Ones(L!PllReset.prim)))))
    BY <1>2, <2>1 DEF PllSum
  <2>. QED
    BY <2>2, <2>3, <2>4
<1>5. \A r : /\ 12 \in L!Ones(r) <=> L!Field(r, 12, 1) = 1
             /\ 13 \in L!Ones(r) <=> L!Field(r, 13, 1) = 1
             /\ 14 \in L!Ones(r) <=> L!Field(r, 14, 1) = 1
             /\ 20 \in L!Ones(r) <=> L!Field(r, 20, 1) = 1
  BY DEF L!Ones
<1>6. \A i \in {12, 13, 14, 20} :
        /\ L!Field(0, i, 1) = 0 /\ L!Field(L!AllOnes, i, 1) = 1 /\ L!Field(L!PllReset.prim, i, 1) = 0
        /\ L!Field(p.cs, i, 1) = 0 /\ L!Field(p.fbdiv, i, 1) = 0 /\ (i = 20 => L!Field(p.prim, i, 1) = 0)
  <2>1. \A r : /\ L!Field(r, 12, 1) = (r \div 4096) % 2 /\ L!Field(r, 13, 1) = (r \div 8192) % 2
               /\ L!Field(r, 14, 1) = (r \div 16384) % 2 /\ L!Field(r, 20, 1) = (r \div 1048576) % 2
    BY SMT DEF L!Field
  <2>2. \A d \in {4096, 8192, 16384, 1048576} :
          /\ (0 \div d) % 2 = 0 /\ (L!AllOnes \div d) % 2 = 1 /\ (L!PllReset.prim \div d) % 2 = 0
    BY SMT DEF L!AllOnes, L!PllReset
  <2>3. \A d \in {4096, 8192, 16384, 1048576} :
          /\ (p.cs \div d) % 2 = 0 /\ (p.fbdiv \div d) % 2 = 0 /\ (p.prim \div 1048576) % 2 = 0
    <3>1. \A d \in {4096, 8192, 16384, 1048576} : \A k \in Nat : k < 4096 => (k \div d) % 2 = 0
      BY SMT
    <3>2. \A k \in Nat : k < 2^19 => (k \div 1048576) % 2 = 0
      BY SMT
    <3>. QED
      BY <1>1, <3>1, <3>2, SMT DEF Below
  <2>. QED
    BY <2>1, <2>2, <2>3, SMT
<1>7. CASE p.pwr \in Below(64)
  <2>1. L!Field(p.pwr, 20, 1) = 0
    <3>1. L!Field(p.pwr, 20, 1) = (p.pwr \div 1048576) % 2
      BY SMT DEF L!Field
    <3>. QED
      BY <1>7, <3>1, SMT DEF Below
  <2>. QED
    BY <1>4, <1>5, <1>6, <2>1
<1>8. CASE p.pwr \in L!AllOnes - 63..L!AllOnes
  <2>1. \A i \in {12, 13, 14} : L!Field(p.pwr, i, 1) = 1
    <3>1. \A r : /\ L!Field(r, 12, 1) = (r \div 4096) % 2 /\ L!Field(r, 13, 1) = (r \div 8192) % 2
                 /\ L!Field(r, 14, 1) = (r \div 16384) % 2
      BY SMT DEF L!Field
    <3>2. (p.pwr \div 4096) % 2 = 1 /\ (p.pwr \div 8192) % 2 = 1 /\ (p.pwr \div 16384) % 2 = 1
      BY <1>8, SMT DEF L!AllOnes
    <3>. QED
      BY <3>1, <3>2
  <2>2. L!Field(p.prim, 12, 1) # 1 /\ L!Field(p.prim, 13, 1) # 1 /\ L!Field(p.prim, 14, 1) # 1
    BY <1>4, <1>5, <1>6, <2>1
  <2>3. L!Field(p.prim, 12, 3) = 0
    BY <1>0, <2>2, FieldBits, BitRange
  <2>4. L!Field(p.prim, 16, 3) * L!Field(p.prim, 12, 3) = 0
    <3>1. L!Field(p.prim, 16, 3) \in Int
      BY <1>0, FieldBits, BitRange
    <3>. QED
      BY <2>3, <3>1
  <2>. QED
    BY <1>3, <2>4 DEF L!Output
<1>. QED
  BY <1>1, <1>7, <1>8 DEF PwrRegister

\* The paces depend on the oscillators, what the PLLs make, the generators and the tick.
LEMMA SamePaces ==
    ASSUME NEW t, NEW u, t.xosc = u.xosc, t.rosc = u.rosc, t.gen = u.gen, t.tick = u.tick,
           L!Output(t.pll["sys"]) = L!Output(u.pll["sys"]), L!Output(t.pll["usb"]) = L!Output(u.pll["usb"])
    PROVE  L!Paces(t) = L!Paces(u)
<1>1. L!XoscKhz(t) = L!XoscKhz(u) /\ L!RoscKhz(t) = L!RoscKhz(u)
  BY DEF L!XoscKhz, L!RoscKhz
<1>2. \A aux : L!SysSource(t, aux) = L!SysSource(u, aux)
  BY <1>1 DEF L!SysSource
<1>3. \A aux : L!SlowSource(t, aux) = L!SlowSource(u, aux)
  BY <1>2 DEF L!SlowSource
<1>4. \A g, width : L!Aux(t, g, width) = L!Aux(u, g, width)
  BY DEF L!Aux
<1>5. L!RefKhz(t) = L!RefKhz(u)
  <2>. DEFINE src(v) == L!Field(v.gen["ref"].ctrl, 0, 2)
              usb(v) == IF L!Aux(v, "ref", 2) = 0 THEN L!Output(v.pll["usb"]) ELSE 0
              khz(v) == CASE src(v) = 0 -> L!RoscKhz(v) [] src(v) = 2 -> L!XoscKhz(v) [] OTHER -> usb(v)
  <2>1. src(t) = src(u) /\ usb(t) = usb(u)
    BY <1>4
  <2>2. khz(t) = khz(u)
    <3>. HIDE DEF src, usb
    <3>. QED
      BY <1>1, <2>1
  <2>3. \A v : L!RefKhz(v) = IF v.gen["ref"].set
                              THEN L!OrElse(L!Divided(khz(v), v.gen["ref"].div, FALSE), L!Default.ref)
                              ELSE L!Default.ref
    BY Zenon DEF L!RefKhz
  <2>. HIDE DEF khz
  <2>. QED
    BY <2>2, <2>3
<1>6. L!SysKhz(t) = L!SysKhz(u)
  BY <1>2, <1>4, <1>5 DEF L!SysKhz
<1>7. L!PeriKhz(t) = L!PeriKhz(u)
  BY <1>2, <1>4, <1>6 DEF L!PeriKhz
<1>8. \A g, fractional : L!SlowKhz(t, g, fractional) = L!SlowKhz(u, g, fractional)
  BY <1>3, <1>4 DEF L!SlowKhz
<1>9. L!UsCycles(t) = L!UsCycles(u)
  BY <1>5, <1>6 DEF L!UsCycles
<1>. QED
  BY <1>6, <1>7, <1>8, <1>9 DEF L!Paces

\* What a look compares, and what it tells
LEMMA SameSignature ==
    ASSUME NEW t, NEW u, L!Signature(t) = L!Signature(u)
    PROVE  /\ t.xosc = u.xosc /\ t.rosc = u.rosc /\ t.tick = u.tick
           /\ \A p \in L!Plls : PllSum(t.pll[p]) = PllSum(u.pll[p])
           /\ \A g \in L!Generators : /\ t.gen[g].ctrl * 31 + t.gen[g].div = u.gen[g].ctrl * 31 + u.gen[g].div
                                      /\ t.gen[g].set <=> u.gen[g].set
<1>1. \A v : /\ L!Signature(v).xosc = v.xosc /\ L!Signature(v).rosc = v.rosc /\ L!Signature(v).tick = v.tick
             /\ \A p \in L!Plls : L!Signature(v).pll[p] = PllSum(v.pll[p])
             /\ \A g \in L!Generators : /\ L!Signature(v).gen[g] = v.gen[g].ctrl * 31 + v.gen[g].div
                                        /\ g \in L!Signature(v).set <=> v.gen[g].set
  BY DEF L!Signature, PllSum
<1>. QED
  BY <1>1

\* A new set of registers, of which a look has heard or which change no pace
LEMMA ClockWritten ==
    ASSUME NEW new, ClockInv(dev, past), L!Written(new), TreeType(new),
           new.sig = dev.sig, new.told = dev.told,
           L!Signature(new) # L!Signature(dev) \/ L!Paces(new) = L!Paces(dev)
    PROVE  ClockInv(dev', past')
<1>1. dev' = new /\ past' = [past EXCEPT !.now = @ + 1, !.left = @ - 1]
  BY DEF L!Written
<1>2. /\ past'.now = past.now + 1 /\ past'.before = past.before /\ past.now \in Nat
      /\ past' = [now |-> past'.now, before |-> past'.before, left |-> past'.left]
  BY <1>1 DEF ClockInv
<1>. QED
  BY <1>1, <1>2 DEF ClockInv

\* A write of a PLL's register
LEMMA PllWrite ==
    ASSUME NEW p \in L!Plls, NEW new, NEW r \in PllType, ClockInv(dev, past), L!Written(new),
           new = [dev EXCEPT !.pll[p] = r],
           PllSum(r) = PllSum(dev.pll[p]) => L!Output(r) = L!Output(dev.pll[p])
    PROVE  ClockInv(dev', past')
<1>1. /\ TreeType(new) /\ new.sig = dev.sig /\ new.told = dev.told /\ new.xosc = dev.xosc
      /\ new.rosc = dev.rosc /\ new.gen = dev.gen /\ new.tick = dev.tick
      /\ new.pll = [dev.pll EXCEPT ![p] = r]
  BY DEF ClockInv, TreeType, TreeFields
<1>2. dev.pll \in [L!Plls -> PllType]
  BY DEF ClockInv, TreeType
<1>3. new.pll[p] = r /\ \A q \in L!Plls : q # p => new.pll[q] = dev.pll[q]
  BY <1>1, <1>2
<1>4. L!Signature(new) = L!Signature(dev) => L!Paces(new) = L!Paces(dev)
  <2>. SUFFICES ASSUME L!Signature(new) = L!Signature(dev) PROVE L!Paces(new) = L!Paces(dev)
    OBVIOUS
  <2>1. PllSum(new.pll[p]) = PllSum(dev.pll[p])
    BY SameSignature
  <2>2. \A q \in L!Plls : L!Output(new.pll[q]) = L!Output(dev.pll[q])
    BY <1>3, <2>1
  <2>. QED
    BY <1>1, <2>2, SamePaces DEF L!Plls
<1>. QED
  BY <1>1, <1>4, ClockWritten

LEMMA PllResetType == L!PllReset \in PllType
<1>1. L!AllOnes \in PwrRegister /\ 7 * 2^16 + 7 * 2^8 \in Below(2^19) /\ 0 \in Below(2^9) /\ 0 \in Below(2^12)
  BY SMT DEF L!AllOnes, PwrRegister, Below
<1>. QED
  BY <1>1 DEF L!PllReset, PllType

\* What the peripherals are told leaves the registers alone.
LEMMA WithRegisters ==
    ASSUME NEW t, NEW told, {"xosc", "rosc", "pll", "gen", "tick"} \subseteq DOMAIN t, DOMAIN t \subseteq TreeFields
    PROVE  LET w == L!With(t, told)
           IN  /\ DOMAIN w = TreeFields /\ w = [f \in TreeFields |-> w[f]]
               /\ w.pll = t.pll /\ w.gen = t.gen /\ w.told = told
               /\ w.sig = L!Signature(w) /\ L!Paces(w) = L!Paces(t)
<1>. DEFINE w == L!With(t, told)
<1>1. w = [f \in TreeFields |-> CASE f = "told" -> told [] f = "sig" -> L!Signature(t) [] OTHER -> t[f]]
  BY DEF L!With, TreeFields
<1>2. /\ w.xosc = t.xosc /\ w.rosc = t.rosc /\ w.pll = t.pll /\ w.gen = t.gen /\ w.tick = t.tick
      /\ w.told = told /\ w.sig = L!Signature(t)
  BY <1>1 DEF TreeFields
<1>3. DOMAIN w = TreeFields /\ w = [f \in TreeFields |-> w[f]]
  BY <1>1
<1>. HIDE DEF w
<1>4. L!Signature(w) = L!Signature(t)
  BY <1>2 DEF L!Signature
<1>5. L!Paces(w) = L!Paces(t)
  BY <1>2, SamePaces
<1>. QED
  BY <1>2, <1>3, <1>4, <1>5 DEF w

LEMMA ClockStep == ASSUME ClockInv(dev, past), L!Next PROVE ClockInv(dev', past')
<1>0. TreeType(dev)
  BY DEF ClockInv
<1>1. CASE L!SyncClockPacing
  <2>0. /\ past'.now = 0 /\ past.now \in Nat /\ past.before \in Nat /\ past.now > 0
        /\ past' = [now |-> past'.now, before |-> past'.before, left |-> past'.left]
    BY <1>1 DEF L!SyncClockPacing, ClockInv
  <2>1. CASE L!Signature(dev) = dev.sig
    <3>1. dev' = dev /\ past'.before = IF past.before < past.now THEN past.now ELSE past.before
      BY <1>1, <2>1 DEF L!SyncClockPacing, ClockInv
    <3>. QED
      BY <2>0, <2>1, <3>1 DEF ClockInv
  <2>2. CASE L!Signature(dev) # dev.sig
    <3>1. dev' = L!With(dev, L!Paces(dev)) /\ past'.before = 0
      BY <1>1, <2>2 DEF L!SyncClockPacing, ClockInv
    <3>2. /\ DOMAIN dev' = TreeFields /\ dev' = [f \in TreeFields |-> dev'[f]]
          /\ dev'.pll = dev.pll /\ dev'.gen = dev.gen /\ dev'.told = L!Paces(dev)
          /\ dev'.sig = L!Signature(dev') /\ L!Paces(dev') = L!Paces(dev)
      <4>1. {"xosc", "rosc", "pll", "gen", "tick"} \subseteq DOMAIN dev /\ DOMAIN dev \subseteq TreeFields
        BY <1>0 DEF TreeType, TreeFields
      <4>. QED
        BY <3>1, <4>1, WithRegisters
    <3>3. TreeType(dev')
      BY <1>0, <3>2 DEF TreeType
    <3>. QED
      BY <2>0, <3>1, <3>2, <3>3 DEF ClockInv
  <2>. QED
    BY <2>1, <2>2
<1>2. CASE L!WriteXosc
  <2>1. PICK on \in BOOLEAN : L!Written([dev EXCEPT !.xosc = on])
    BY <1>2 DEF L!WriteXosc
  <2>. DEFINE new == [dev EXCEPT !.xosc = on]
  <2>2. TreeType(new) /\ new.sig = dev.sig /\ new.told = dev.told /\ new.xosc = on
    BY <1>0 DEF TreeType, TreeFields
  <2>3. new.xosc # dev.xosc
    BY <1>0, <2>1 DEF TreeType, TreeFields, L!Written
  <2>. HIDE DEF new
  <2>. QED
    BY <2>1, <2>2, <2>3, SameSignature, ClockWritten DEF new
<1>3. CASE L!WriteRosc
  <2>1. PICK on \in BOOLEAN : L!Written([dev EXCEPT !.rosc = on])
    BY <1>3 DEF L!WriteRosc
  <2>. DEFINE new == [dev EXCEPT !.rosc = on]
  <2>2. TreeType(new) /\ new.sig = dev.sig /\ new.told = dev.told /\ new.rosc = on
    BY <1>0 DEF TreeType, TreeFields
  <2>3. new.rosc # dev.rosc
    BY <1>0, <2>1 DEF TreeType, TreeFields, L!Written
  <2>. HIDE DEF new
  <2>. QED
    BY <2>1, <2>2, <2>3, SameSignature, ClockWritten DEF new
<1>4. CASE L!WriteTick
  <2>1. PICK v \in TickValues : L!Written([dev EXCEPT !.tick = v])
    BY <1>4 DEF L!WriteTick
  <2>. DEFINE new == [dev EXCEPT !.tick = v]
  <2>2. TreeType(new) /\ new.sig = dev.sig /\ new.told = dev.told /\ new.tick = v
    BY <1>0 DEF TreeType, TreeFields
  <2>3. new.tick # dev.tick
    BY <1>0, <2>1 DEF TreeType, TreeFields, L!Written
  <2>. HIDE DEF new
  <2>. QED
    BY <2>1, <2>2, <2>3, SameSignature, ClockWritten DEF new
<1>5. CASE L!WritePll
  <2>1. PICK p \in L!Plls :
          \/ \E v \in CsValues : L!Written([dev EXCEPT !.pll[p].cs = v])
          \/ \E v \in PwrValues : L!Written([dev EXCEPT !.pll[p].pwr = v])
          \/ \E v \in FbdivValues : L!Written([dev EXCEPT !.pll[p].fbdiv = v])
          \/ \E v \in PrimValues : L!Written([dev EXCEPT !.pll[p].prim = v])
    BY <1>5 DEF L!WritePll
  <2>2. dev.pll[p] \in PllType
    BY <1>0 DEF TreeType
  <2>3. /\ CsValues \subseteq Below(2^9) /\ FbdivValues \subseteq Below(2^12)
        /\ PrimValues \subseteq Below(2^19) /\ PwrValues \subseteq PwrRegister
    <3>1. \A v \in PwrValues : v \in Nat /\ (v < 64 \/ v \in L!AllOnes - 63..L!AllOnes)
      BY PllAssumption, SMT DEF L!AllOnes
    <3>. QED
      BY PllAssumption, <3>1, SMT DEF Below, PwrRegister
  <2>4. CASE \E v \in CsValues : L!Written([dev EXCEPT !.pll[p].cs = v])
    <3>1. PICK v \in CsValues : L!Written([dev EXCEPT !.pll[p].cs = v])
      BY <2>4
    <3>. DEFINE r == [dev.pll[p] EXCEPT !.cs = v]
    <3>2. r \in PllType /\ r.pwr = dev.pll[p].pwr /\ r.fbdiv = dev.pll[p].fbdiv /\ r.prim = dev.pll[p].prim
      BY <2>2, <2>3 DEF PllType
    <3>3. [dev EXCEPT !.pll[p].cs = v] = [dev EXCEPT !.pll[p] = r]
      OBVIOUS
    <3>. HIDE DEF r
    <3>. QED
      BY <2>2, <3>1, <3>2, <3>3, PllHeard, PllWrite
  <2>5. CASE \E v \in PwrValues : L!Written([dev EXCEPT !.pll[p].pwr = v])
    <3>1. PICK v \in PwrValues : L!Written([dev EXCEPT !.pll[p].pwr = v])
      BY <2>5
    <3>. DEFINE r == [dev.pll[p] EXCEPT !.pwr = v]
    <3>2. r \in PllType /\ r.cs = dev.pll[p].cs /\ r.fbdiv = dev.pll[p].fbdiv /\ r.prim = dev.pll[p].prim
      BY <2>2, <2>3 DEF PllType
    <3>3. [dev EXCEPT !.pll[p].pwr = v] = [dev EXCEPT !.pll[p] = r]
      OBVIOUS
    <3>. HIDE DEF r
    <3>. QED
      BY <2>2, <3>1, <3>2, <3>3, PllHeard, PllWrite
  <2>6. CASE \E v \in FbdivValues : L!Written([dev EXCEPT !.pll[p].fbdiv = v])
    <3>1. PICK v \in FbdivValues : L!Written([dev EXCEPT !.pll[p].fbdiv = v])
      BY <2>6
    <3>. DEFINE r == [dev.pll[p] EXCEPT !.fbdiv = v]
    <3>2. r \in PllType /\ r.cs = dev.pll[p].cs /\ r.pwr = dev.pll[p].pwr /\ r.prim = dev.pll[p].prim
      BY <2>2, <2>3 DEF PllType
    <3>3. [dev EXCEPT !.pll[p].fbdiv = v] = [dev EXCEPT !.pll[p] = r]
      OBVIOUS
    <3>. HIDE DEF r
    <3>. QED
      BY <2>2, <3>1, <3>2, <3>3, PllHeard, PllWrite
  <2>7. CASE \E v \in PrimValues : L!Written([dev EXCEPT !.pll[p].prim = v])
    <3>1. PICK v \in PrimValues : L!Written([dev EXCEPT !.pll[p].prim = v])
      BY <2>7
    <3>. DEFINE r == [dev.pll[p] EXCEPT !.prim = v]
    <3>2. r \in PllType /\ r.cs = dev.pll[p].cs /\ r.pwr = dev.pll[p].pwr /\ r.fbdiv = dev.pll[p].fbdiv
      BY <2>2, <2>3 DEF PllType
    <3>3. [dev EXCEPT !.pll[p].prim = v] = [dev EXCEPT !.pll[p] = r]
      OBVIOUS
    <3>. HIDE DEF r
    <3>. QED
      BY <2>2, <3>1, <3>2, <3>3, PllHeard, PllWrite
  <2>. QED
    BY <2>1, <2>4, <2>5, <2>6, <2>7
<1>6. CASE L!WriteGenerator
  <2>1. PICK g \in L!Generators :
          \/ \E v \in CtrlValues : L!Written([dev EXCEPT !.gen[g].ctrl = v, !.gen[g].set = TRUE])
          \/ \E v \in DivValues : L!Written([dev EXCEPT !.gen[g].div = v, !.gen[g].set = TRUE])
    BY <1>6 DEF L!WriteGenerator
  <2>2. PICK r \in [ctrl : Int, div : Int, set : BOOLEAN] :
          /\ L!Written([dev EXCEPT !.gen[g] = r]) /\ r.set
          /\ r.ctrl = dev.gen[g].ctrl \/ r.div = dev.gen[g].div
    <3>0. dev.gen[g] \in [ctrl : Int, div : Int, set : BOOLEAN]
      BY <1>0 DEF TreeType
    <3>1. CASE \E v \in CtrlValues : L!Written([dev EXCEPT !.gen[g].ctrl = v, !.gen[g].set = TRUE])
      <4>1. PICK v \in CtrlValues : L!Written([dev EXCEPT !.gen[g].ctrl = v, !.gen[g].set = TRUE])
        BY <3>1
      <4>2. /\ [dev EXCEPT !.gen[g].ctrl = v, !.gen[g].set = TRUE]
               = [dev EXCEPT !.gen[g] = [dev.gen[g] EXCEPT !.ctrl = v, !.set = TRUE]]
        BY <1>0 DEF TreeType, TreeFields
      <4>. DEFINE q == [dev.gen[g] EXCEPT !.ctrl = v, !.set = TRUE]
      <4>3. q \in [ctrl : Int, div : Int, set : BOOLEAN] /\ q.set /\ q.div = dev.gen[g].div
        BY <3>0, GeneratorAssumption
      <4>. QED
        BY <4>1, <4>2, <4>3
    <3>2. CASE \E v \in DivValues : L!Written([dev EXCEPT !.gen[g].div = v, !.gen[g].set = TRUE])
      <4>1. PICK v \in DivValues : L!Written([dev EXCEPT !.gen[g].div = v, !.gen[g].set = TRUE])
        BY <3>2
      <4>2. /\ [dev EXCEPT !.gen[g].div = v, !.gen[g].set = TRUE]
               = [dev EXCEPT !.gen[g] = [dev.gen[g] EXCEPT !.div = v, !.set = TRUE]]
        BY <1>0 DEF TreeType, TreeFields
      <4>. DEFINE q == [dev.gen[g] EXCEPT !.div = v, !.set = TRUE]
      <4>3. q \in [ctrl : Int, div : Int, set : BOOLEAN] /\ q.set /\ q.ctrl = dev.gen[g].ctrl
        BY <3>0, GeneratorAssumption
      <4>. QED
        BY <4>1, <4>2, <4>3
    <3>. QED
      BY <2>1, <3>1, <3>2
  <2>. DEFINE new == [dev EXCEPT !.gen[g] = r]
  <2>3. TreeType(new) /\ new.sig = dev.sig /\ new.told = dev.told /\ new.gen[g] = r
    BY <1>0 DEF TreeType, TreeFields
  <2>4. new # dev
    BY <2>2 DEF L!Written
  <2>5. r # dev.gen[g]
    BY <1>0, <2>4 DEF TreeType, TreeFields
  <2>. HIDE DEF new
  <2>6. L!Signature(new) # L!Signature(dev)
    <3>1. dev.gen[g] \in [ctrl : Int, div : Int, set : BOOLEAN]
      BY <1>0 DEF TreeType
    <3>2. CASE dev.gen[g].set
      <4>1. r.ctrl # dev.gen[g].ctrl \/ r.div # dev.gen[g].div
        BY <2>2, <2>5, <3>1, <3>2
      <4>2. r.ctrl \in Int /\ r.div \in Int /\ dev.gen[g].ctrl \in Int /\ dev.gen[g].div \in Int
        BY <3>1
      <4>3. \A a, b, c, d \in Int : (a = c \/ b = d) /\ (a # c \/ b # d) => a * 31 + b # c * 31 + d
        OBVIOUS
      <4>4. r.ctrl * 31 + r.div # dev.gen[g].ctrl * 31 + dev.gen[g].div
        BY <2>2, <4>1, <4>2, <4>3
      <4>. QED
        BY <2>3, <4>4, SameSignature
    <3>3. CASE ~dev.gen[g].set
      BY <2>2, <2>3, <3>3, SameSignature
    <3>. QED
      BY <3>2, <3>3
  <2>. QED
    BY <2>2, <2>3, <2>6, ClockWritten DEF new
<1>7. CASE L!ResetPll
  <2>1. PICK p \in L!Plls : L!Written([dev EXCEPT !.pll[p] = L!PllReset])
    BY <1>7 DEF L!ResetPll
  <2>2. dev.pll[p] \in PllType
    BY <1>0 DEF TreeType
  <2>. QED
    BY <2>1, <2>2, PllResetType, PllResetHeard, PllWrite
<1>8. CASE L!Rest
  BY <1>8 DEF L!Rest, L!vars
<1>. QED
  BY <1>1, <1>2, <1>3, <1>4, <1>5, <1>6, <1>7, <1>8 DEF L!Next

LEMMA ClockBegins == ASSUME L!Init PROVE ClockInv(dev, past)
<1>1. PICK t \in {L!Boot, L!Running} : dev = L!With(t, L!Paces(t))
  BY DEF L!Init
<1>2. DOMAIN t = {"xosc", "rosc", "pll", "gen", "tick"}
  BY DEF L!Boot, L!Running
<1>3. t.pll \in [L!Plls -> PllType]
  <2>1. CASE t = L!Boot
    BY <2>1, PllResetType DEF L!Boot
  <2>2. CASE t = L!Running
    <3>1. L!AllOnes - 41 \in PwrRegister
      BY SMT DEF L!AllOnes, PwrRegister
    <3>2. /\ 6 * 2^16 + 2 * 2^12 \in Below(2^19) /\ 5 * 2^16 + 5 * 2^12 \in Below(2^19)
          /\ 1 \in Below(2^9) /\ 125 \in Below(2^12) /\ 100 \in Below(2^12)
      BY SMT DEF Below
    <3>. QED
      BY <2>2, <3>1, <3>2 DEF L!Running, PllType
  <2>. QED
    BY <1>1, <2>1, <2>2
<1>4. t.gen \in [L!Generators -> [ctrl : Int, div : Int, set : BOOLEAN]]
  <2>1. CASE t = L!Boot
    <3>1. 2^16 \in Int
      BY SMT
    <3>. QED
      BY <2>1, <3>1 DEF L!Boot
  <2>2. CASE t = L!Running
    BY <2>2 DEF L!Running
  <2>. QED
    BY <1>1, <2>1, <2>2
<1>5. {"xosc", "rosc", "pll", "gen", "tick"} \subseteq DOMAIN t /\ DOMAIN t \subseteq TreeFields
  BY <1>2 DEF TreeFields
<1>6. /\ DOMAIN dev = TreeFields /\ dev = [f \in TreeFields |-> dev[f]]
      /\ dev.pll = t.pll /\ dev.gen = t.gen /\ dev.told = L!Paces(t)
      /\ dev.sig = L!Signature(dev) /\ L!Paces(dev) = L!Paces(t)
  BY <1>1, <1>5, WithRegisters
<1>7. past = [now |-> 0, before |-> 0, left |-> ClockWrites]
  BY DEF L!Init
<1>. QED
  BY <1>3, <1>4, <1>6, <1>7 DEF ClockInv, TreeType

\* What the invariant says of the paces
LEMMA ClockOnTime == ASSUME ClockInv(dev, past) PROVE L!OnTime
BY DEF ClockInv, L!OnTime

-----------------------------------------------------------------------------
(* What every unit is asked for happens on time *)

\* The invariants of the units that time something
Timed ==
    /\ unit = "timer" => TimerInv(dev, past)
    /\ unit = "watchdog" => WatchInv(dev)
    /\ unit = "systick" => SystInv(dev)
    /\ unit = "adc" => AdcInv(dev, past)
    /\ unit = "rtc" => Timekeeping(dev, past) /\ Alarming(dev, past)
    /\ unit = "clocks" => ClockInv(dev, past)

\* Theorem: the timer's alarms ring in their microsecond, an unfed watchdog bites in the
\* one in which its load runs out, SysTick keeps its period, the conversions of the ADC
\* take their clocks, the alarm of the real-time clock rings at its second, and a change of
\* frequency by a single write is noticed, whatever the width of the words, the paces, the
\* loads, the reload values, the calendar, the times and the registers of the clocks.
THEOREM OnTimeHolds == Spec => []OnTime
<1>1. Init => Timed
  <2>1. ASSUME T!Init PROVE TimerInv(dev, past)
    BY <2>1, ClearedTimer, IdleRead DEF T!Init, TimerType
  <2>2. ASSUME R!Init PROVE Timekeeping(dev, past) /\ Alarming(dev, past)
    BY <2>2, RtcBegins, AlarmBegins DEF R!Init
  <2>. QED
    BY <2>1, <2>2, WatchBegins, SystBegins, AdcBegins, ClockBegins DEF Init, Timed
<1>2. Timed /\ [Next]_vars => Timed'
  <2>1. CASE UNCHANGED vars
    BY <2>1 DEF vars, Timed
  <2>2. CASE Timed /\ Next
    <3>1. unit = "timer" => TimerInv(dev', past')
      BY <2>2, TimerStep DEF Next, Timed
    <3>2. unit = "watchdog" => WatchInv(dev')
      BY <2>2, WatchStep DEF Next, Timed
    <3>3. unit = "systick" => SystInv(dev')
      BY <2>2, SystStep DEF Next, Timed
    <3>4. unit = "adc" => AdcInv(dev', past')
      BY <2>2, AdcPaced DEF Next, Timed
    <3>5. unit = "rtc" => Timekeeping(dev', past')
      BY <2>2, RtcStep DEF Next, Timed
    <3>6. unit = "rtc" => Alarming(dev', past')
      BY <2>2, <3>5, AlarmStep DEF Next, Timed
    <3>7. unit = "clocks" => ClockInv(dev', past')
      BY <2>2, ClockStep DEF Next, Timed
    <3>8. unit' = unit
      BY <2>2 DEF Next
    <3>. QED
      BY <3>1, <3>2, <3>3, <3>4, <3>5, <3>6, <3>7, <3>8 DEF Timed
  <2>. QED
    BY <2>1, <2>2
<1>3. Timed => OnTime
  <2>. SUFFICES ASSUME Timed PROVE OnTime
    OBVIOUS
  <2>1. CASE unit = "timer"
    <3>1. dev \in TimerType
      BY <2>1 DEF Timed, TimerInv
    <3>2. T!OnTime
      BY <3>1 DEF T!OnTime, TimerType, Ahead
    <3>. QED
      BY <2>1, <3>2 DEF OnTime
  <2>2. CASE unit = "watchdog"
    BY <2>2, WatchOnTime DEF OnTime, Timed
  <2>3. CASE unit = "systick"
    BY <2>3 DEF OnTime, Timed, K!OnTime, SystInv
  <2>4. CASE unit = "adc"
    BY <2>4 DEF OnTime, Timed, A!OnTime, AdcInv
  <2>5. CASE unit = "rtc"
    BY <2>5, AlarmOnTime DEF OnTime, Timed
  <2>6. CASE unit = "clocks"
    BY <2>6, ClockOnTime DEF OnTime, Timed
  <2>. QED
    BY <2>1, <2>2, <2>3, <2>4, <2>5, <2>6 DEF OnTime
<1>. QED
  BY <1>1, <1>2, <1>3, PTL DEF Spec

-----------------------------------------------------------------------------
(* The bytes of the UART *)

SentOf(u) == IF u.txBits > 0 THEN Busy(u.log, <<>>, u.txShift, u.tx) ELSE Idle(u.log, <<>>, u.tx)
GotOf(u, p) ==
    IF u.rxBits > 0 THEN Busy(p.read, Names(u.rx), u.rxShift.id, Names(u.wire)) ELSE Idle(p.read, Names(u.rx), Names(u.wire))

Sent(u, p) == Ordered(SentOf(u), p.written, {}) /\ Len(u.tx) <= Depth
Got(u, p) ==
    /\ Ordered(GotOf(u, p), p.fed, u.lost) /\ u.lost \in SUBSET (1..p.fed)
    /\ (u.untold => u.oe) /\ Len(u.rx) <= Depth
Told(p) == {"written", "fed", "read"} \subseteq DOMAIN p /\ p.written \in Nat /\ p.fed \in Nat /\ p.read \in Seq(Nat)

UartKept(u, p) == UartLine(u) /\ Told(p) /\ Sent(u, p) /\ Got(u, p)

LEMMA SentSame ==
    ASSUME NEW u, NEW p, Sent(u, p), NEW v, v.txBits = u.txBits, v.log = u.log, v.txShift = u.txShift, v.tx = u.tx,
           NEW q, q.written = p.written
    PROVE  Sent(v, q)
<1>1. SentOf(v) = SentOf(u)
  BY DEF SentOf
<1>. QED
  BY <1>1 DEF Sent

LEMMA GotSame ==
    ASSUME NEW u, NEW p, Got(u, p), NEW v, v.rxBits = u.rxBits, v.rx = u.rx, v.rxShift = u.rxShift, v.wire = u.wire,
           v.lost = u.lost, v.untold = u.untold, v.oe = u.oe,
           NEW q, q.fed = p.fed, q.read = p.read
    PROVE  Got(v, q)
<1>1. GotOf(v, q) = GotOf(u, p)
  BY DEF GotOf
<1>. QED
  BY <1>1 DEF Got

\* A character takes two bits at least.
LEMMA FrameLong ==
    ASSUME NEW u, UartType(u)
    PROVE  U!BitsPerFrame(u) \in Nat /\ U!BitsPerFrame(u) > 0
BY UartAssumption, SMTT(60) DEF U!BitsPerFrame, UartType

LEMMA CharactersNamed ==
    /\ \A g \in Characters : g.id \in Nat
    /\ \A s \in Seq(Characters) : Names(s) \in Seq(Nat) /\ Len(s) \in Nat
    /\ \A s \in Seq(Nat) : Len(s) \in Nat
    /\ Depth \in Nat \ {0}
<1>1. \A g \in Characters : g.id \in Nat
  BY DEF Characters
<1>. QED
  BY <1>1, NamesTyped, LenProperties, UartAssumption

\* The transmitter takes the bytes of the queue in turn to its log.
LEMMA TickTxKeeps ==
    ASSUME NEW u, UartType(u), NEW p, Told(p), Sent(u, p), Got(u, p)
    PROVE  UartType(U!TickTx(u)) /\ Sent(U!TickTx(u), p) /\ Got(U!TickTx(u), p)
<1>. DEFINE v == U!TickTx(u)
            bits == U!BitsPerFrame(u)
<1>1. bits \in Nat /\ bits > 0
  BY FrameLong
<1>2. u.tx \in Seq(Nat) /\ u.txShift \in Nat /\ u.txBits \in Nat /\ u.log \in Seq(Nat) /\ Len(u.tx) \in Nat
        /\ Depth \in Nat
  BY CharactersNamed DEF UartType
<1>3. UartType(v)
  BY TickTxTyped
<1>. HIDE DEF bits
<1>4. CASE u.txBits > 1
  <2>1. v = [u EXCEPT !.txBits = @ - 1]
    BY <1>4 DEF U!TickTx
  <2>. HIDE DEF v
  <2>2. /\ v.txBits = u.txBits - 1 /\ v.log = u.log /\ v.txShift = u.txShift /\ v.tx = u.tx
        /\ v.rxBits = u.rxBits /\ v.rx = u.rx /\ v.rxShift = u.rxShift /\ v.wire = u.wire /\ v.lost = u.lost
        /\ v.untold = u.untold /\ v.oe = u.oe
    BY <2>1 DEF UartType, UartFields
  <2>3. v.txBits > 0 /\ u.txBits > 0
    BY <1>2, <1>4, <2>2
  <2>4. SentOf(v) = SentOf(u)
    BY <2>2, <2>3 DEF SentOf
  <2>. QED
    BY <1>3, <2>2, <2>4, GotSame DEF Sent, v
<1>5. CASE u.txBits = 1
  <2>1. v = [u EXCEPT !.txBits = 0, !.log = Append(@, u.txShift)]
    BY <1>5 DEF U!TickTx
  <2>. HIDE DEF v
  <2>2. /\ v.txBits = 0 /\ v.log = Append(u.log, u.txShift) /\ v.tx = u.tx
        /\ v.rxBits = u.rxBits /\ v.rx = u.rx /\ v.rxShift = u.rxShift /\ v.wire = u.wire /\ v.lost = u.lost
        /\ v.untold = u.untold /\ v.oe = u.oe
    BY <2>1 DEF UartType, UartFields
  <2>3. SentOf(u) = Busy(u.log, <<>>, u.txShift, u.tx) /\ SentOf(v) = Idle(Append(u.log, u.txShift), <<>>, u.tx)
    BY <1>5, <2>2 DEF SentOf
  <2>4. SentOf(v) = SentOf(u)
    <3>. DEFINE f == Append(<<>>, u.txShift)
    <3>1. f \in Seq(Nat) /\ f # <<>> /\ Head(f) = u.txShift /\ Tail(f) = <<>>
      BY <1>2
    <3>2. Idle(u.log, f, u.tx) = Busy(u.log, <<>>, u.txShift, u.tx)
      <4>1. <<>> \in Seq(Nat)
        OBVIOUS
      <4>. QED
        BY <1>2, <4>1, Arrives
    <3>. HIDE DEF f
    <3>3. Idle(Append(u.log, Head(f)), Tail(f), u.tx) = Idle(u.log, f, u.tx)
      BY <1>2, <3>1, Passes
    <3>. QED
      BY <2>3, <3>1, <3>2, <3>3
  <2>. QED
    BY <1>3, <2>2, <2>4, GotSame DEF Sent, v
<1>6. CASE u.txBits = 0 /\ u.txe /\ ~u.brk /\ u.tx # <<>>
  <2>1. v = [u EXCEPT !.txShift = Head(u.tx), !.tx = Tail(@), !.txBits = bits]
    BY <1>6 DEF U!TickTx, bits
  <2>. HIDE DEF v
  <2>2. /\ v.txBits = bits /\ v.log = u.log /\ v.txShift = Head(u.tx) /\ v.tx = Tail(u.tx)
        /\ v.rxBits = u.rxBits /\ v.rx = u.rx /\ v.rxShift = u.rxShift /\ v.wire = u.wire /\ v.lost = u.lost
        /\ v.untold = u.untold /\ v.oe = u.oe
    BY <2>1 DEF UartType, UartFields
  <2>3. SentOf(u) = Idle(u.log, <<>>, u.tx) /\ SentOf(v) = Busy(u.log, <<>>, Head(u.tx), Tail(u.tx))
    BY <1>1, <1>6, <2>2 DEF SentOf
  <2>4. SentOf(v) = SentOf(u)
    <3>1. <<>> \in Seq(Nat)
      OBVIOUS
    <3>. QED
      BY <1>2, <1>6, <2>3, <3>1, Starts
  <2>5. Len(Tail(u.tx)) = Len(u.tx) - 1
    BY <1>2, <1>6, HeadTailProperties
  <2>6. Len(u.tx) <= Depth => Len(v.tx) <= Depth
    BY <1>2, <2>2, <2>5
  <2>. QED
    BY <1>3, <2>2, <2>4, <2>6, GotSame DEF Sent, v
<1>7. CASE u.txBits = 0 /\ ~(u.txe /\ ~u.brk /\ u.tx # <<>>)
  <2>1. v = u
    BY <1>7 DEF U!TickTx
  <2>. QED
    BY <2>1
<1>8. u.txBits > 1 \/ u.txBits = 1 \/ u.txBits = 0
  BY <1>2
<1>. QED
  BY <1>4, <1>5, <1>6, <1>7, <1>8

\* The receiver takes the bytes of the wire in turn to the FIFO, and tells of those it loses.
LEMMA TickRxKeeps ==
    ASSUME NEW u, UartType(u), NEW p, Told(p), Sent(u, p), Got(u, p)
    PROVE  UartType(U!TickRx(u)) /\ Sent(U!TickRx(u), p) /\ Got(U!TickRx(u), p)
<1>. DEFINE v == U!TickRx(u)
            bits == U!BitsPerFrame(u)
            in == Names(u.rx)
            out == Names(u.wire)
<1>1. bits \in Nat /\ bits > 0
  BY FrameLong
<1>2. u.rx \in Seq(Characters) /\ u.wire \in Seq(Characters) /\ u.rxShift \in Characters /\ u.rxBits \in Nat
  BY DEF UartType
<1>3. UartType(v)
  BY TickRxTyped
<1>9. /\ Len(u.rx) \in Nat /\ Depth \in Nat /\ in \in Seq(Nat) /\ out \in Seq(Nat) /\ u.rxShift.id \in Nat
      /\ p.read \in Seq(Nat) /\ p.fed \in Nat
  BY <1>2, CharactersNamed DEF Told
<1>10. \A g \in Characters : g.id \in Nat
  BY CharactersNamed
<1>11. /\ Ordered(GotOf(u, p), p.fed, u.lost) /\ u.lost \in SUBSET (1..p.fed)
       /\ (u.untold => u.oe) /\ Len(u.rx) <= Depth
  BY DEF Got
<1>. HIDE DEF bits, in, out
<1>4. CASE u.rxBits > 1
  <2>1. v = [u EXCEPT !.rxBits = @ - 1]
    BY <1>4 DEF U!TickRx
  <2>. HIDE DEF v
  <2>2. /\ v.txBits = u.txBits /\ v.log = u.log /\ v.txShift = u.txShift /\ v.tx = u.tx
        /\ v.rxBits = u.rxBits - 1 /\ v.rx = u.rx /\ v.rxShift = u.rxShift /\ v.wire = u.wire /\ v.lost = u.lost
        /\ v.untold = u.untold /\ v.oe = u.oe
    BY <2>1 DEF UartType, UartFields
  <2>3. v.rxBits > 0 /\ u.rxBits > 0
    BY <1>2, <1>4, <2>2
  <2>4. GotOf(v, p) = GotOf(u, p)
    BY <2>2, <2>3 DEF GotOf
  <2>5. Got(v, p)
    BY <1>11, <2>2, <2>4 DEF Got
  <2>. QED
    BY <1>3, <2>2, <2>5, SentSame DEF v
<1>5. CASE u.rxBits = 1 /\ Len(u.rx) < Depth
  <2>1. v = [u EXCEPT !.rxBits = 0, !.rx = Append(@, u.rxShift), !.ris = @ \cup u.rxShift.err]
    <3>1. ~(u.rxBits > 1) /\ ~(Len(u.rx) >= Depth) /\ u.rxBits # 0
      BY <1>5, <1>9
    <3>. HIDE DEF v
    <3>. QED
      BY <1>5, <3>1 DEF U!TickRx, v
  <2>. HIDE DEF v
  <2>2. /\ v.txBits = u.txBits /\ v.log = u.log /\ v.txShift = u.txShift /\ v.tx = u.tx
        /\ v.rxBits = 0 /\ v.rx = Append(u.rx, u.rxShift) /\ v.wire = u.wire /\ v.lost = u.lost
        /\ v.untold = u.untold /\ v.oe = u.oe
    BY <2>1 DEF UartType, UartFields
  <2>3. Names(v.rx) = Append(in, u.rxShift.id) /\ Len(v.rx) = Len(u.rx) + 1
    BY <1>2, <1>10, <2>2, NamesOf, AppendProperties DEF in
  <2>4. GotOf(u, p) = Busy(p.read, in, u.rxShift.id, out) /\ GotOf(v, p) = Idle(p.read, Append(in, u.rxShift.id), out)
    BY <1>5, <2>2, <2>3 DEF GotOf, in, out
  <2>5. GotOf(v, p) = GotOf(u, p)
    BY <1>9, <2>4, Arrives
  <2>6. Len(v.rx) <= Depth
    BY <1>5, <1>9, <2>3
  <2>7. Got(v, p)
    BY <1>11, <2>2, <2>5, <2>6 DEF Got
  <2>. QED
    BY <1>3, <2>2, <2>7, SentSame DEF v
<1>6. CASE u.rxBits = 1 /\ Len(u.rx) >= Depth
  <2>1. v = [u EXCEPT !.rxBits = 0, !.oe = TRUE, !.ris = @ \cup {"OE"},
                                !.lost = @ \cup {u.rxShift.id}, !.untold = TRUE]
    <3>1. ~(u.rxBits > 1) /\ ~(Len(u.rx) < Depth)
      BY <1>6, <1>9
    <3>. QED
      BY <1>6, <3>1 DEF U!TickRx
  <2>. HIDE DEF v
  <2>2. /\ v.txBits = u.txBits /\ v.log = u.log /\ v.txShift = u.txShift /\ v.tx = u.tx
        /\ v.rxBits = 0 /\ v.rx = u.rx /\ v.wire = u.wire /\ v.lost = u.lost \cup {u.rxShift.id}
        /\ v.oe = TRUE
    BY <2>1 DEF UartType, UartFields
  <2>3. GotOf(u, p) = Busy(p.read, in, u.rxShift.id, out) /\ GotOf(v, p) = Idle(p.read, in, out)
    BY <1>6, <2>2 DEF GotOf, in, out
  <2>4. Ordered(Idle(p.read, in, out), p.fed, u.lost \cup {u.rxShift.id}) /\ u.rxShift.id \in 1..p.fed
    <3>1. Ordered(Busy(p.read, in, u.rxShift.id, out), p.fed, u.lost)
      BY <1>11, <2>3
    <3>. QED
      BY <1>9, <3>1, Drops
  <2>5. Ordered(GotOf(v, p), p.fed, v.lost) /\ v.lost \in SUBSET (1..p.fed)
    BY <1>11, <2>2, <2>3, <2>4
  <2>6. Got(v, p)
    BY <1>11, <2>2, <2>5 DEF Got
  <2>. QED
    BY <1>3, <2>2, <2>6, SentSame DEF v
<1>7. CASE u.rxBits = 0 /\ u.rxe /\ u.wire # <<>>
  <2>1. v = [u EXCEPT !.rxShift = Head(u.wire), !.wire = Tail(@), !.rxBits = bits]
    BY <1>7 DEF U!TickRx, bits
  <2>. HIDE DEF v
  <2>2. /\ v.txBits = u.txBits /\ v.log = u.log /\ v.txShift = u.txShift /\ v.tx = u.tx
        /\ v.rxBits = bits /\ v.rx = u.rx /\ v.rxShift = Head(u.wire) /\ v.wire = Tail(u.wire) /\ v.lost = u.lost
        /\ v.untold = u.untold /\ v.oe = u.oe
    BY <2>1 DEF UartType, UartFields
  <2>3. out # <<>> /\ Head(out) = Head(u.wire).id /\ Names(Tail(u.wire)) = Tail(out)
    BY <1>2, <1>7, <1>10, NamesOf DEF out
  <2>4. GotOf(u, p) = Idle(p.read, in, out) /\ GotOf(v, p) = Busy(p.read, in, Head(out), Tail(out))
    <3>1. v.rxBits > 0 /\ ~(u.rxBits > 0)
      BY <1>1, <1>7, <2>2
    <3>. QED
      BY <2>2, <2>3, <3>1 DEF GotOf, in, out
  <2>5. GotOf(v, p) = GotOf(u, p)
    BY <1>9, <2>3, <2>4, Starts
  <2>6. Got(v, p)
    BY <1>11, <2>2, <2>5 DEF Got
  <2>. QED
    BY <1>3, <2>2, <2>6, SentSame DEF v
<1>8. CASE u.rxBits = 0 /\ ~(u.rxe /\ u.wire # <<>>)
  <2>1. v = u
    BY <1>8 DEF U!TickRx
  <2>. QED
    BY <2>1
<1>12. (u.rxBits > 1 \/ u.rxBits = 1 \/ u.rxBits = 0) /\ (Len(u.rx) < Depth \/ Len(u.rx) >= Depth)
  <2>1. u.rxBits > 1 \/ u.rxBits = 1 \/ u.rxBits = 0
    BY <1>2
  <2>2. Len(u.rx) \in Nat /\ Depth \in Nat
    BY <1>9
  <2>3. Len(u.rx) < Depth \/ Len(u.rx) >= Depth
    BY <2>2
  <2>. QED
    BY <2>1, <2>3
<1>. QED
  BY <1>4, <1>5, <1>6, <1>7, <1>8, <1>12

\* refresh_irq leaves the bytes alone.
LEMMA UartRefreshes ==
    ASSUME NEW u, UartType(u)
    PROVE  \A f \in UartFields \ {"pend", "touched"} : U!RefreshIrq(u)[f] = u[f]
BY DEF U!RefreshIrq, UartType

LEMMA UartRefreshKeeps ==
    ASSUME NEW u, UartType(u), NEW p, Told(p), Sent(u, p), Got(u, p)
    PROVE  UartKept(U!RefreshIrq(u), p)
<1>. DEFINE v == U!RefreshIrq(u)
<1>1. UartLine(v)
  BY UartRefreshed
<1>2. \A f \in UartFields \ {"pend", "touched"} : v[f] = u[f]
  BY UartRefreshes
<1>. HIDE DEF v
<1>3. /\ v.txBits = u.txBits /\ v.log = u.log /\ v.txShift = u.txShift /\ v.tx = u.tx
      /\ v.rxBits = u.rxBits /\ v.rx = u.rx /\ v.rxShift = u.rxShift /\ v.wire = u.wire /\ v.lost = u.lost
      /\ v.untold = u.untold /\ v.oe = u.oe
  BY <1>2 DEF UartFields
<1>. QED
  BY <1>1, <1>3, SentSame, GotSame DEF UartKept, v

LEMMA TickBitKeeps ==
    ASSUME NEW u, NEW p, UartKept(u, p)
    PROVE  UartKept(U!TickBit(u), p)
<1>1. UartType(U!TickTx(u)) /\ Sent(U!TickTx(u), p) /\ Got(U!TickTx(u), p) /\ Told(p)
  BY TickTxKeeps DEF UartKept, UartLine
<1>2. UartType(U!TickRx(U!TickTx(u))) /\ Sent(U!TickRx(U!TickTx(u)), p) /\ Got(U!TickRx(U!TickTx(u)), p)
  BY <1>1, TickRxKeeps
<1>. QED
  BY <1>1, <1>2, UartRefreshKeeps DEF U!TickBit

\* A clock of the UART
LEMMA UartClockKeeps ==
    ASSUME UartKept(dev, past), U!Clock
    PROVE  UartKept(dev', past')
<1>. DEFINE total == dev.acc + Frac
            period == U!BitPeriod(dev)
            N == total \div period
            after[n \in 0..N] == IF n = 0 THEN dev ELSE U!TickBit(after[n - 1])
            a == total % period
            X == {v \in [UartFields -> UartValues] : UartKept(v, past)}
<1>1. dev' = [after[N] EXCEPT !.acc = a] /\ period > 0 /\ past' = past
  BY DEF U!Clock, U!Ticked
<1>2. total \in Nat /\ period \in Nat \ {0}
  <2>1. UartType(dev) /\ dev.acc \in Nat /\ Frac \in Nat
    BY UartAssumption DEF UartKept, UartLine, UartType
  <2>2. period \in Nat
    BY <2>1, PeriodTyped
  <2>. HIDE DEF period
  <2>. QED
    BY <1>1, <2>1, <2>2
<1>3. N \in Nat /\ a \in Nat
  <2>. HIDE DEF total, period
  <2>. QED
    BY <1>2, QuotientBelow
<1>4. dev \in X /\ \A v \in X : U!TickBit(v) \in X
  <2>1. \A v : UartKept(v, past) => v \in [UartFields -> UartValues]
    BY DEF UartKept, UartLine, UartType
  <2>. QED
    BY <2>1, TickBitKeeps
<1>5. after[N] \in X
  <2>. HIDE DEF N, X
  <2>. QED
    BY <1>3, <1>4, BitsKeep
<1>. DEFINE u == after[N]
<1>6. UartKept(u, past)
  BY <1>5
<1>. HIDE DEF u, a, after, N, X, total, period
<1>7. dev' = [u EXCEPT !.acc = a]
  BY <1>1 DEF u
<1>8. UartLine(dev')
  BY UartClock DEF UartKept
<1>9. /\ dev'.txBits = u.txBits /\ dev'.log = u.log /\ dev'.txShift = u.txShift /\ dev'.tx = u.tx
      /\ dev'.rxBits = u.rxBits /\ dev'.rx = u.rx /\ dev'.rxShift = u.rxShift /\ dev'.wire = u.wire /\ dev'.lost = u.lost
      /\ dev'.untold = u.untold /\ dev'.oe = u.oe
  BY <1>6, <1>7 DEF UartKept, UartLine, UartType, UartFields
<1>. QED
  BY <1>1, <1>6, <1>8, <1>9, SentSame, GotSame DEF UartKept

\* A byte more in the queue, and a byte more on the wire
LEMMA SentMore ==
    ASSUME NEW u, UartType(u), NEW p, Told(p), Sent(u, p), Len(u.tx) < Depth,
           NEW v, v.txBits = u.txBits, v.log = u.log, v.txShift = u.txShift, v.tx = Append(u.tx, p.written + 1),
           NEW q, q.written = p.written + 1
    PROVE  Sent(v, q)
<1>1. u.tx \in Seq(Nat) /\ u.txShift \in Nat /\ u.log \in Seq(Nat) /\ p.written \in Nat /\ <<>> \in Seq(Nat)
  BY DEF UartType, Told
<1>2. PICK n \in Nat : n = p.written + 1
  BY <1>1
<1>3. SentOf(v) = Append(SentOf(u), n) /\ SentOf(u) \in Seq(Nat)
  <2>1. CASE u.txBits > 0
    <3>1. SentOf(u) = Busy(u.log, <<>>, u.txShift, u.tx) /\ SentOf(v) = Busy(u.log, <<>>, u.txShift, Append(u.tx, n))
      BY <1>2, <2>1 DEF SentOf
    <3>2. PICK x \in Nat : x = u.txShift
      BY <1>1
    <3>3. /\ Busy(u.log, <<>>, x, u.tx) \in Seq(Nat)
          /\ Busy(u.log, <<>>, x, Append(u.tx, n)) = Append(Busy(u.log, <<>>, x, u.tx), n)
      <4>1. PICK none \in Seq(Nat) : none = <<>>
        BY <1>1
      <4>2. /\ Busy(u.log, none, x, u.tx) \in Seq(Nat)
            /\ Busy(u.log, none, x, Append(u.tx, n)) = Append(Busy(u.log, none, x, u.tx), n)
        BY <1>1, BusyJoined, SMTT(60)
      <4>. QED
        BY <4>1, <4>2
    <3>. QED
      BY <3>1, <3>2, <3>3
  <2>2. CASE ~(u.txBits > 0)
    <3>1. SentOf(u) = Idle(u.log, <<>>, u.tx) /\ SentOf(v) = Idle(u.log, <<>>, Append(u.tx, n))
      BY <1>2, <2>2 DEF SentOf
    <3>3. /\ Idle(u.log, <<>>, u.tx) \in Seq(Nat)
          /\ Idle(u.log, <<>>, Append(u.tx, n)) = Append(Idle(u.log, <<>>, u.tx), n)
      <4>1. PICK none \in Seq(Nat) : none = <<>>
        BY <1>1
      <4>2. /\ Idle(u.log, none, u.tx) \in Seq(Nat)
            /\ Idle(u.log, none, Append(u.tx, n)) = Append(Idle(u.log, none, u.tx), n)
        BY <1>1, IdleJoined
      <4>. QED
        BY <4>1, <4>2
    <3>. QED
      BY <3>1, <3>3
  <2>. QED
    BY <2>1, <2>2
<1>4. Ordered(SentOf(v), q.written, {})
  <2>1. Ordered(SentOf(u), p.written, {})
    BY DEF Sent
  <2>. QED
    BY <1>1, <1>2, <1>3, <2>1, OrderGrows
<1>5. Len(v.tx) <= Depth
  <2>1. Len(v.tx) = Len(u.tx) + 1 /\ Len(u.tx) \in Nat /\ Depth \in Nat
    BY <1>1, <1>2, AppendProperties, CharactersNamed
  <2>. QED
    BY <2>1
<1>. QED
  BY <1>4, <1>5 DEF Sent

LEMMA GotMore ==
    ASSUME NEW u, UartType(u), NEW p, Told(p), Got(u, p), NEW c \in Characters, c.id = p.fed + 1,
           NEW v, v.rxBits = u.rxBits, v.rx = u.rx, v.rxShift = u.rxShift, v.wire = Append(u.wire, c), v.lost = u.lost,
           v.untold = u.untold, v.oe = u.oe,
           NEW q, q.fed = p.fed + 1, q.read = p.read
    PROVE  Got(v, q)
<1>. DEFINE in == Names(u.rx)
            out == Names(u.wire)
<1>1. /\ in \in Seq(Nat) /\ out \in Seq(Nat) /\ u.rxShift.id \in Nat /\ p.fed \in Nat /\ p.read \in Seq(Nat)
      /\ u.wire \in Seq(Characters) /\ \A g \in Characters : g.id \in Nat
  BY CharactersNamed DEF UartType, Told
<1>2. PICK n \in Nat : n = p.fed + 1
  BY <1>1
<1>3. Names(v.wire) = Append(out, n)
  <2>1. \A g \in Characters : Names(Append(u.wire, g)) = Append(Names(u.wire), g.id)
    BY <1>1, NamesOf
  <2>. QED
    BY <1>2, <2>1
<1>. HIDE DEF in, out
<1>4. GotOf(v, q) = Append(GotOf(u, p), n) /\ GotOf(u, p) \in Seq(Nat)
  <2>1. CASE u.rxBits > 0
    <3>1. GotOf(u, p) = Busy(p.read, in, u.rxShift.id, out) /\ GotOf(v, q) = Busy(p.read, in, u.rxShift.id, Append(out, n))
      BY <1>3, <2>1 DEF GotOf, in, out
    <3>2. PICK x \in Nat : x = u.rxShift.id
      BY <1>1
    <3>3. /\ Busy(p.read, in, x, out) \in Seq(Nat)
          /\ Busy(p.read, in, x, Append(out, n)) = Append(Busy(p.read, in, x, out), n)
      <4>1. p.read \in Seq(Nat) /\ in \in Seq(Nat) /\ out \in Seq(Nat)
        BY <1>1
      <4>. QED
        BY <4>1, BusyJoined
    <3>. QED
      BY <3>1, <3>2, <3>3
  <2>2. CASE ~(u.rxBits > 0)
    <3>1. GotOf(u, p) = Idle(p.read, in, out) /\ GotOf(v, q) = Idle(p.read, in, Append(out, n))
      BY <1>3, <2>2 DEF GotOf, in, out
    <3>2. /\ Idle(p.read, in, out) \in Seq(Nat)
          /\ Idle(p.read, in, Append(out, n)) = Append(Idle(p.read, in, out), n)
      BY <1>1, IdleJoined
    <3>. QED
      BY <3>1, <3>2
  <2>. QED
    BY <2>1, <2>2
<1>5. Ordered(GotOf(u, p), p.fed, u.lost) /\ u.lost \in SUBSET (1..p.fed)
  BY DEF Got
<1>6. Ordered(GotOf(v, q), q.fed, v.lost)
  BY <1>1, <1>2, <1>4, <1>5, OrderGrows
<1>7. 1..p.fed \subseteq 1..q.fed
  BY <1>1
<1>8. v.lost \in SUBSET (1..q.fed)
  BY <1>5, <1>7
<1>. QED
  BY <1>6, <1>8 DEF Got

\* A byte read is the first of the FIFO.
LEMMA GotRead ==
    ASSUME NEW u, UartType(u), NEW p, Told(p), Got(u, p), u.rx # <<>>,
           NEW v, v.rxBits = u.rxBits, v.rx = Tail(u.rx), v.rxShift = u.rxShift, v.wire = u.wire, v.lost = u.lost,
           v.untold = u.untold, v.oe = u.oe,
           NEW q, q.fed = p.fed, q.read = Append(p.read, Head(u.rx).id)
    PROVE  Got(v, q) /\ q.read \in Seq(Nat)
<1>. DEFINE in == Names(u.rx)
            out == Names(u.wire)
<1>1. /\ in \in Seq(Nat) /\ p.read \in Seq(Nat)
      /\ u.rx \in Seq(Characters) /\ \A g \in Characters : g.id \in Nat
  BY CharactersNamed DEF UartType, Told
<1>2. in # <<>> /\ Head(in) = Head(u.rx).id /\ Names(Tail(u.rx)) = Tail(in)
  BY <1>1, NamesOf
<1>. HIDE DEF in, out
<1>3. /\ Append(p.read, Head(in)) \in Seq(Nat)
      /\ Idle(Append(p.read, Head(in)), Tail(in), out) = Idle(p.read, in, out)
      /\ Busy(Append(p.read, Head(in)), Tail(in), u.rxShift.id, out) = Busy(p.read, in, u.rxShift.id, out)
  BY <1>1, <1>2, Passes
<1>4. GotOf(v, q) = GotOf(u, p)
  BY <1>2, <1>3 DEF GotOf, in, out
<1>5. Len(v.rx) <= Depth
  <2>1. Len(v.rx) = Len(u.rx) - 1 /\ Len(u.rx) \in Nat /\ Depth \in Nat /\ Len(u.rx) <= Depth
    BY <1>1, HeadTailProperties, CharactersNamed DEF Got
  <2>. QED
    BY <2>1
<1>. QED
  BY <1>2, <1>3, <1>4, <1>5 DEF Got

\* The parts of the state that the account of the bytes depends on
ByteFields == {"txBits", "log", "txShift", "tx", "rxBits", "rx", "rxShift", "wire", "lost", "untold", "oe"}

LEMMA BytesSame ==
    ASSUME NEW u, NEW p, Sent(u, p), Got(u, p), NEW v, \A f \in ByteFields : v[f] = u[f],
           NEW q, q.written = p.written, q.fed = p.fed, q.read = p.read
    PROVE  Sent(v, q) /\ Got(v, q)
<1>1. /\ v.txBits = u.txBits /\ v.log = u.log /\ v.txShift = u.txShift /\ v.tx = u.tx
      /\ v.rxBits = u.rxBits /\ v.rx = u.rx /\ v.rxShift = u.rxShift /\ v.wire = u.wire /\ v.lost = u.lost
      /\ v.untold = u.untold /\ v.oe = u.oe
  BY DEF ByteFields
<1>. QED
  BY <1>1, SentSame, GotSame

LEMMA BytesRefreshed ==
    ASSUME NEW u, DOMAIN u = UartFields
    PROVE  \A f \in ByteFields : U!RefreshIrq(u)[f] = u[f]
BY DEF U!RefreshIrq, ByteFields, UartFields

LEMMA NothingYet ==
    ASSUME NEW v, \A f \in ByteFields : v[f] = U!Cleared(<<>>)[f], NEW p, p.written = 0, p.fed = 0, p.read = <<>>
    PROVE  Sent(v, p) /\ Got(v, p)
<1>1. /\ v.txBits = 0 /\ v.log = <<>> /\ v.tx = <<>> /\ v.rxBits = 0 /\ v.rx = <<>> /\ v.wire = <<>> /\ v.lost = {}
      /\ v.untold = FALSE
  BY DEF U!Cleared, ByteFields
<1>2. Names(<<>>) = <<>>
  BY DEF Names
<1>3. Idle(<<>>, <<>>, <<>>) = <<>>
  <2>1. <<>> \in Seq(Nat)
    OBVIOUS
  <2>. QED
    BY <2>1, ConcatEmptySeq DEF Idle
<1>4. Ordered(<<>>, 0, {})
  BY DEF Ordered
<1>5. SentOf(v) = <<>> /\ GotOf(v, p) = <<>>
  <2>1. ~(v.txBits > 0) /\ ~(v.rxBits > 0)
    BY <1>1
  <2>. QED
    BY <1>1, <1>2, <1>3, <2>1 DEF SentOf, GotOf
<1>6. Len(v.tx) <= Depth /\ Len(v.rx) <= Depth
  BY <1>1, UartAssumption
<1>. QED
  BY <1>1, <1>4, <1>5, <1>6 DEF Sent, Got

LEMMA UartBegins == ASSUME U!Init PROVE UartKept(dev, past)
<1>1. PICK b : dev = U!Cleared(<<>>) /\ past = U!Fresh(b)
  BY DEF U!Init
<1>2. UartLine(dev)
  BY <1>1, ClearedUart
<1>3. past.written = 0 /\ past.fed = 0 /\ past.read = <<>> /\ Told(past)
  BY <1>1 DEF U!Fresh, Told
<1>4. Sent(dev, past) /\ Got(dev, past)
  BY <1>1, <1>3, NothingYet
<1>. QED
  BY <1>2, <1>3, <1>4 DEF UartKept

\* The wire and the data register take the bytes in order,
LEMMA UartWiresKeep ==
    ASSUME UartKept(dev, past), U!Feed \/ U!WriteData \/ U!ReadData
    PROVE  Told(past') /\ Sent(dev', past') /\ Got(dev', past')
<1>1. UartType(dev) /\ Told(past) /\ Sent(dev, past) /\ Got(dev, past) /\ DOMAIN dev = UartFields
  BY DEF UartKept, UartLine, UartType
<1>2. CASE U!Feed
  <2>1. PICK err \in Errors : dev' = [dev EXCEPT !.wire = Append(@, U!Byte(past.fed + 1, err))]
    BY <1>2 DEF U!Feed
  <2>2. past' = [past EXCEPT !.fed = @ + 1]
    BY <1>2 DEF U!Feed
  <2>. DEFINE c == U!Byte(past.fed + 1, err)
  <2>3. c \in Characters /\ c.id = past.fed + 1
    <3>1. err \in SUBSET Interrupts
      BY ErrorsAssumption DEF Interrupts
    <3>. QED
      BY <1>1, <3>1 DEF U!Byte, Characters, Told
  <2>4. dev' = [dev EXCEPT !.wire = Append(@, c)]
    BY <2>1
  <2>. HIDE DEF c
  <2>5. /\ dev'.txBits = dev.txBits /\ dev'.log = dev.log /\ dev'.txShift = dev.txShift /\ dev'.tx = dev.tx
        /\ dev'.rxBits = dev.rxBits /\ dev'.rx = dev.rx /\ dev'.rxShift = dev.rxShift /\ dev'.wire = Append(dev.wire, c)
        /\ dev'.lost = dev.lost /\ dev'.untold = dev.untold /\ dev'.oe = dev.oe
    BY <1>1, <2>4 DEF UartFields
  <2>6. past'.written = past.written /\ past'.fed = past.fed + 1 /\ past'.read = past.read /\ DOMAIN past' = DOMAIN past
    BY <1>1, <2>2 DEF Told
  <2>7. Told(past')
    BY <1>1, <2>6 DEF Told
  <2>8. Sent(dev', past')
    BY <1>1, <2>5, <2>6, SentSame
  <2>9. Got(dev', past')
    BY <1>1, <2>3, <2>5, <2>6, GotMore
  <2>. QED
    BY <2>7, <2>8, <2>9
<1>3. ASSUME U!WriteData PROVE Told(past') /\ Sent(dev', past') /\ Got(dev', past')
  <2>1. CASE /\ Len(dev.tx) < Depth
             /\ dev' = U!RefreshIrq([dev EXCEPT !.tx = Append(@, past.written + 1)])
             /\ past' = [past EXCEPT !.written = @ + 1]
    <3>. DEFINE v == [dev EXCEPT !.tx = Append(@, past.written + 1)]
    <3>1. DOMAIN v = UartFields /\ v.tx = Append(dev.tx, past.written + 1) /\ \A f \in ByteFields \ {"tx"} : v[f] = dev[f]
      BY <1>1 DEF UartFields, ByteFields
    <3>2. dev' = U!RefreshIrq(v)
      BY <2>1
    <3>. HIDE DEF v
    <3>3. \A f \in ByteFields : dev'[f] = v[f]
      BY <3>1, <3>2, BytesRefreshed
    <3>4. /\ dev'.txBits = dev.txBits /\ dev'.log = dev.log /\ dev'.txShift = dev.txShift
          /\ dev'.tx = Append(dev.tx, past.written + 1)
          /\ dev'.rxBits = dev.rxBits /\ dev'.rx = dev.rx /\ dev'.rxShift = dev.rxShift /\ dev'.wire = dev.wire
          /\ dev'.lost = dev.lost /\ dev'.untold = dev.untold /\ dev'.oe = dev.oe
      BY <3>1, <3>3 DEF ByteFields
    <3>5. past'.written = past.written + 1 /\ past'.fed = past.fed /\ past'.read = past.read /\ DOMAIN past' = DOMAIN past
      BY <1>1, <2>1 DEF Told
    <3>6. Told(past')
      BY <1>1, <3>5 DEF Told
    <3>7. Got(dev', past')
      BY <1>1, <3>4, <3>5, GotSame
    <3>8. Sent(dev', past')
      BY <1>1, <2>1, <3>4, <3>5, SentMore
    <3>. QED
      BY <3>6, <3>7, <3>8
  <2>2. CASE dev' = U!RefreshIrq(dev) /\ past' = past
    <3>1. \A f \in ByteFields : dev'[f] = dev[f]
      BY <1>1, <2>2, BytesRefreshed
    <3>. QED
      BY <1>1, <2>2, <3>1, BytesSame
  <2>. QED
    BY <1>3, <2>1, <2>2 DEF U!WriteData
<1>4. CASE U!ReadData
  <2>. DEFINE e == Head(dev.rx).err
              v == [dev EXCEPT !.rx = Tail(@), !.rxErr = e]
  <2>1. dev.rx # <<>> /\ dev' = U!RefreshIrq(v) /\ past' = [past EXCEPT !.read = Append(@, Head(dev.rx).id)]
    BY <1>4 DEF U!ReadData
  <2>. HIDE DEF e
  <2>2. DOMAIN v = UartFields /\ v.rx = Tail(dev.rx) /\ \A f \in ByteFields \ {"rx"} : v[f] = dev[f]
    BY <1>1 DEF UartFields, ByteFields
  <2>. HIDE DEF v
  <2>3. \A f \in ByteFields : dev'[f] = v[f]
    BY <2>1, <2>2, BytesRefreshed
  <2>4. /\ dev'.txBits = dev.txBits /\ dev'.log = dev.log /\ dev'.txShift = dev.txShift /\ dev'.tx = dev.tx
        /\ dev'.rxBits = dev.rxBits /\ dev'.rx = Tail(dev.rx) /\ dev'.rxShift = dev.rxShift /\ dev'.wire = dev.wire
        /\ dev'.lost = dev.lost /\ dev'.untold = dev.untold /\ dev'.oe = dev.oe
    BY <2>2, <2>3 DEF ByteFields
  <2>5. /\ past'.written = past.written /\ past'.fed = past.fed /\ past'.read = Append(past.read, Head(dev.rx).id)
        /\ DOMAIN past' = DOMAIN past
    BY <1>1, <2>1 DEF Told
  <2>6. Got(dev', past') /\ past'.read \in Seq(Nat)
    BY <1>1, <2>1, <2>4, <2>5, GotRead
  <2>7. Told(past')
    BY <1>1, <2>5, <2>6 DEF Told
  <2>8. Sent(dev', past')
    BY <1>1, <2>4, <2>5, SentSame
  <2>. QED
    BY <2>6, <2>7, <2>8
<1>. QED
  BY <1>2, <1>3, <1>4

\* and the other registers leave them alone.
LEMMA UartRegistersKeep ==
    ASSUME UartKept(dev, past),
           \/ U!ClearErrors \/ U!WriteIcr \/ U!WriteSettings
           \/ U!EnterHandler \/ U!ResetCore \/ U!WriteNvic \/ U!Reset
    PROVE  Told(past') /\ Sent(dev', past') /\ Got(dev', past')
<1>1. UartType(dev) /\ Told(past) /\ Sent(dev, past) /\ Got(dev, past) /\ DOMAIN dev = UartFields
  BY DEF UartKept, UartLine, UartType
<1>2. ASSUME past' = past, \A f \in ByteFields : dev'[f] = dev[f] PROVE Told(past') /\ Sent(dev', past') /\ Got(dev', past')
  BY <1>1, <1>2, BytesSame
<1>3. CASE U!ClearErrors
  <2>. DEFINE r == dev.ris \ U!Sticky
              v == [dev EXCEPT !.rxErr = {}, !.oe = FALSE, !.untold = FALSE, !.ris = r]
  <2>1. dev' = U!RefreshIrq(v) /\ past' = past
    BY <1>3 DEF U!ClearErrors
  <2>. HIDE DEF r
  <2>2. DOMAIN v = UartFields /\ v.untold = FALSE /\ \A f \in ByteFields \ {"oe", "untold"} : v[f] = dev[f]
    BY <1>1 DEF UartFields, ByteFields
  <2>. HIDE DEF v
  <2>3. \A f \in ByteFields : dev'[f] = v[f]
    BY <2>1, <2>2, BytesRefreshed
  <2>4. /\ dev'.txBits = dev.txBits /\ dev'.log = dev.log /\ dev'.txShift = dev.txShift /\ dev'.tx = dev.tx
        /\ dev'.rxBits = dev.rxBits /\ dev'.rx = dev.rx /\ dev'.rxShift = dev.rxShift /\ dev'.wire = dev.wire
        /\ dev'.lost = dev.lost /\ dev'.untold = FALSE
    BY <2>2, <2>3 DEF ByteFields
  <2>5. GotOf(dev', past') = GotOf(dev, past)
    BY <2>1, <2>4 DEF GotOf
  <2>6. Got(dev', past')
    BY <1>1, <2>1, <2>4, <2>5 DEF Got
  <2>. QED
    BY <1>1, <2>1, <2>4, <2>6, SentSame
<1>4. CASE U!WriteIcr
  <2>1. PICK bits : dev' = U!RefreshIrq([dev EXCEPT !.ris = @ \ bits]) /\ past' = past
    BY <1>4 DEF U!WriteIcr
  <2>. DEFINE r == dev.ris \ bits
              v == [dev EXCEPT !.ris = r]
  <2>2. dev' = U!RefreshIrq(v)
    BY <2>1
  <2>. HIDE DEF r
  <2>3. DOMAIN v = UartFields /\ \A f \in ByteFields : v[f] = dev[f]
    BY <1>1 DEF UartFields, ByteFields
  <2>. HIDE DEF v
  <2>. QED
    BY <1>2, <2>1, <2>2, <2>3, BytesRefreshed
<1>5. CASE U!WriteSettings
  <2>1. PICK s \in UartSettings :
            LET new == [f \in DOMAIN dev |-> IF f \in DOMAIN s THEN s[f] ELSE dev[f]]
            IN  dev' = IF DOMAIN s \cap {"en", "txe", "rxe", "imsc"} # {} THEN U!RefreshIrq(new) ELSE new
    BY <1>5 DEF U!WriteSettings
  <2>2. past' = [past EXCEPT !.changes = @ + 1]
    BY <1>5 DEF U!WriteSettings
  <2>. DEFINE new == [f \in DOMAIN dev |-> IF f \in DOMAIN s THEN s[f] ELSE dev[f]]
  <2>3. dev' = new \/ dev' = U!RefreshIrq(new)
    BY <2>1
  <2>4. \A f \in DOMAIN s : f \in {"en", "txe", "rxe", "brk", "pen", "stp2", "txdma", "rxdma", "wlen", "ibrd", "fbrd", "imsc"}
    BY UartSettingsAssumption
  <2>5. DOMAIN new = UartFields /\ \A f \in ByteFields : new[f] = dev[f]
    BY <1>1, <2>4 DEF ByteFields, UartFields
  <2>. HIDE DEF new
  <2>6. \A f \in ByteFields : dev'[f] = dev[f]
    BY <2>3, <2>5, BytesRefreshed
  <2>7. past'.written = past.written /\ past'.fed = past.fed /\ past'.read = past.read /\ DOMAIN past' = DOMAIN past
    BY <1>1, <2>2 DEF Told
  <2>8. Told(past')
    BY <1>1, <2>7 DEF Told
  <2>. QED
    BY <1>1, <2>6, <2>7, <2>8, BytesSame
<1>6. CASE U!EnterHandler \/ U!ResetCore \/ U!WriteNvic
  <2>1. past' = past /\ \E p, t : dev' = [dev EXCEPT !.pend = p, !.touched = t]
    BY <1>6 DEF U!EnterHandler, U!ResetCore, U!WriteNvic
  <2>2. \A f \in ByteFields : dev'[f] = dev[f]
    BY <1>1, <2>1 DEF ByteFields, UartFields
  <2>. QED
    BY <1>2, <2>1, <2>2
<1>7. CASE U!Reset
  <2>. DEFINE v == U!Cleared(<<>>)
  <2>1. dev' = U!RefreshIrq(v) /\ past' = [U!Fresh(past.bounds) EXCEPT !.changes = past.changes]
    BY <1>7 DEF U!Reset
  <2>2. DOMAIN v = UartFields
    BY DEF U!Cleared, UartFields
  <2>. HIDE DEF v
  <2>3. \A f \in ByteFields : dev'[f] = v[f]
    BY <2>1, <2>2, BytesRefreshed
  <2>4. past'.written = 0 /\ past'.fed = 0 /\ past'.read = <<>> /\ Told(past')
    BY <2>1 DEF U!Fresh, Told
  <2>. QED
    BY <2>3, <2>4, NothingYet DEF v
<1>. QED
  BY <1>3, <1>4, <1>5, <1>6, <1>7

LEMMA UartStepKeeps ==
    ASSUME UartKept(dev, past), U!Next
    PROVE  UartKept(dev', past')
<1>1. UartLine(dev) /\ UartPast(past)
  BY DEF UartKept, UartPast, Told
<1>2. UartLine(dev')
  BY <1>1, UartStep
<1>3. CASE U!Clock
  BY <1>3, UartClockKeeps
<1>4. CASE ~U!Clock
  <2>1. Told(past') /\ Sent(dev', past') /\ Got(dev', past')
    BY <1>4, UartWiresKeep, UartRegistersKeep DEF U!Next, U!DmaPaced
  <2>. QED
    BY <1>2, <2>1 DEF UartKept
<1>. QED
  BY <1>3, <1>4

\* So what the UART says of its bytes is so.
LEMMA UartAccounted == ASSUME UartKept(dev, past) PROVE U!Accounted
<1>1. UartType(dev) /\ Told(past) /\ Sent(dev, past) /\ Got(dev, past)
  BY DEF UartKept, UartLine
<1>. DEFINE in == Names(dev.rx)
            out == Names(dev.wire)
<1>2. in \in Seq(Nat) /\ out \in Seq(Nat) /\ past.read \in Seq(Nat) /\ dev.log \in Seq(Nat) /\ dev.tx \in Seq(Nat)
  BY <1>1, CharactersNamed DEF UartType, Told
<1>3. U!Ids(dev.rx) = in /\ U!Ids(dev.wire) = out
  BY DEF U!Ids, Names
<1>. HIDE DEF in, out
<1>4. SentOf(dev) = (dev.log \o (IF dev.txBits > 0 THEN <<dev.txShift>> ELSE <<>>)) \o dev.tx
  <2>1. dev.log \o <<>> = dev.log
    BY <1>2, ConcatEmptySeq
  <2>2. CASE dev.txBits > 0
    BY <2>1, <2>2 DEF SentOf, Busy
  <2>3. CASE ~(dev.txBits > 0)
    BY <2>1, <2>3 DEF SentOf, Idle
  <2>. QED
    BY <2>2, <2>3
<1>5. GotOf(dev, past)
        = ((past.read \o in) \o (IF dev.rxBits > 0 THEN <<dev.rxShift.id>> ELSE <<>>)) \o out
  <2>1. CASE dev.rxBits > 0
    BY <2>1 DEF GotOf, Busy, in, out
  <2>2. CASE ~(dev.rxBits > 0)
    <3>1. ((past.read \o in) \o <<>>) \o out = Idle(past.read, in, out)
      BY <1>2, NothingBetween
    <3>. QED
      BY <2>2, <3>1 DEF GotOf, in, out
  <2>. QED
    BY <2>1, <2>2
<1>6. U!InOrder(SentOf(dev), past.written, {}) /\ U!InOrder(GotOf(dev, past), past.fed, dev.lost)
  BY <1>1 DEF Ordered, U!InOrder, Sent, Got
<1>. QED
  BY <1>1, <1>3, <1>4, <1>5, <1>6 DEF U!Accounted, Sent, Got

-----------------------------------------------------------------------------
(* Every unit *)

\* What is between the ends of a unit, and what has passed them
Kept ==
    /\ unit = "uart" => UartKept(dev, past)
    /\ unit = "spi" => SpiInv(dev, past)
    /\ unit = "i2c" => BusKept(dev, past)
    /\ unit = "adc" => AdcKept(dev, past)
    /\ unit = "pins" => PinsKept(dev, past)
    /\ unit = "tft" => TftKept(dev, past)
    /\ unit = "oled" => OledKept(dev, past)

\* Theorem: what goes in at one end of a port or a FIFO comes out at the other, once and in
\* order, but for what the unit says is lost; a device on the SPI samples the bits of the
\* word, a round robin is fair, no edge of a pin is missed, and a display shows what it was
\* sent, whatever the depths of the FIFOs, the sizes of words, frames and panels, and the
\* traffic.
THEOREM AccountedHolds == Spec => []Accounted
<1>1. Init => Kept
  BY UartBegins, SpiBegins, I2cBegins, SamplesBegin, PinsBeginKept, TftBegins, OledBegins DEF Init, Kept
<1>2. Kept /\ [Next]_vars => Kept'
  <2>1. CASE UNCHANGED vars
    BY <2>1 DEF vars, Kept
  <2>2. CASE Kept /\ Next
    <3>1. unit = "uart" => UartKept(dev', past')
      BY <2>2, UartStepKeeps DEF Next, Kept
    <3>2. unit = "spi" => SpiInv(dev', past')
      BY <2>2, SpiStepKeeps DEF Next, Kept
    <3>3. unit = "i2c" => BusKept(dev', past')
      BY <2>2, I2cStepKeeps DEF Next, Kept
    <3>4. unit = "adc" => AdcKept(dev', past')
      BY <2>2, SamplesKeep DEF Next, Kept
    <3>5. unit = "pins" => PinsKept(dev', past')
      BY <2>2, PinsStepKeeps DEF Next, Kept
    <3>6. unit = "tft" => TftKept(dev', past')
      BY <2>2, TftStepKeeps DEF Next, Kept
    <3>7. unit = "oled" => OledKept(dev', past')
      BY <2>2, OledStepKeeps DEF Next, Kept
    <3>8. unit' = unit
      BY <2>2 DEF Next
    <3>. QED
      BY <3>1, <3>2, <3>3, <3>4, <3>5, <3>6, <3>7, <3>8 DEF Kept
  <2>. QED
    BY <2>1, <2>2
<1>3. Kept => Accounted
  BY UartAccounted, SpiAccounted, I2cAccounted, SamplesAccounted, PinsAccounted, TftAccounted, OledAccounted
     DEF Kept, Accounted
<1>. QED
  BY <1>1, <1>2, <1>3, PTL DEF Spec
=============================================================================
