--------------------------------- MODULE Pwm ---------------------------------
(***************************************************************************)
(* A PWM slice with its wrap interrupt: class Pwm of                       *)
(* src/peripherals/pwm.cpp; the eight slices share nothing but the         *)
(* registers with a bit for each.  The fields run, high and steady are     *)
(* history: the counts since the last wrap, those at which output A was    *)
(* on, and whether the slice was left alone since.                         *)
(***************************************************************************)
EXTENDS Integers

CONSTANTS
    Count,      \* values of the 16-bit counter
    Parts,      \* parts of a divider, 16 in the code
    Tops,       \* bound: values of TOP
    Levels,     \* bound: values of a compare register
    Divs,       \* bound: values of DIV, pairs of the integer and its parts
    Modes,      \* bound: values of CSR firmware uses, each a record
    Writes      \* bound: writes of registers, and turns of pin B

VARIABLES
    pwm,        \* the slice
    writes      \* the writes left

vars == <<pwm, writes>>

-----------------------------------------------------------------------------
\* update_outputs: B is driven in FREE mode alone.
Outputs(s) ==
    [s EXCEPT !.outA = ((s.ctr < s.ccA) # s.invA),
              !.oeB = (s.mode = "free"),
              !.outB = (s.mode = "free" /\ ((s.ctr < s.ccB) # s.invB))]

Cause(s) == (s.intr \/ s.intf) /\ s.inte

\* refresh_irq; touched says that the core's side changed the pending bit since, late that
\* PH_ADV wrapped.
RefreshIrq(s) == [s EXCEPT !.pend = Cause(s), !.touched = FALSE, !.late = FALSE]

Unknown(s) == [s EXCEPT !.steady = FALSE, !.run = 0, !.high = 0]

Cleared(levelB) ==
    RefreshIrq(Outputs(
        [en |-> FALSE, ph |-> FALSE, invA |-> FALSE, invB |-> FALSE, mode |-> "free", all |-> FALSE,
         div |-> <<1, 0>>, ctr |-> 0, ccA |-> 0, ccB |-> 0, top |-> Count - 1, acc |-> 0, down |-> FALSE,
         prevB |-> FALSE, levelB |-> levelB, outA |-> FALSE, outB |-> FALSE, oeB |-> FALSE,
         intr |-> FALSE, inte |-> FALSE, intf |-> FALSE, pend |-> FALSE, touched |-> FALSE, late |-> FALSE,
         run |-> 0, high |-> 0, steady |-> FALSE, wrong |-> FALSE]))

Init == \E b \in BOOLEAN : pwm = Cleared(b) /\ writes = Writes

-----------------------------------------------------------------------------
\* The counter

\* How many counts a period has, and at how many of them c < level
Length(s) == IF s.ph THEN 2 * s.top ELSE s.top + 1
AtMost(n, m) == IF n < m THEN n ELSE m
Share(s, level) ==
    IF ~s.ph THEN AtMost(level, s.top + 1)
    ELSE IF level = 0 THEN 0 ELSE AtMost(level - 1, s.top) + AtMost(level, s.top)

\* A wrap raises the interrupt; a period that passed undisturbed is measured.
Wrapped(s) ==
    [s EXCEPT !.intr = TRUE, !.run = 0, !.high = 0, !.steady = ~s.ph \/ s.top > 0,
              !.wrong = @ \/ (s.steady /\ (s.run # Length(s) \/ s.high # Share(s, s.ccA)))]

\* Mutant: the counter wraps a count early.
StepWrappingEarly(s) ==
    CASE ~s.ph /\ s.ctr + 1 >= s.top -> [Wrapped(s) EXCEPT !.ctr = 0]
      [] ~s.ph /\ s.ctr + 1 < s.top -> [s EXCEPT !.ctr = @ + 1]
      [] s.ph /\ ~s.down /\ s.ctr >= s.top -> [s EXCEPT !.down = TRUE, !.ctr = (@ - 1) % Count]
      [] s.ph /\ ~s.down /\ s.ctr < s.top -> [s EXCEPT !.ctr = @ + 1]
      [] s.ph /\ s.down /\ s.ctr = 0 -> [Wrapped(s) EXCEPT !.down = FALSE, !.ctr = 1]
      [] s.ph /\ s.down /\ s.ctr > 0 -> [s EXCEPT !.ctr = @ - 1]

\* advance_slice without its outputs
Stepped(s) ==
    CASE ~s.ph /\ s.ctr >= s.top -> [Wrapped(s) EXCEPT !.ctr = 0]
      [] ~s.ph /\ s.ctr < s.top -> [s EXCEPT !.ctr = @ + 1]
      [] s.ph /\ ~s.down /\ s.ctr >= s.top -> [s EXCEPT !.down = TRUE, !.ctr = (@ - 1) % Count]
      [] s.ph /\ ~s.down /\ s.ctr < s.top -> [s EXCEPT !.ctr = @ + 1]
      [] s.ph /\ s.down /\ s.ctr = 0 -> [Wrapped(s) EXCEPT !.down = FALSE, !.ctr = 1]
      [] s.ph /\ s.down /\ s.ctr > 0 -> [s EXCEPT !.ctr = @ - 1]

Measured(s) == [s EXCEPT !.run = IF s.steady THEN @ + 1 ELSE 0,
                         !.high = IF s.steady /\ s.outA # s.invA THEN @ + 1 ELSE @]

AdvanceSlice(s) == Outputs(Stepped(Measured(s)))

\* retard_slice: a count backwards, without an interrupt
RetardSlice(s) ==
    Outputs(
        CASE ~s.ph /\ s.ctr = 0 -> [s EXCEPT !.ctr = s.top]
          [] ~s.ph /\ s.ctr > 0 -> [s EXCEPT !.ctr = @ - 1]
          [] s.ph /\ ~s.down /\ s.ctr = 0 -> [s EXCEPT !.down = TRUE, !.ctr = 1]
          [] s.ph /\ ~s.down /\ s.ctr > 0 -> [s EXCEPT !.ctr = @ - 1]
          [] s.ph /\ s.down /\ s.ctr >= s.top -> [s EXCEPT !.down = FALSE, !.ctr = (@ - 1) % Count]
          [] s.ph /\ s.down /\ s.ctr < s.top -> [s EXCEPT !.ctr = @ + 1])

Period(s) == Parts * (IF s.div[1] = 0 THEN 1 ELSE s.div[1])

\* In FREE and LEVEL mode the divider paces the counter.  It adds its parts to what each
\* clock is worth: they make the slice run faster than the integer alone.
Paced(s) ==
    LET total == s.acc + Parts + s.div[2]
    IN  IF total >= Period(s)
        THEN AdvanceSlice([s EXCEPT !.acc = total - Period(s)])
        ELSE [s EXCEPT !.acc = total]

\* In RISE and FALL mode the edges of pin B do.
Edged(s) ==
    LET edge == IF s.mode = "rise" THEN s.levelB /\ ~s.prevB ELSE ~s.levelB /\ s.prevB
        seen == [s EXCEPT !.prevB = s.levelB]
    IN  IF edge THEN AdvanceSlice(seen) ELSE seen

\* A round of on_cycles; EN enables the slice as CSR.EN does.
Clock ==
    /\ pwm' = RefreshIrq(
                CASE ~pwm.en /\ ~pwm.all -> pwm
                  [] (pwm.en \/ pwm.all) /\ pwm.mode \in {"rise", "fall"} -> Edged(pwm)
                  [] (pwm.en \/ pwm.all) /\ pwm.mode = "level" /\ ~pwm.levelB -> pwm
                  [] OTHER -> Paced(pwm))
    /\ UNCHANGED writes

-----------------------------------------------------------------------------
Written == writes > 0 /\ writes' = writes - 1

\* CSR, with or without one of its strobes; the outputs follow a new mode at once.
WriteCsr ==
    \E m \in Modes, strobe \in {"none", "adv", "ret"} :
        LET new == [Unknown(pwm) EXCEPT !.en = m.en, !.ph = m.ph, !.invA = m.invA, !.mode = m.mode]
            moved == CASE strobe = "adv" -> Unknown(AdvanceSlice(new))
                       [] strobe = "ret" -> RetardSlice(new)
                       [] strobe = "none" -> new
        IN  /\ Written
            /\ pwm' = [Outputs(moved) EXCEPT !.late = @ \/ (moved.intr /\ ~pwm.intr)]

WriteDiv == \E d \in Divs : Written /\ pwm' = [pwm EXCEPT !.div = d]

WriteCtr ==
    \E c \in Tops : Written /\ pwm' = Outputs([Unknown(pwm) EXCEPT !.ctr = c, !.down = FALSE])

\* CC shows at once.
WriteCc ==
    \E a, b \in Levels : Written /\ pwm' = Outputs([Unknown(pwm) EXCEPT !.ccA = a, !.ccB = b])

WriteTop == \E t \in Tops : Written /\ pwm' = [Unknown(pwm) EXCEPT !.top = t]

WriteEn == \E e \in BOOLEAN : Written /\ pwm' = [pwm EXCEPT !.all = e]

\* INTE and INTF
WriteInts ==
    \E e, f \in BOOLEAN : Written /\ pwm' = RefreshIrq([pwm EXCEPT !.inte = e, !.intf = f])

Acknowledge == pwm.intr /\ pwm' = RefreshIrq([pwm EXCEPT !.intr = FALSE]) /\ UNCHANGED writes

\* Cpu::step enters the handler and clears the pending bit, not its cause.
EnterHandler ==
    /\ pwm.pend
    /\ pwm' = [pwm EXCEPT !.pend = FALSE, !.touched = ~@]
    /\ UNCHANGED writes

\* Cpu::reset, which AIRCR or the watchdog asks for, drops what is pending and tells no unit.
ResetCore ==
    /\ pwm' = [pwm EXCEPT !.pend = FALSE, !.touched = @ # pwm.pend]
    /\ UNCHANGED writes

\* NVIC_ISPR and NVIC_ICPR: firmware turns the pending bit around.
WriteNvic ==
    /\ pwm' = [pwm EXCEPT !.pend = ~@, !.touched = ~@]
    /\ UNCHANGED writes

\* What drives pin B from outside changes.
TurnPinB == Written /\ pwm' = [pwm EXCEPT !.levelB = ~@]

Reset == Written /\ pwm' = Cleared(pwm.levelB)

Next ==
    \/ Clock
    \/ WriteCsr \/ WriteDiv \/ WriteCtr \/ WriteCc \/ WriteTop \/ WriteEn \/ WriteInts
    \/ Acknowledge \/ EnterHandler \/ ResetCore \/ WriteNvic \/ TurnPinB \/ Reset

Spec == Init /\ [][Next]_vars

-----------------------------------------------------------------------------
\* A period that nothing disturbs has the counts TOP asks for, and output A is on at the
\* share of them that CC.A asks for, in both modes of counting and however the divider,
\* the gate or the edges of pin B pace them.  The outputs follow every register at once.
\* PH_RET takes back what PH_ADV did to the count and the other way round, as long as the
\* count is within a TOP that phase-correct counting can turn at.
DutyExact ==
    /\ ~pwm.wrong
    /\ pwm = Outputs(pwm)
    /\ pwm.ctr <= pwm.top /\ (pwm.ph => pwm.top > 0) =>
            /\ RetardSlice(AdvanceSlice(pwm)).ctr = pwm.ctr
            /\ AdvanceSlice(RetardSlice(pwm)).ctr = pwm.ctr

\* As the unit leaves it, the line is pending if and only if it has a cause; the bit differs
\* only while a handler's entry, a reset of the core or the NVIC has changed it since, and
\* a wrap that PH_ADV makes shows with the next clock.
LineFollowsCause ==
    ~pwm.touched => (pwm.pend => Cause(pwm)) /\ (Cause(pwm) => pwm.pend \/ pwm.late)
=============================================================================
