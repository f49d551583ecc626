------------------------------ MODULE ClockTree ------------------------------
(***************************************************************************)
(* The clocks: the oscillators, PLLs and generators of                     *)
(* src/peripherals/clocks.cpp, the frequencies that clock_tree.cpp derives *)
(* from their registers, and Simulator::sync_clock_pacing, which tells the *)
(* timed peripherals when a checksum of the registers has changed.         *)
(* Frequencies are in kHz.  Of the checksum the model keeps what can       *)
(* cancel within one part, and takes the parts' mixture as free of         *)
(* collisions.                                                             *)
(***************************************************************************)
EXTENDS Integers

CONSTANTS
    CsValues, PwrValues, FbdivValues, PrimValues,   \* bound: values of a PLL's registers
    CtrlValues, DivValues,                          \* bound: values of a generator's
    TickValues,                                     \* bound: WATCHDOG_TICK.CYCLES
    Writes                                          \* bound: writes of registers

VARIABLES
    tree,       \* the registers, and what the peripherals were told
    past        \* history: the writes since the last look, the most between two looks since
                \* the peripherals were told, those left

vars == <<tree, past>>

Plls == {"sys", "usb"}
Generators == {"ref", "sys", "peri", "adc", "rtc"}

Crystal == 12000                \* Xosc::kCrystalHz
Ring == 6500                    \* Rosc::kNominalHz
Default == [ref |-> 12000, sys |-> 125000, adc |-> 48000, rtc |-> 46]

-----------------------------------------------------------------------------
\* Bit fields of the registers
Field(register, low, width) == (register \div 2^low) % 2^width

\* Every bit of a register, of which 31 of the 32 are modelled
AllOnes == 2147483647
PllReset == [cs |-> 0, pwr |-> AllOnes, fbdiv |-> 0, prim |-> 7 * 2^16 + 7 * 2^8]

\* Pll::output_hz, and nothing without a lock or with a divider of 0
Locked(pll) == Field(pll.cs, 8, 1) = 0 /\ Field(pll.pwr, 0, 1) = 0
Output(pll) ==
    LET post == Field(pll.prim, 16, 3) * Field(pll.prim, 12, 3)
    IN  IF Locked(pll) /\ post # 0 THEN (Crystal * pll.fbdiv) \div post ELSE 0

XoscKhz(t) == IF t.xosc THEN Crystal ELSE 0
RoscKhz(t) == IF t.rosc THEN Ring ELSE 0

\* apply_div: in 256ths, those below one only where the divider has them
Divided(khz, div, fractional) ==
    LET d == IF fractional THEN div ELSE div - (div % 256)
    IN  IF d = 0 THEN khz ELSE (khz * 256) \div d

OrElse(khz, default) == IF khz # 0 THEN khz ELSE default

Aux(t, g, width) == Field(t.gen[g].ctrl, 5, width)

\* The sources that a generator's AUXSRC selects: of clk_sys, and of clk_adc and clk_rtc
SysSource(t, aux) ==
    CASE aux = 0 -> Output(t.pll["sys"])
      [] aux = 1 -> Output(t.pll["usb"])
      [] aux = 2 -> RoscKhz(t)
      [] aux = 3 -> XoscKhz(t)
      [] OTHER -> 0
SlowSource(t, aux) == SysSource(t, CASE aux = 0 -> 1 [] aux = 1 -> 0 [] OTHER -> aux)

RefKhz(t) ==
    LET src == Field(t.gen["ref"].ctrl, 0, 2)
        khz == CASE src = 0 -> RoscKhz(t)
                 [] src = 2 -> XoscKhz(t)
                 [] OTHER -> IF Aux(t, "ref", 2) = 0 THEN Output(t.pll["usb"]) ELSE 0
    IN  IF t.gen["ref"].set THEN OrElse(Divided(khz, t.gen["ref"].div, FALSE), Default.ref) ELSE Default.ref

SysKhz(t) ==
    LET khz == IF Field(t.gen["sys"].ctrl, 0, 1) = 0 THEN RefKhz(t) ELSE SysSource(t, Aux(t, "sys", 3))
    IN  IF t.gen["sys"].set THEN OrElse(Divided(khz, t.gen["sys"].div, TRUE), Default.sys) ELSE Default.sys

PeriKhz(t) ==
    LET aux == Aux(t, "peri", 3)
    IN  IF t.gen["peri"].set /\ aux # 0 THEN OrElse(SysSource(t, aux - 1), SysKhz(t)) ELSE SysKhz(t)

\* clk_adc_hz and clk_rtc_hz
SlowKhz(t, g, fractional) ==
    IF t.gen[g].set
    THEN OrElse(Divided(SlowSource(t, Aux(t, g, 3)), t.gen[g].div, fractional), Default[g])
    ELSE Default[g]

\* timer_us_cycles: cycles of clk_sys in a microsecond, which WATCHDOG_TICK counts in
\* cycles of clk_ref
UsCycles(t) ==
    LET tick == OrElse(t.tick, RefKhz(t) \div 1000)
    IN  IF tick = 0 THEN SysKhz(t) \div 1000 ELSE OrElse((tick * SysKhz(t)) \div RefKhz(t), 1)

\* What sync_clock_pacing pushes: to the timer and the watchdog; to the UARTs and SPIs;
\* to the ADC, the real-time clock and all of them
Paces(t) ==
    [us |-> UsCycles(t), peri |-> PeriKhz(t), adc |-> SlowKhz(t, "adc", FALSE),
     rtc |-> SlowKhz(t, "rtc", TRUE), sys |-> SysKhz(t)]

\* An exclusive or, as the set of its bits
Ones(register) == {i \in 0..30 : Field(register, i, 1) = 1}
Differ(a, b) == (a \ b) \cup (b \ a)

\* signature, part by part: a PLL's registers and a generator's can cancel.
Signature(t) ==
    [set |-> {g \in Generators : t.gen[g].set},
     gen |-> [g \in Generators |-> t.gen[g].ctrl * 31 + t.gen[g].div],
     pll |-> [p \in Plls |-> Differ(Differ(Ones(t.pll[p].cs), Ones(t.pll[p].pwr)),
                                    Differ(Ones(t.pll[p].fbdiv), Ones(t.pll[p].prim)))],
     xosc |-> t.xosc, rosc |-> t.rosc, tick |-> t.tick]

-----------------------------------------------------------------------------
\* A generator divides by 256 until its DIV is written.
Boot ==
    [xosc |-> FALSE, rosc |-> TRUE, pll |-> [p \in Plls |-> PllReset],
     gen |-> [g \in Generators |-> [ctrl |-> 0, div |-> 2^16, set |-> FALSE]], tick |-> 0]

\* After the SDK's clocks_init, which clears three bits of PWR: 125 MHz from one PLL, 48 MHz
\* from the other
Running ==
    LET fed(ctrl) == [ctrl |-> ctrl, div |-> 256, set |-> TRUE]
    IN  [xosc |-> TRUE, rosc |-> TRUE,
         pll |-> [p \in Plls |-> [cs |-> 1, pwr |-> AllOnes - 41, fbdiv |-> IF p = "sys" THEN 125 ELSE 100,
                                  prim |-> IF p = "sys" THEN 6 * 2^16 + 2 * 2^12 ELSE 5 * 2^16 + 5 * 2^12]],
         gen |-> [g \in Generators |-> CASE g = "ref" -> fed(2) [] g = "sys" -> fed(1) [] OTHER -> fed(0)],
         tick |-> 12]

With(t, told) == [f \in DOMAIN t \cup {"told", "sig"} |->
                    CASE f = "told" -> told [] f = "sig" -> Signature(t) [] OTHER -> t[f]]

Init ==
    /\ tree \in {With(t, Paces(t)) : t \in {Boot, Running}}
    /\ past = [now |-> 0, before |-> 0, left |-> Writes]

\* sync_clock_pacing, at the beginning of a step
SyncClockPacing ==
    /\ past.now > 0
    /\ \/ /\ Signature(tree) = tree.sig
          /\ past' = [past EXCEPT !.now = 0, !.before = IF @ < past.now THEN past.now ELSE @]
          /\ UNCHANGED tree
       \/ /\ Signature(tree) # tree.sig
          /\ past' = [past EXCEPT !.now = 0, !.before = 0]
          /\ tree' = With(tree, Paces(tree))

\* One write that changes something, or a second in the same step: by the other core, or
\* of the same instruction
Written(new) ==
    /\ past.left > 0
    /\ past.now < 2
    /\ new # tree
    /\ tree' = new
    /\ past' = [past EXCEPT !.now = @ + 1, !.left = @ - 1]

WriteXosc == \E on \in BOOLEAN : Written([tree EXCEPT !.xosc = on])
WriteRosc == \E on \in BOOLEAN : Written([tree EXCEPT !.rosc = on])

WritePll ==
    \E p \in Plls :
        \/ \E v \in CsValues : Written([tree EXCEPT !.pll[p].cs = v])
        \/ \E v \in PwrValues : Written([tree EXCEPT !.pll[p].pwr = v])
        \/ \E v \in FbdivValues : Written([tree EXCEPT !.pll[p].fbdiv = v])
        \/ \E v \in PrimValues : Written([tree EXCEPT !.pll[p].prim = v])

WriteGenerator ==
    \E g \in Generators :
        \/ \E v \in CtrlValues : Written([tree EXCEPT !.gen[g].ctrl = v, !.gen[g].set = TRUE])
        \/ \E v \in DivValues : Written([tree EXCEPT !.gen[g].div = v, !.gen[g].set = TRUE])

WriteTick == \E v \in TickValues : Written([tree EXCEPT !.tick = v])

\* The watchdog's reset of a PLL
ResetPll == \E p \in Plls : Written([tree EXCEPT !.pll[p] = PllReset])

Rest == past.left = 0 /\ past.now = 0 /\ UNCHANGED vars

Next ==
    \/ SyncClockPacing
    \/ WriteXosc \/ WriteRosc \/ WritePll \/ WriteGenerator \/ WriteTick \/ ResetPll
    \/ Rest

-----------------------------------------------------------------------------
\* When the peripherals are clocked, their paces are those of the registers: no single
\* write that changes a frequency escapes the checksum, the first write of a generator
\* with the value it has included.  Two writes in one step may, until the next that is
\* noticed.
OnTime == past.now = 0 /\ past.before <= 1 => tree.told = Paces(tree)
=============================================================================
