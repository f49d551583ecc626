-------------------------------- MODULE Timer --------------------------------
(***************************************************************************)
(* The microsecond timer and its alarms: class Timer of                    *)
(* src/peripherals/timer.cpp.  The 64-bit count is two words, the registers*)
(* with a bit per alarm are sets of alarms.  A reader puts the count       *)
(* together, either from the latched pair TIMELR and TIMEHR or from the raw*)
(* words, which it reads until the high one has stayed the same.  The      *)
(* fields left, touched, missed and jumped are history.                    *)
(***************************************************************************)
EXTENDS Integers

CONSTANTS
    Word,       \* values of a 32-bit word
    Alarms,     \* the alarms' numbers
    Periods,    \* values of cycles_per_us the clock tree sets
    Traffic     \* bounds: registers written, but those that acknowledge, and times read

VARIABLES
    timer,      \* the object
    reader      \* the reader, and how many registers may still be written, times read

vars == <<timer, reader>>

-----------------------------------------------------------------------------
Low(t) == t.counter % Word
High(t) == t.counter \div Word

\* Timer::reset; the period is the clock tree's.
Cleared(period) ==
    [period |-> period, acc |-> 0, counter |-> 0, staged |-> 0, latched |-> 0, paused |-> FALSE,
     alarm |-> [i \in Alarms |-> 0], armed |-> {}, intr |-> {}, inte |-> {}, intf |-> {},
     pend |-> {}, touched |-> {}, left |-> [i \in Alarms |-> 0], missed |-> FALSE, jumped |-> FALSE]

\* from is the count when the reader began; torn says that time was set since.
Idle(bounds) ==
    [writes |-> bounds.writes, reads |-> bounds.reads,
     at |-> "idle", from |-> 0, high |-> 0, low |-> 0, torn |-> FALSE, wrong |-> FALSE]

Init ==
    /\ \E period \in Periods : timer = Cleared(period)
    /\ \E bounds \in Traffic : reader = Idle(bounds)

Cause(t) == (t.intr \cup t.intf) \cap t.inte

RefreshIrqs(t) == [t EXCEPT !.pend = Cause(t), !.touched = {}]

\* fire_due_alarms; missed says that one fired before or after its time.
FireDueAlarms(t) ==
    LET due == {i \in t.armed : t.alarm[i] = Low(t)}
    IN  RefreshIrqs([t EXCEPT !.armed = @ \ due, !.intr = @ \cup due,
                              !.missed = @ \/ (~t.jumped /\ \E i \in due : t.left[i] # 0)])

Tick(t) ==
    FireDueAlarms([t EXCEPT !.counter = (@ + 1) % (Word * Word),
                            !.left = [i \in Alarms |-> IF i \in t.armed THEN t.left[i] - 1 ELSE 0]])

\* No reader takes nearly as long as the whole count does to come round.
Waited(t) == (t.counter - reader.from) % (Word * Word)
Patient(t) == reader.at = "idle" \/ Waited(t) \in Waited(timer)..(Word - 1) * Word

\* Mutant: the part of a microsecond that has passed is forgotten.
ClockForgetting ==
    /\ ~timer.paused
    /\ timer' = IF timer.period = 1 THEN Tick(timer) ELSE [timer EXCEPT !.acc = 1]
    /\ reader' = IF Patient(timer') THEN reader ELSE Idle(reader)

\* A cycle of on_cycles; a shorter period can make several ticks due at once.
Clock ==
    LET total == timer.acc + 1
        after[n \in 0..total] == IF n = 0 THEN timer ELSE Tick(after[n - 1])
    IN  /\ ~timer.paused
        /\ timer' = [after[total \div timer.period] EXCEPT !.acc = total % timer.period]
        /\ reader' = IF Patient(timer') THEN reader ELSE Idle(reader)

-----------------------------------------------------------------------------
\* The registers that firmware writes

Written == reader.writes > 0 /\ reader' = [reader EXCEPT !.writes = @ - 1]

\* TIMEHW is a stage for TIMELW, which sets the time and fires nothing.
WriteHigh == \E h \in 0..(Word - 1) : Written /\ timer' = [timer EXCEPT !.staged = h]

\* From here on an alarm is where the low word meets it, wherever it was set to ring.
WriteLow ==
    \E l \in 0..(Word - 1) :
        /\ reader.writes > 0
        /\ reader' = [reader EXCEPT !.writes = @ - 1, !.torn = TRUE]
        /\ timer' = [timer EXCEPT !.counter = timer.staged * Word + l, !.jumped = TRUE]

\* ALARM written arms it, and what is due now fires at once, also in a pause.
WriteAlarm ==
    \E i \in Alarms, v \in 0..(Word - 1) :
        /\ Written
        /\ timer' = FireDueAlarms([timer EXCEPT !.alarm[i] = v, !.armed = @ \cup {i},
                                                !.left[i] = (v - Low(timer)) % Word])

WritePause ==
    \/ ~timer.paused /\ Written /\ timer' = [timer EXCEPT !.paused = TRUE]
    \/ timer.paused /\ UNCHANGED reader /\ timer' = [timer EXCEPT !.paused = FALSE]

\* ARMED is written with the alarms to disarm.
Disarm == \E i \in Alarms : Written /\ timer' = RefreshIrqs([timer EXCEPT !.armed = @ \ {i}])

\* INTE and INTF through the aliases: the bits are read, combined and written.
Combined(alias, old, bits) ==
    CASE alias = "set" -> old \cup bits
      [] alias = "clear" -> old \ bits
      [] alias = "xor" -> (old \ bits) \cup (bits \ old)

WriteEnables ==
    \E alias \in {"set", "clear", "xor"}, bits \in {{i} : i \in Alarms} :
        /\ Written
        /\ timer' = RefreshIrqs([timer EXCEPT !.inte = Combined(alias, @, bits)])

WriteForce ==
    \E alias \in {"set", "clear", "xor"}, bits \in {{i} : i \in Alarms} :
        /\ Written
        /\ timer' = RefreshIrqs([timer EXCEPT !.intf = Combined(alias, @, bits)])

\* INTR acknowledges.
Acknowledge ==
    \E i \in timer.intr :
        /\ timer' = RefreshIrqs([timer EXCEPT !.intr = @ \ {i}])
        /\ UNCHANGED reader

\* Cpu::step enters the handler of one alarm and clears its pending bit.
EnterHandler ==
    \E i \in timer.pend :
        /\ timer' = [timer EXCEPT !.pend = @ \ {i}, !.touched = Combined("xor", @, {i})]
        /\ UNCHANGED reader

\* Cpu::reset, which AIRCR or the watchdog asks for, drops what is pending and tells no unit.
ResetCore ==
    /\ timer' = [timer EXCEPT !.pend = {}, !.touched = Combined("xor", @, timer.pend)]
    /\ UNCHANGED reader

\* NVIC_ISPR and NVIC_ICPR: firmware turns the pending bit of an alarm around.
WriteNvic ==
    \E i \in Alarms :
        /\ timer' = [timer EXCEPT !.pend = Combined("xor", @, {i}),
                                   !.touched = Combined("xor", @, {i})]
        /\ UNCHANGED reader

\* The clock tree changes the length of a microsecond, between two steps.
SetPeriod == \E p \in Periods : Written /\ timer' = [timer EXCEPT !.period = p]

Reset ==
    /\ timer.counter # 0
    /\ reader.writes > 0
    /\ timer' = RefreshIrqs(Cleared(timer.period))
    /\ reader' = Idle([writes |-> reader.writes - 1, reads |-> reader.reads])

-----------------------------------------------------------------------------
\* The reader

Goes(at) == [reader EXCEPT !.reads = @ - 1, !.at = at, !.from = timer.counter, !.torn = FALSE]

\* The reader has the words it wanted: was that ever the time?
Gets(high, low) ==
    [reader EXCEPT !.at = "idle", !.high = 0, !.low = 0, !.from = 0, !.torn = FALSE,
        !.wrong = @ \/ (~reader.torn /\ (high * Word + low - reader.from) % (Word * Word)
                                         > (timer.counter - reader.from) % (Word * Word))]

\* Mutant: TIMELR is read without latching.
ReadLowUnlatched ==
    /\ reader.at = "idle" /\ reader.reads > 0
    /\ UNCHANGED timer
    /\ reader' = [Goes("latched") EXCEPT !.low = Low(timer)]

\* TIMELR latches the high word for TIMEHR.
ReadLow ==
    /\ reader.at = "idle" /\ reader.reads > 0
    /\ timer' = [timer EXCEPT !.latched = High(timer)]
    /\ reader' = [Goes("latched") EXCEPT !.low = Low(timer)]

ReadHigh ==
    /\ reader.at = "latched"
    /\ reader' = Gets(timer.latched, reader.low)
    /\ UNCHANGED timer

\* Someone else reads TIMELR: there is one latch for both cores.
Relatch ==
    /\ reader.at = "latched"
    /\ timer' = [timer EXCEPT !.latched = High(timer)]
    /\ reader' = [reader EXCEPT !.torn = TRUE]

\* TIMERAWH, TIMERAWL, TIMERAWH, and on from TIMERAWL while the high word changes
ReadRaw ==
    /\ UNCHANGED timer
    /\ \/ reader.at = "idle" /\ reader.reads > 0 /\ reader' = [Goes("high") EXCEPT !.high = High(timer)]
       \/ reader.at = "high" /\ reader' = [reader EXCEPT !.at = "low", !.low = Low(timer)]
       \/ /\ reader.at = "low"
          /\ reader' = IF High(timer) = reader.high
                       THEN Gets(reader.high, reader.low)
                       ELSE [reader EXCEPT !.at = "high", !.high = High(timer), !.low = 0]

Next ==
    \/ Clock \/ SetPeriod \/ Reset
    \/ WriteHigh \/ WriteLow \/ WriteAlarm \/ WritePause \/ Disarm \/ WriteEnables \/ WriteForce
    \/ Acknowledge \/ EnterHandler \/ ResetCore \/ WriteNvic
    \/ ReadLow \/ ReadHigh \/ Relatch \/ ReadRaw

Spec == Init /\ [][Next]_vars /\ WF_vars(Clock)

-----------------------------------------------------------------------------
\* An alarm rings in the microsecond it was set for, neither before nor after, unless
\* the time was set under way; what is armed is still ahead.
OnTime ==
    /\ ~timer.missed
    /\ ~timer.jumped => \A i \in timer.armed : timer.left[i] > 0

\* Both ways to read give a time at which the reader was reading, whatever carries
\* between the two accesses, unless the time was set or the latch taken over.
ReadsTime == ~reader.wrong

\* As the unit leaves it, an alarm's line is pending if and only if it has a cause; the bit
\* differs only while a handler's entry, a reset of the core or the NVIC has changed it since.
LineFollowsCause == timer.pend \ timer.touched = Cause(timer) \ timer.touched

\* An alarm that stays armed rings, unless the timer is paused or paces no more.
Waiting == timer.armed # {} /\ ~timer.paused
=============================================================================
