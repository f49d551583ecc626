--------------------------------- MODULE Rtc ---------------------------------
(***************************************************************************)
(* The real-time clock: class Rtc of src/peripherals/rtc.cpp.  The time is *)
(* a record of its fields; an alarm is a function from the fields that it  *)
(* matches to their values, set in two registers, one for the date and one *)
(* for the time of day.  A step of the clock is one tick of clk_rtc.       *)
(***************************************************************************)
EXTENDS Integers

CONSTANTS
    Minute, Hour, Day,  \* seconds, minutes and hours they have: 60, 60 and 24 in the code
    Divs,               \* bound: values of CLKDIV_M1
    Times,              \* bound: times that firmware loads
    Dates, Moments,     \* bound: the two halves of the alarms it sets
    Horizon,            \* bound: seconds that pass
    Writes              \* bound: writes of registers

VARIABLES
    rtc,        \* the object
    past        \* history: the reference clock, when the alarm was set, and whether it rang

vars == <<rtc, past>>

-----------------------------------------------------------------------------
\* A reference: the number of a day, counted from the first of March of year 0
DayNumber(t) ==
    LET y == IF t.month <= 2 THEN t.year - 1 ELSE t.year
        m == (t.month + 9) % 12
    IN  365 * y + y \div 4 - y \div 100 + y \div 400 + (153 * m + 2) \div 5 + t.day

Seconds(t) == ((DayNumber(t) * Day + t.hour) * Hour + t.min) * Minute + t.sec

\* days_in_month; month 0 is looked up as -1 in unsigned arithmetic.
DaysInMonth(year, month) ==
    LET days == <<31, 28, 31, 30, 31, 30, 31, 31, 30, 31, 30, 31>>
        leap == year % 4 = 0 /\ (year % 100 # 0 \/ year % 400 = 0)
    IN  IF month = 2 /\ leap THEN 29 ELSE IF month = 0 THEN days[4] ELSE days[((month - 1) % 12) + 1]

Valid(t) ==
    /\ t.sec < Minute /\ t.min < Hour /\ t.hour < Day /\ t.dotw < 7
    /\ t.month \in 1..12 /\ t.day \in 1..DaysInMonth(t.year, t.month)

First == [year |-> 0, month |-> 1, day |-> 1, dotw |-> 0, hour |-> 0, min |-> 0, sec |-> 0]
Nothing == [f \in {} |-> 0]

Cleared(div) ==
    [div |-> div, count |-> 0, enabled |-> FALSE, now |-> First, setup |-> First,
     date |-> Nothing, moment |-> Nothing, matched |-> FALSE,
     intr |-> FALSE, inte |-> FALSE, intf |-> FALSE, pend |-> FALSE, touched |-> FALSE]

\* base is the time that was loaded, passed the seconds since, set the time at which the
\* alarm was last changed; seconds and writes are left.
Fresh(seconds, writes) ==
    [base |-> First, passed |-> 0, set |-> Seconds(First), rung |-> FALSE, seconds |-> seconds, writes |-> writes]

\* 46874 in the code
ResetDiv == CHOOSE d \in Divs : \A e \in Divs : e <= d

Init == rtc = Cleared(ResetDiv) /\ past = Fresh(Horizon, Writes)

-----------------------------------------------------------------------------
Cause(r) == (r.intr \/ r.intf) /\ r.inte

Matches(half, now) == \A f \in DOMAIN half : half[f] = now[f]

\* Matched(r): an alarm that matches no field is not armed.
Matched(r) ==
    /\ DOMAIN r.date # {} \/ DOMAIN r.moment # {}
    /\ Matches(r.date, r.now) /\ Matches(r.moment, r.now)

\* check_alarm: it rings when it begins to match, and the line is refreshed.
CheckAlarm(r) ==
    LET after == [r EXCEPT !.intr = @ \/ (Matched(r) /\ ~r.matched), !.matched = Matched(r)]
    IN  [after EXCEPT !.pend = Cause(after), !.touched = FALSE]

Rings(r) == Matched(r) /\ ~r.matched

\* Mutant: leap years are those that four divides.
TickSecondJulian(t) ==
    CASE t.sec + 1 < Minute -> [t EXCEPT !.sec = @ + 1]
      [] t.sec + 1 >= Minute /\ t.min + 1 < Hour -> [t EXCEPT !.sec = 0, !.min = @ + 1]
      [] t.sec + 1 >= Minute /\ t.min + 1 >= Hour /\ t.hour + 1 < Day ->
            [t EXCEPT !.sec = 0, !.min = 0, !.hour = @ + 1]
      [] OTHER ->
            LET last == IF t.month = 2 /\ t.year % 4 = 0 THEN 29 ELSE DaysInMonth(1, t.month)
                next == [t EXCEPT !.sec = 0, !.min = 0, !.hour = 0, !.dotw = (@ + 1) % 7]
            IN  CASE t.day + 1 <= last -> [next EXCEPT !.day = @ + 1]
                  [] t.day + 1 > last /\ t.month + 1 <= 12 -> [next EXCEPT !.day = 1, !.month = @ + 1]
                  [] OTHER -> [next EXCEPT !.day = 1, !.month = 1, !.year = @ + 1]

\* tick_second; a field that was loaded out of range is carried from.
TickSecond(t) ==
    CASE t.sec + 1 < Minute -> [t EXCEPT !.sec = @ + 1]
      [] t.sec + 1 >= Minute /\ t.min + 1 < Hour -> [t EXCEPT !.sec = 0, !.min = @ + 1]
      [] t.sec + 1 >= Minute /\ t.min + 1 >= Hour /\ t.hour + 1 < Day ->
            [t EXCEPT !.sec = 0, !.min = 0, !.hour = @ + 1]
      [] OTHER ->
            LET last == DaysInMonth(t.year, t.month)
                next == [t EXCEPT !.sec = 0, !.min = 0, !.hour = 0, !.dotw = (@ + 1) % 7]
            IN  CASE t.day + 1 <= last -> [next EXCEPT !.day = @ + 1]
                  [] t.day + 1 > last /\ t.month + 1 <= 12 -> [next EXCEPT !.day = 1, !.month = @ + 1]
                  [] OTHER -> [next EXCEPT !.day = 1, !.month = 1, !.year = @ + 1]

\* A round of on_cycles: a second has passed when the divider is past its end.
Clock ==
    /\ rtc.enabled
    /\ past.seconds > 0
    /\ IF rtc.count + 1 > rtc.div
       THEN LET ticked == [rtc EXCEPT !.count = 0, !.now = TickSecond(@)]
            IN  /\ rtc' = CheckAlarm(ticked)
                /\ past' = [past EXCEPT !.passed = @ + 1, !.seconds = @ - 1, !.rung = @ \/ Rings(ticked)]
       ELSE rtc' = [rtc EXCEPT !.count = @ + 1] /\ UNCHANGED past

-----------------------------------------------------------------------------
\* The registers: each write ends with check_alarm.
Written(new) ==
    /\ past.writes > 0
    /\ rtc' = CheckAlarm(new)
    /\ past' = [past EXCEPT !.writes = @ - 1, !.rung = @ \/ Rings(new)]

Now == Seconds(past.base) + past.passed

WriteDiv == \E d \in Divs : Written([rtc EXCEPT !.div = d])

\* SETUP_0 and SETUP_1 hold the time for LOAD.
WriteSetup == \E t \in Times : Written([rtc EXCEPT !.setup = t])

WriteCtrl ==
    \E e, load \in BOOLEAN :
        LET new == [rtc EXCEPT !.enabled = e, !.now = IF load THEN rtc.setup ELSE @, !.count = IF load THEN 0 ELSE @]
        IN  /\ past.writes > 0
            /\ rtc' = CheckAlarm(new)
            /\ past' = IF load
                       THEN [past EXCEPT !.writes = @ - 1, !.base = rtc.setup, !.passed = 0,
                                         !.set = Seconds(rtc.setup), !.rung = FALSE]
                       ELSE [past EXCEPT !.writes = @ - 1, !.rung = @ \/ Rings(new)]

\* IRQ_SETUP_0 and IRQ_SETUP_1: what rang is cleared, but not that it matched.
WriteAlarm ==
    /\ past.writes > 0
    /\ \/ \E d \in Dates : rtc' = CheckAlarm([rtc EXCEPT !.date = d, !.intr = FALSE])
       \/ \E m \in Moments : rtc' = CheckAlarm([rtc EXCEPT !.moment = m, !.intr = FALSE])
    /\ past' = [past EXCEPT !.writes = @ - 1, !.set = Now, !.rung = FALSE]

\* INTE and INTF
WriteInts == \E e, f \in BOOLEAN : Written([rtc EXCEPT !.inte = e, !.intf = f])

Acknowledge ==
    /\ rtc.intr
    /\ rtc' = CheckAlarm([rtc EXCEPT !.intr = FALSE])
    /\ UNCHANGED past

\* Cpu::step enters the handler and clears the pending bit, not its cause.
EnterHandler ==
    /\ rtc.pend
    /\ rtc' = [rtc EXCEPT !.pend = FALSE, !.touched = ~@]
    /\ UNCHANGED past

\* Cpu::reset, which AIRCR or the watchdog asks for, drops what is pending and tells no unit.
ResetCore ==
    /\ rtc' = [rtc EXCEPT !.pend = FALSE, !.touched = @ # rtc.pend]
    /\ UNCHANGED past

\* NVIC_ISPR and NVIC_ICPR: firmware turns the pending bit around.
WriteNvic ==
    /\ rtc' = [rtc EXCEPT !.pend = ~@, !.touched = ~@]
    /\ UNCHANGED past

Reset ==
    /\ past.writes > 0 /\ past.passed > 0
    /\ rtc' = CheckAlarm(Cleared(ResetDiv))
    /\ past' = Fresh(past.seconds, past.writes - 1)

\* As many seconds as are looked at have passed, or firmware leaves the clock alone.
Rest == (past.seconds = 0 \/ past.writes = 0) /\ UNCHANGED vars

Next ==
    \/ Clock
    \/ WriteDiv \/ WriteSetup \/ WriteCtrl \/ WriteAlarm \/ WriteInts
    \/ Acknowledge \/ EnterHandler \/ ResetCore \/ WriteNvic \/ Reset \/ Rest

Spec == Init /\ [][Next]_vars

-----------------------------------------------------------------------------
\* From a valid time on, the calendar shows the time that is so many seconds later, over
\* the ends of minutes, months, centuries and leap years.
CalendarExact ==
    Valid(past.base) =>
        /\ Valid(rtc.now)
        /\ Seconds(rtc.now) = Now
        /\ rtc.now.dotw = (past.base.dotw + DayNumber(rtc.now) - DayNumber(past.base)) % 7

\* An alarm for one second of one day rings if and when that second comes, and not before.
OnTime ==
    LET alarm == [f \in DOMAIN First |->
                    IF f \in DOMAIN rtc.date THEN rtc.date[f]
                    ELSE IF f \in DOMAIN rtc.moment THEN rtc.moment[f] ELSE 0]
        full == DOMAIN rtc.date \cup DOMAIN rtc.moment = DOMAIN First \ {"dotw"}
    IN  Valid(past.base) /\ full /\ Valid(alarm) /\ past.set # Seconds(alarm) =>
            past.rung = (past.set < Seconds(alarm) /\ Seconds(alarm) <= Now)

\* As the unit leaves it, the line is pending if and only if it has a cause; the bit differs
\* only while a handler's entry, a reset of the core or the NVIC has changed it since.
LineFollowsCause == ~rtc.touched => (rtc.pend <=> Cause(rtc))
=============================================================================
