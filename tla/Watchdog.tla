------------------------------ MODULE Watchdog ------------------------------
(***************************************************************************)
(* The watchdog: class Watchdog of src/peripherals/watchdog.cpp.  CTRL is  *)
(* the set of its flags; the class has no aliases of its own, so a write to*)
(* one of the bus's reads, combines and writes.  age counts the cycles     *)
(* since the last feed while enabled, and with fed, paced and wrong is     *)
(* history.                                                                *)
(***************************************************************************)
EXTENDS Integers

CONSTANTS
    Periods,    \* values of cycles_per_us the clock tree sets
    Loads,      \* bound: values firmware loads
    Writes      \* bound: writes of registers

VARIABLES
    wd,         \* the object
    writes      \* the writes left

vars == <<wd, writes>>

-----------------------------------------------------------------------------
Init ==
    /\ \E p \in Periods :
        wd = [period |-> p, acc |-> 0, counter |-> 0, enabled |-> FALSE, ctrl |-> {}, reason |-> "none",
              age |-> 0, fed |-> 0, paced |-> TRUE, wrong |-> FALSE]
    /\ writes = Writes

\* The microseconds in which a load runs out
Ticks(load) == IF load <= 2 THEN 1 ELSE (load + 1) \div 2

\* Firmware counts from here: paced says that the microsecond under way is not too long.
Counted(w, load) == [w EXCEPT !.counter = load, !.fed = load, !.age = 0, !.paced = w.acc < w.period]

\* fire_reset: the rest of CTRL stays as it was.
FireReset(w, why) == Counted([w EXCEPT !.reason = why, !.enabled = FALSE], 0)

\* Mutant: it bites only when nothing is left.
RunOutLate(w) == w.counter = 0

\* The count goes down by two; two or less are the last.
RunOut(w) == w.counter <= 2

Bite(w) ==
    [FireReset(w, "timer") EXCEPT
        !.wrong = @ \/ (w.paced /\ w.age \notin (Ticks(w.fed) - 1) * w.period + 1 .. Ticks(w.fed) * w.period)]

Tick(w) == IF RunOut(w) THEN Bite(w) ELSE [w EXCEPT !.counter = @ - 2]

\* A cycle of on_cycles, whose loop a reset ends
Clock ==
    LET began == [wd EXCEPT !.acc = @ + 1, !.age = @ + 1]
        after[n \in 0..began.acc] ==
            LET w == after[n - 1]
            IN  IF n = 0 THEN began
                ELSE IF w.enabled /\ w.acc >= w.period THEN Tick([w EXCEPT !.acc = @ - w.period]) ELSE w
    IN  /\ wd.enabled
        /\ wd' = after[began.acc]
        /\ UNCHANGED writes

-----------------------------------------------------------------------------
Written == writes > 0 /\ writes' = writes - 1

\* CTRL reads as it was written last; ENABLE also while it is so.
ReadCtrl == wd.ctrl \cup (IF wd.enabled THEN {"ENABLE"} ELSE {})

\* Memory::write_scalar: plainly, or through an alias
Combined(alias, old, bits) ==
    CASE alias = "plain" -> bits
      [] alias = "set" -> old \cup bits
      [] alias = "clear" -> old \ bits
      [] alias = "xor" -> (old \ bits) \cup (bits \ old)

WriteCtrl ==
    \E alias \in {"plain", "set", "clear", "xor"}, bits \in {{"ENABLE"}, {"TRIGGER"}, {"PAUSE"}} :
        LET value == Combined(alias, ReadCtrl, bits)
            new == [wd EXCEPT !.ctrl = value, !.enabled = "ENABLE" \in value]
        IN  /\ Written
            /\ wd' = IF "TRIGGER" \in value THEN FireReset(new, "force") ELSE new

\* LOAD; the microsecond under way goes on.
Feed == \E load \in Loads : Written /\ wd' = Counted(wd, load)

\* The clock tree changes the length of a microsecond.
SetPeriod == \E p \in Periods \ {wd.period} : Written /\ wd' = [wd EXCEPT !.period = p, !.paced = FALSE]

\* The device and its firmware come to rest.
Rest == writes = 0 /\ ~wd.enabled /\ UNCHANGED vars

Next == Clock \/ WriteCtrl \/ Feed \/ SetPeriod \/ Rest

Spec == Init /\ [][Next]_vars /\ WF_vars(Clock)

-----------------------------------------------------------------------------
\* The watchdog bites in the microsecond in which its load runs out, not a cycle
\* earlier or later, wherever in a microsecond it was fed, disabled and enabled.
OnTime ==
    /\ ~wd.wrong
    /\ wd.enabled /\ wd.paced => wd.age < Ticks(wd.fed) * wd.period

\* A watchdog that nobody feeds or stops resets the chip.
Waiting == wd.enabled
=============================================================================
