------------------------------- MODULE SysTick -------------------------------
(***************************************************************************)
(* The SysTick timer of a core: its bank in class Scs of src/core/scs.cpp. *)
(* since counts the cycles since it last ran out or was restarted; steady  *)
(* says that it was left alone since; with wrong they are history.          *)
(***************************************************************************)
EXTENDS Integers

CONSTANTS
    Reloads,    \* bound: values of the reload register
    Writes      \* bound: writes of registers

VARIABLES
    syst,       \* the bank, and whether SysTick is pending at the core
    writes      \* the writes left

vars == <<syst, writes>>

-----------------------------------------------------------------------------
Init ==
    /\ syst = [enable |-> FALSE, tickint |-> FALSE, count |-> FALSE, rvr |-> 0, cvr |-> 0, pend |-> FALSE,
               since |-> 0, steady |-> FALSE, wrong |-> FALSE]
    /\ writes = Writes

\* It runs out when the count arrives at 0, not while it stays there.
RunsOut(s) ==
    [s EXCEPT !.cvr = 0, !.count = TRUE, !.pend = @ \/ s.tickint,
              !.wrong = @ \/ (s.steady /\ s.since # s.rvr + 1),
              !.since = 0, !.steady = s.rvr > 0]

\* A round of the loop in on_cycles
Cycle(s) ==
    CASE s.cvr = 0 -> [s EXCEPT !.cvr = s.rvr]
      [] s.cvr = 1 -> RunsOut(s)
      [] OTHER -> [s EXCEPT !.cvr = @ - 1]

Clock ==
    /\ syst.enable
    /\ syst' = Cycle([syst EXCEPT !.since = IF syst.steady THEN @ + 1 ELSE 0])
    /\ UNCHANGED writes

Written == writes > 0 /\ writes' = writes - 1

\* SYST_CSR keeps COUNTFLAG; a counter that is switched off stands still.
WriteCsr ==
    \E e, t \in BOOLEAN : Written /\ syst' = [syst EXCEPT !.enable = e, !.tickint = t]

\* SYST_RVR counts from the next reload.
WriteRvr == \E r \in Reloads : Written /\ syst' = [syst EXCEPT !.rvr = r, !.steady = FALSE]

\* SYST_CVR: any value clears the count and the flag, and pends nothing.
WriteCvr == Written /\ syst' = [syst EXCEPT !.cvr = 0, !.count = FALSE,
                                            !.steady = syst.rvr > 0, !.since = 0]

\* SYST_CSR read: COUNTFLAG clears.
ReadCsr == syst.count /\ syst' = [syst EXCEPT !.count = FALSE] /\ UNCHANGED writes

\* Cpu::step enters the handler.
EnterHandler == syst.pend /\ syst' = [syst EXCEPT !.pend = FALSE] /\ UNCHANGED writes

\* Cpu::reset drops what is pending and leaves the bank as it is.
ResetCore == syst' = [syst EXCEPT !.pend = FALSE] /\ UNCHANGED writes

\* ICSR: PENDSTSET and PENDSTCLR
WriteIcsr == \E set \in BOOLEAN : syst' = [syst EXCEPT !.pend = set] /\ UNCHANGED writes

\* The device and its firmware come to rest.
Rest == writes = 0 /\ ~syst.enable /\ UNCHANGED vars

Next ==
    \/ Clock \/ WriteCsr \/ WriteRvr \/ WriteCvr \/ ReadCsr
    \/ EnterHandler \/ ResetCore \/ WriteIcsr \/ Rest

Spec == Init /\ [][Next]_vars

-----------------------------------------------------------------------------
\* Left alone, it runs out every reload value and one cycles, switched off or not in
\* between, also the first time after the count was cleared.
OnTime ==
    /\ ~syst.wrong
    /\ syst.steady => syst.since + syst.cvr = (IF syst.cvr = 0 THEN 0 ELSE syst.rvr + 1)
=============================================================================
