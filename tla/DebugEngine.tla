---------------------------- MODULE DebugEngine ----------------------------
(***************************************************************************)
(* What a debugger of one simulated program promises its user: a program   *)
(* is loaded, runs or stands still; while it stands still only a step      *)
(* moves it, and while it runs nobody replaces or steps it; a run ends no  *)
(* later than at the first breakpoint it reaches.                          *)
(***************************************************************************)
EXTENDS Naturals

CONSTANTS
    Images,     \* the programs that can be loaded
    Length      \* a program is a loop of this many instructions

VARIABLES
    mode,           \* "empty", "stopped" or "running"
    sim,            \* the program, and the address of its next instruction
    breakpoints     \* the addresses to stop at

vars == <<mode, sim, breakpoints>>

Pcs == 0..(Length - 1)

Init ==
    /\ mode = "empty"
    /\ sim \in [image : Images, pc : {0}]
    /\ breakpoints = {}

\* A program that cannot be read leaves the debugger empty.
Load ==
    /\ mode # "running"
    /\ sim' \in [image : Images, pc : {0}]
    /\ \/ mode' = "stopped" /\ breakpoints' = {}
       \/ mode' = "empty" /\ UNCHANGED breakpoints

Run == mode = "stopped" /\ mode' = "running" /\ UNCHANGED <<sim, breakpoints>>

Stop == mode = "running" /\ mode' = "stopped" /\ UNCHANGED <<sim, breakpoints>>

\* One instruction; one that faults stays where it is.
Advance ==
    /\ UNCHANGED breakpoints
    /\ \/ sim' = [sim EXCEPT !.pc = (@ + 1) % Length]
       \/ sim' = sim

Step == mode = "stopped" /\ Advance /\ UNCHANGED mode

\* The run goes on only if it is not at a breakpoint.
Execute ==
    /\ mode = "running"
    /\ Advance
    /\ \/ mode' = "stopped"
       \/ mode' = "running" /\ sim' # sim /\ sim'.pc \notin breakpoints

SetBreakpoints == breakpoints' \in SUBSET Pcs /\ UNCHANGED <<mode, sim>>

Next == Load \/ Run \/ Stop \/ Step \/ Execute \/ SetBreakpoints

Spec == Init /\ [][Next]_vars
=============================================================================
