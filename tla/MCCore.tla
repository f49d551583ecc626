------------------------------- MODULE MCCore -------------------------------
(***************************************************************************)
(* Two firmwares for the cores.  One nests exceptions on one core: stacks, *)
(* priorities, PRIMASK, faults and SVC, and neither sleeps nor resets.     *)
(* With the other, two cores sleep, wake each other, are launched and are  *)
(* reset; it leaves the stacks and the priorities alone.                   *)
(***************************************************************************)
EXTENDS CortexM0

NestingNext ==
    \/ \E c \in Cores : ExceptionStep(c) \/ StackStep(c) \/ NvicStep(c)
    \/ \E i \in Irqs : RaiseIrq(i)

NestingSpec == Init /\ [][NestingNext]_vars

-----------------------------------------------------------------------------
SleepNext ==
    \/ \E c \in Cores : ExceptionStep(c) \/ SleepStep(c)
    \/ \E c \in Cores, i \in Irqs : WriteEnable(c, i, TRUE)
    \/ ResetStep
    \/ IrqStep

(***************************************************************************)
(* Simulator::run steps every running core in every round, so a core that  *)
(* could take an exception round after round takes it.                     *)
(***************************************************************************)
Fairness == \A c \in Cores : WF_vars(TakePending(c))

SleepSpec == Init /\ [][SleepNext]_vars /\ Fairness

\* A sleeping core that an exception may interrupt does not sleep on: it wakes
\* or the request is withdrawn.
EligibleWakes ==
    \A c \in Cores :
        (running[c] /\ sleep[c] # "awake" /\ Eligible(c) # {})
            ~> (sleep[c] = "awake" \/ Eligible(c) = {} \/ ~running[c])

\* What the comment on WFI in Cpu::execute says: its wake source is any enabled
\* pending interrupt, even a PRIMASK-masked one.  (In Thread mode, where PRIMASK
\* is all that can mask one.)
WfiWakesOnEnabled ==
    \A c \in Cores :
        (running[c] /\ ipsr[c] = Thread /\ sleep[c] = "wfi" /\ pending[c] \cap enabled[c] # {})
            ~> (sleep[c] # "wfi" \/ pending[c] \cap enabled[c] = {} \/ ~running[c])
=============================================================================
