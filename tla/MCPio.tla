------------------------------- MODULE MCPio -------------------------------
(***************************************************************************)
(* Two state machines that firmware has set up and not started yet.        *)
(* Either machine 0 copies words, with a program and SHIFTCTRL of several  *)
(* kinds, while machine 1 is off, and the processor uses the FIFOs, stops  *)
(* and starts the machine, changes its speed and forces instructions that  *)
(* do not concern it.  Or machine 0 rings and machine 1 answers, and the   *)
(* processor interferes with any of its registers a bounded number of      *)
(* times.                                                                  *)
(***************************************************************************)
EXTENDS PioWork

CONSTANTS
    MaxWrites,  \* bound: register accesses that may disturb the machines
    MaxDue      \* bound: words on their way through a machine

VARIABLE writes

MCDecode == [w \in Word |-> IF w = 1 THEN TakeSlowly ELSE Nop]

\* Forced instructions: jumps and moves are for a machine in any state.
Harmful == {Jump(1), Take, Move("exec", "x")}
MCHarmless == {SetTo("y", 1)}

MCInstrs ==
    UNION {{p[a] : a \in 1 .. 4} : p \in {ByWord, ByBit, ByCount, ByInjection, ToIsr, Bell}}
        \cup {MCDecode[w] : w \in Word} \cup Harmful \cup MCHarmless

MCShifts == {Shift(a, a, r) : a, r \in BOOLEAN} \cup {OnlyPulling}
MCWraps == {Wrap(0, 3), Wrap(0, 2), Wrap(0, 1), Wrap(0, 0), Wrap(1, 1)}

Control(e, r, c) == [enable |-> e, restart |-> r, clkdiv |-> c]
MCControls ==
    {Control({0}, {}, {}), Control({1}, {}, {}), Control({}, {0}, {}),
     Control({0, 1}, {}, {0, 1})}

MCInit ==
    /\ Stopped /\ writes = 0
    /\ \/ SetToRing /\ div \in [Sms -> Dividers]
       \/ /\ \E c \in CopyingPrograms : SetToCopy(c, {0})
          /\ div = [i \in Sms |-> Unit]

Copying == \E i \in Sms : duty[i] = "copies"

\* The FIFOs and FDEBUG of machine 0, which is stopped and started at any time.
\* Neighbouring words differ, so that a lost or repeated one is noticed.
Data ==
    \/ \E w \in Words :
          /\ Len(due[0]) < MaxDue /\ (due[0] # <<>> => w # due[0][Len(due[0])])
          /\ WriteTxf(0, w)
    \/ ReadRxf(0)
    \/ WriteFdebug([k \in DOMAIN fdebug |-> {0}])
    \/ \E e \in {{}, {0}} : e # ctrl.enable /\ WriteCtrl("normal", Control(e, {}, {}))
    \/ \E d \in Dividers \ {div[0]} : WriteClkdiv(0, d)
    \/ \E in \in Harmless, level \in Levels : WriteInstr(0, in, level)

SetUpAgain ==
    \/ \E S \in {{0}, {1}} : WriteIrq(S) \/ WriteIrqForce(S)
    \/ \E alias \in {"normal", "set", "clear", "xor"}, v \in Controls : WriteCtrl(alias, v)
    \/ \E d \in Dividers : WriteClkdiv(0, d)
    \/ WriteExecctrl(0, Wrap(0, 0))
    \/ \E tx, rx \in BOOLEAN : WriteShiftctrl(0, Automatic(TRUE), tx, rx)
    \/ WriteInstrMem(0, Ring)
    \/ \E in \in Harmful \cup Harmless, level \in Levels : WriteInstr(0, in, level)
    \/ Reset

MCNext ==
    \/ (Tick \/ NoAccess) /\ UNCHANGED writes
    \/ Copying /\ Data /\ UNCHANGED writes
    \/ ~Copying /\ writes < MaxWrites /\ SetUpAgain /\ writes' = writes + 1

MCSpec ==
    MCInit /\ [][MCNext]_<<vars, writes>>
    /\ WF_<<vars, writes>>((Tick \/ NoAccess) /\ UNCHANGED writes)
=============================================================================
