------------------------------ MODULE PioWork ------------------------------
(***************************************************************************)
(* What firmware uses a block for: the programs that it loads, and the     *)
(* settings that it gives the machines before it starts them.  Machines    *)
(* copy words from their TX FIFO to their RX FIFO, all with one program,   *)
(* or the first machine rings and the last one answers.                    *)
(***************************************************************************)
EXTENDS Pio

Jump(a) == [op |-> "JMP", cond |-> "always", to |-> a, delay |-> 0]
PullWord(d, ifEmpty) ==
    [op |-> "PULL", block |-> TRUE, empty |-> ifEmpty, delay |-> d]
PushWord(ifFull) == [op |-> "PUSH", block |-> TRUE, full |-> ifFull, delay |-> 0]
Move(d, s) == [op |-> "MOV", dst |-> d, src |-> s, inv |-> "none", delay |-> 0]
OutTo(d, n, wait) == [op |-> "OUT", dst |-> d, bits |-> n, delay |-> wait]
InFrom(s, n) == [op |-> "IN", src |-> s, bits |-> n, delay |-> 0]
SetTo(d, v) == [op |-> "SET", dst |-> d, data |-> v, delay |-> 0]
Ring == [op |-> "IRQ", clear |-> FALSE, wait |-> TRUE, index |-> 0, rel |-> TRUE, delay |-> 0]
Answer == [op |-> "WAIT", src |-> "irq", high |-> TRUE, index |-> 1, rel |-> TRUE, delay |-> 1]

-----------------------------------------------------------------------------
(* Programs *)

Take == PullWord(0, FALSE)
TakeSlowly == PullWord(1, FALSE)
TakeIfEmpty == PullWord(1, TRUE)
Give == PushWord(FALSE)
GiveIfFull == PushWord(TRUE)

ByWord == <<Take, Move("isr", "osr"), Give, Jump(0)>>
ByBit == <<OutTo("x", 1, 1), InFrom("x", 1), Nop, Nop>>
ByCount == <<TakeIfEmpty, OutTo("x", 1, 0), InFrom("x", 1), GiveIfFull>>
ByInjection == <<Move("exec", "x"), Move("isr", "osr"), Give, Nop>>
ToIsr == <<OutTo("isr", Width, 0), GiveIfFull, Nop, Nop>>
Bell == <<Ring, Answer, Nop, Nop>>

Loaded(p) == [a \in Addrs |-> IF a < 4 THEN p[a + 1] ELSE Nop]

\* A forced instruction that leaves to the program what it uses
Polite(in) == in.op = "SET" /\ in.dst \notin {"x", "isr", "osr"}

\* The first machine rings, and the last one answers it; the data word 1 is
\* the instruction that ByInjection injects.
ASSUME WorkAssumption ==
    /\ NumSm > 1 /\ Size > 3
    /\ Decode[1] = TakeSlowly
    /\ \A in \in Harmless : Polite(in)
    /\ \A w \in Wraps : w.bottom \in Addrs

\* autopush and autopull, and the direction of both shifts
Shift(push, pull, right) ==
    [autopush |-> push, autopull |-> pull, push |-> Width, pull |-> Width,
     inRight |-> right, outRight |-> right]
Wrap(b, t) == [top |-> t, bottom |-> b, rxStatus |-> FALSE, n |-> 0]

Manual == Shift(FALSE, FALSE, TRUE)
Automatic(right) == Shift(TRUE, TRUE, right)
OnlyPulling == Shift(FALSE, TRUE, TRUE)

\* A program with its settings and with what X holds
Program(p, shift, wrap, x) == [p |-> p, shift |-> shift, wrap |-> wrap, x |-> x]
CopyingPrograms ==
    {Program(ByWord, Manual, Wrap(0, 3), 0),
     Program(ByBit, Automatic(TRUE), Wrap(0, 1), 0),
     Program(ByBit, Automatic(FALSE), Wrap(0, 1), 0),
     Program(ByCount, Manual, Wrap(0, 3), 0),
     Program(ByInjection, Manual, Wrap(0, 2), 1),
     Program(ToIsr, OnlyPulling, Wrap(0, 1), 0)}

-----------------------------------------------------------------------------
(* A block that firmware has set up and not started yet *)

SetUp(s, w, x) == Restarted([Fresh EXCEPT !.shift = s, !.wrap = w, !.x = x])

Stopped ==
    /\ acc = [i \in Sms |-> 0]
    /\ irq = {} /\ ctrl = NoControl /\ fdebug = NoEvents /\ turn = NumSm
    /\ due = [i \in Sms |-> <<>>] /\ met = 0 /\ asked = {} /\ phased = {}

\* The machines in S copy words with program c.
SetToCopy(c, S) ==
    /\ prog = Loaded(c.p)
    /\ sm = [i \in Sms |-> IF i \in S THEN SetUp(c.shift, c.wrap, c.x) ELSE Fresh]
    /\ duty = [i \in Sms |-> IF i \in S THEN "copies" ELSE "any"]

\* The first machine rings, and the last one answers.
SetToRing ==
    /\ prog = Loaded(Bell)
    /\ sm = [i \in Sms |-> CASE i = 0 -> SetUp(ShiftDefault, Wrap(0, 0), 0)
                             [] i = NumSm - 1 -> SetUp(ShiftDefault, Wrap(1, 1), 0)
                             [] OTHER -> Fresh]
    /\ duty = [i \in Sms |-> CASE i = 0 -> "rings"
                               [] i = NumSm - 1 -> "answers"
                               [] OTHER -> "any"]

WorkInit ==
    /\ Stopped
    /\ div \in [Sms -> Dividers]
    /\ SetToRing \/ \E c \in CopyingPrograms, S \in SUBSET Sms : SetToCopy(c, S)

\* From there on the processor and the machines do what they like.
WorkSpec == WorkInit /\ [][Next]_vars
=============================================================================
