-------------------------------- MODULE Sio --------------------------------
(***************************************************************************)
(* The single-cycle IO block the two cores share: class Sio of             *)
(* src/peripherals/sio.cpp, with the two mailbox FIFOs and their           *)
(* interrupts, the launch of core 1, the spinlocks and the divider.        *)
(*                                                                         *)
(* Each bus access of a core is one action: Simulator::step lets the cores *)
(* take turns, and what a core does between two accesses is its firmware's *)
(* affair.  That firmware is any that serves the FIFO interrupt by reading *)
(* a word, releases only the spinlocks it was granted and keeps the divider*)
(* to the holder of one of them.                                           *)
(***************************************************************************)
EXTENDS Integers, Sequences, FiniteSets, SequencesExt

CONSTANTS
    Words,      \* the words firmware sends; 1 selects a launch
    Depth,      \* kFifoDepth, 8 in the code
    Latency,    \* kDivLatencyCycles, 8 in the code
    Half,       \* half the range of the divider's words, 2^31 in the code
    Locks,      \* the spinlocks, 0 .. 31 in the code
    DivLock     \* the spinlock that guards the divider

ASSUME WordsAssumption == Words \subseteq Nat
ASSUME SizesAssumption == Depth \in Nat \ {0} /\ Latency \in Nat \ {0} /\ Half \in Nat \ {0}
ASSUME LocksAssumption == DivLock \in Locks

VARIABLES
    to0,          \* to0_, each word with its origin: "core1" or "echo"
    to1,          \* to1_
    wof, roe,     \* fifo_wof_ and fifo_roe_, one of each for both cores
    stage,        \* launch_stage_
    args,         \* launch_words_
    running,      \* core1_running_
    pend,         \* SIO_IRQ_PROC0/1 pending on its core
    serving,      \* the core runs its FIFO interrupt's handler
    dropped,      \* history: a reset or NVIC_ICPR dropped the bit since the last refresh
    sent,         \* history: the words each core put in its FIFO
    got,          \* history: what each core took out of its FIFO
    spinlock,     \* spinlock_: held
    holder,       \* the cores a read of the lock granted it
    dividend, divisor, quotient, remainder, signed, ready, dirty, countdown,
    asked         \* history: what a holder of the lock has asked it for, -1 if nothing yet

fifos == <<to0, to1, wof, roe, stage, args, running, pend, serving, dropped, sent, got>>
locks == <<spinlock, holder>>
operation == <<dividend, divisor, quotient, remainder, signed, ready, dirty, countdown>>
divider == <<operation, asked>>
vars == <<fifos, locks, divider>>

-----------------------------------------------------------------------------
Cores == {0, 1}
Base == 2 * Half
Values == 0..(Base - 1)
Nothing == [dividend |-> -1, divisor |-> -1, signed |-> FALSE]

\* The block as it is constructed, with core 1 running or not
Start(up) ==
    /\ to0 = <<>> /\ to1 = <<>>
    /\ wof = FALSE /\ roe = FALSE
    /\ stage = -1 /\ args = <<0, 0, 0>>
    /\ running = up
    /\ pend = [c \in Cores |-> FALSE]
    /\ serving = [c \in Cores |-> FALSE]
    /\ dropped = [c \in Cores |-> FALSE]
    /\ sent = [c \in Cores |-> <<>>]
    /\ got = [c \in Cores |-> <<>>]
    /\ spinlock = [n \in Locks |-> FALSE]
    /\ holder = [n \in Locks |-> {}]
    /\ dividend = 0 /\ divisor = 0 /\ quotient = 0 /\ remainder = 0
    /\ signed = FALSE /\ ready = TRUE /\ dirty = FALSE /\ countdown = 0
    /\ asked = [c \in Cores |-> Nothing]

Init == Start(FALSE)

On(c) == c = 0 \/ running

-----------------------------------------------------------------------------
\* The mailboxes

\* Mutant: the interrupts follow the FIFOs as they were.
RefreshFifoIrqsEarly ==
    /\ pend' = [c \in Cores |-> IF c = 0 THEN to0 # <<>> ELSE to1 # <<>>]
    /\ dropped' = [c \in Cores |-> FALSE]

\* Sio::refresh_fifo_irqs, after the FIFOs have got their new contents
RefreshFifoIrqs ==
    /\ pend' = [c \in Cores |-> IF c = 0 THEN to0' # <<>> ELSE to1' # <<>>]
    /\ dropped' = [c \in Cores |-> FALSE]

\* Mutant: the command word counts as the first argument.
LaunchMachineEarly(w) ==
    /\ UNCHANGED <<serving, holder, asked>>
    /\ \/ /\ stage < 0
          /\ stage' = IF w = 1 THEN 1 ELSE stage
          /\ UNCHANGED <<args, running>>
       \/ /\ stage >= 0
          /\ args' = [args EXCEPT ![stage + 1] = w]
          /\ stage' = IF stage = 2 THEN -1 ELSE stage + 1
          /\ running' = (running \/ stage = 2)

\* The launch state machine of Sio::mailbox_write, for a word from core 0.  The
\* launch callback of Simulator starts core 1 over, even if it runs already.
LaunchMachine(w) ==
    \/ /\ stage < 0
       /\ stage' = IF w = 1 THEN 0 ELSE stage
       /\ UNCHANGED <<args, running, serving, holder, asked>>
    \/ /\ stage >= 0
       /\ args' = [args EXCEPT ![stage + 1] = w]
       /\ \/ /\ stage < 2
             /\ stage' = stage + 1
             /\ UNCHANGED <<running, serving, holder, asked>>
          \/ /\ stage = 2
             /\ stage' = -1
             /\ running' = TRUE
             /\ serving' = [serving EXCEPT ![1] = FALSE]
             /\ holder' = [n \in Locks |-> holder[n] \ {1}]
             /\ asked' = [asked EXCEPT ![1] = Nothing]

\* FIFO_WR
MailboxWrite(c, w) ==
    /\ On(c)
    /\ \/ /\ Len(IF c = 0 THEN to1 ELSE to0) >= Depth
          /\ wof' = TRUE
          /\ UNCHANGED <<to0, to1, stage, args, running, serving, pend, dropped, sent, holder, asked>>
       \/ /\ Len(IF c = 0 THEN to1 ELSE to0) < Depth
          /\ to1' = IF c = 0 THEN Append(to1, w) ELSE to1
          /\ to0' = Append(to0, [from |-> IF c = 0 THEN "echo" ELSE "core1", word |-> w])
          /\ IF c = 0 THEN LaunchMachine(w)
                      ELSE UNCHANGED <<stage, args, running, serving, holder, asked>>
          /\ RefreshFifoIrqs
          /\ sent' = [sent EXCEPT ![c] = Append(@, w)]
          /\ UNCHANGED wof
    /\ UNCHANGED <<roe, got, spinlock, operation>>

\* Mutant: a read takes the word that came last.
FifoReadLast(c) ==
    LET in == IF c = 0 THEN to0 ELSE to1
    IN  /\ On(c)
        /\ in # <<>>
        /\ serving' = [serving EXCEPT ![c] = FALSE]
        /\ to0' = IF c = 0 THEN Front(to0) ELSE to0
        /\ to1' = IF c = 1 THEN Front(to1) ELSE to1
        /\ RefreshFifoIrqs
        /\ got' = [got EXCEPT ![c] = Append(@, Last(in))]
        /\ UNCHANGED <<wof, roe, stage, args, running, sent, locks, divider>>

\* FIFO_RD; in the handler it is what the handler is for.
FifoRead(c) ==
    LET in == IF c = 0 THEN to0 ELSE to1
    IN  /\ On(c)
        /\ serving' = [serving EXCEPT ![c] = FALSE]
        /\ \/ /\ in = <<>>
              /\ roe' = TRUE
              /\ UNCHANGED <<to0, to1, pend, dropped, got>>
           \/ /\ in # <<>>
              /\ to0' = IF c = 0 THEN Tail(to0) ELSE to0
              /\ to1' = IF c = 1 THEN Tail(to1) ELSE to1
              /\ RefreshFifoIrqs
              /\ got' = [got EXCEPT ![c] = Append(@, Head(in))]
              /\ UNCHANGED roe
        /\ UNCHANGED <<wof, stage, args, running, sent, locks, divider>>

\* A write of FIFO_ST clears both flags, whichever core's they are.
ClearStatus(c) ==
    /\ On(c)
    /\ wof' = FALSE /\ roe' = FALSE
    /\ UNCHANGED <<to0, to1, stage, args, running, pend, serving, dropped, sent, got>>
    /\ UNCHANGED <<locks, divider>>

\* Cpu::step enters the handler, which clears the pending bit but not its cause.
EnterHandler(c) ==
    /\ On(c)
    /\ pend[c] /\ ~serving[c]
    /\ pend' = [pend EXCEPT ![c] = FALSE]
    /\ serving' = [serving EXCEPT ![c] = TRUE]
    /\ UNCHANGED <<to0, to1, wof, roe, stage, args, running, dropped, sent, got>>
    /\ UNCHANGED <<locks, divider>>

\* NVIC_ISPR sets the pending bit of the core that writes it, NVIC_ICPR clears it.
WriteNvic(c) ==
    /\ On(c)
    /\ \/ pend' = [pend EXCEPT ![c] = TRUE] /\ UNCHANGED dropped
       \/ pend' = [pend EXCEPT ![c] = FALSE] /\ dropped' = [dropped EXCEPT ![c] = TRUE]
    /\ UNCHANGED <<to0, to1, wof, roe, stage, args, running, serving, sent, got>>
    /\ UNCHANGED <<locks, divider>>

-----------------------------------------------------------------------------
\* The spinlocks

\* Mutant: a read takes the lock and returns it whether or not it is free.
ClaimAlways(c, n) ==
    /\ On(c) /\ c \notin holder[n]
    /\ spinlock' = [spinlock EXCEPT ![n] = TRUE]
    /\ holder' = [holder EXCEPT ![n] = @ \cup {c}]
    /\ UNCHANGED <<fifos, divider>>

\* A read of SPINLOCKn takes it if it is free.
Claim(c, n) ==
    /\ On(c) /\ c \notin holder[n]
    /\ \/ /\ spinlock[n]
          /\ UNCHANGED locks
       \/ /\ ~spinlock[n]
          /\ spinlock' = [spinlock EXCEPT ![n] = TRUE]
          /\ holder' = [holder EXCEPT ![n] = @ \cup {c}]
    /\ UNCHANGED <<fifos, divider>>

\* Any write releases it.
Release(c, n) ==
    /\ On(c) /\ c \in holder[n]
    /\ spinlock' = [spinlock EXCEPT ![n] = FALSE]
    /\ holder' = [holder EXCEPT ![n] = @ \ {c}]
    /\ asked' = [asked EXCEPT ![c] = IF n = DivLock THEN Nothing ELSE @]
    /\ UNCHANGED <<fifos, operation>>

-----------------------------------------------------------------------------
\* The divider

AsSigned(v) == IF v >= Base \div 2 THEN v - Base ELSE v
AbsOf(i) == IF i < 0 THEN -i ELSE i

Wrap(i) == i % Base

\* The host's division, which truncates toward zero
TruncDiv(a, b) ==
    LET q == AbsOf(a) \div AbsOf(b)
    IN  IF (a < 0) # (b < 0) THEN -q ELSE q

\* Sio::finish_divide: the quotient and the remainder
Divide(a, b, isSigned) ==
    IF b = 0 THEN <<Base - 1, a>>
    ELSE IF isSigned
    THEN LET x == AsSigned(a)
             y == AsSigned(b)
             q == TruncDiv(x, y)
         IN  IF x = -(Base \div 2) /\ y = -1 THEN <<a, 0>> ELSE <<Wrap(q), Wrap(x - q * y)>>
    ELSE <<a \div b, a % b>>

\* Mutant: a second operand does not start the countdown again.
StartDivideOnce(c, isSigned, operand, v) ==
    /\ On(c) /\ c \in holder[DivLock]
    /\ dividend' = IF operand = "dividend" THEN v ELSE dividend
    /\ divisor' = IF operand = "divisor" THEN v ELSE divisor
    /\ signed' = isSigned
    /\ dirty' = TRUE
    /\ countdown' = IF dirty THEN countdown ELSE Latency
    /\ ready' = (countdown' = 0)
    /\ asked' = [asked EXCEPT ![c] = [@ EXCEPT ![operand] = v, !.signed = isSigned]]
    /\ UNCHANGED <<quotient, remainder, fifos, locks>>

\* Sio::start_divide, on a write of [U|S]DIVIDEND or [U|S]DIVISOR
StartDivide(c, isSigned, operand, v) ==
    /\ On(c) /\ c \in holder[DivLock]
    /\ dividend' = IF operand = "dividend" THEN v ELSE dividend
    /\ divisor' = IF operand = "divisor" THEN v ELSE divisor
    /\ signed' = isSigned
    /\ ready' = FALSE
    /\ dirty' = TRUE
    /\ countdown' = Latency
    /\ asked' = [asked EXCEPT ![c] = [@ EXCEPT ![operand] = v, !.signed = isSigned]]
    /\ UNCHANGED <<quotient, remainder, fifos, locks>>

\* A read of QUOTIENT clears DIRTY.
ReadQuotient(c) ==
    /\ On(c) /\ c \in holder[DivLock]
    /\ dirty' = FALSE
    /\ UNCHANGED <<dividend, divisor, quotient, remainder, signed, ready, countdown, asked>>
    /\ UNCHANGED <<fifos, locks>>

\* Sio::on_cycles, for the cycles core 0's step took
Cycles(n) ==
    /\ countdown > 0
    /\ \/ /\ n >= countdown
          /\ countdown' = 0
          /\ quotient' = Divide(dividend, divisor, signed)[1]
          /\ remainder' = Divide(dividend, divisor, signed)[2]
          /\ ready' = TRUE
       \/ /\ n < countdown
          /\ countdown' = countdown - n
          /\ UNCHANGED <<quotient, remainder, ready>>
    /\ UNCHANGED <<dividend, divisor, signed, dirty, asked, fifos, locks>>

-----------------------------------------------------------------------------
\* A reset of the cores in R: Cpu::reset clears the pending bits, the firmware
\* starts over, core 1 stops.  The SIO itself is not reset.
ResetCores(R) ==
    /\ pend' = [c \in Cores |-> pend[c] /\ c \notin R]
    /\ serving' = [c \in Cores |-> serving[c] /\ c \notin R]
    /\ dropped' = [c \in Cores |-> dropped[c] \/ c \in R]
    /\ running' = (running /\ 1 \notin R)
    /\ holder' = [n \in Locks |-> holder[n] \ R]
    /\ asked' = [c \in Cores |-> IF c \in R THEN Nothing ELSE asked[c]]
    /\ UNCHANGED <<to0, to1, wof, roe, stage, args, sent, got, spinlock, operation>>

MailboxStep ==
    \E c \in Cores :
        \/ \E w \in Words : MailboxWrite(c, w)
        \/ FifoRead(c)
        \/ ClearStatus(c)
        \/ EnterHandler(c)
        \/ WriteNvic(c)

LockStep == \E c \in Cores, n \in Locks : Claim(c, n) \/ Release(c, n)

DividerStep ==
    \/ \E c \in Cores, s \in BOOLEAN, o \in {"dividend", "divisor"}, v \in Values :
          StartDivide(c, s, o, v)
    \/ \E c \in Cores : ReadQuotient(c)
    \/ \E n \in 1..Latency : Cycles(n)

ResetStep == \E R \in {{0}, {0, 1}} : ResetCores(R)

Next == MailboxStep \/ LockStep \/ DividerStep \/ ResetStep

Spec == Init /\ [][Next]_vars

-----------------------------------------------------------------------------
\* The words of origin o among the entries of core 0's mailbox in s, in order
WordsFrom(s, o) ==
    LET words[k \in 0..Len(s)] ==
            IF k = 0 THEN <<>>
            ELSE IF s[k].from = o THEN Append(words[k - 1], s[k].word) ELSE words[k - 1]
    IN  words[Len(s)]

\* No word a core put in a mailbox is lost, repeated or overtaken: core 1 gets
\* what core 0 sent, and core 0 gets what core 1 sent, in order, between the
\* echoes of what it sent itself.
Delivered ==
    /\ got[1] \o to1 = sent[0]
    /\ WordsFrom(got[0] \o to0, "core1") = sent[1]
    /\ WordsFrom(got[0] \o to0, "echo") = sent[0]

\* A word that waits keeps its core's FIFO interrupt pending or is about to be
\* read by the handler, although entering the handler clears the pending bit
\* of a level-triggered line: the read that leaves a word behind pends it
\* again.  Only a reset of the core, which the FIFOs survive, or firmware that
\* clears the bit itself breaks this, and only until the next word moves.
NotForgotten ==
    \A c \in Cores :
        (IF c = 0 THEN to0 ELSE to1) # <<>> => pend[c] \/ serving[c] \/ dropped[c]

\* A spinlock has one holder at a time, and while it has one it reads as held.
OneHolder ==
    \A n \in Locks : Cardinality(holder[n]) <= 1 /\ (holder[n] # {} => spinlock[n])

\* What division means: dividend = quotient * divisor + remainder in the
\* divider's arithmetic, with a remainder smaller than the divisor and of the
\* sign of the dividend; division by 0 keeps the dividend as the remainder.
IsDivision(q, r, of) ==
    LET val(v) == IF of.signed THEN AsSigned(v) ELSE v
    IN  /\ Wrap(q * of.divisor + r) = of.dividend
        /\ of.divisor # 0 => AbsOf(val(r)) < AbsOf(val(of.divisor))
        /\ val(r) * val(of.dividend) >= 0
        /\ of.divisor = 0 => q = Base - 1

\* Who divides under the lock gets the quotient and the remainder of its own
\* operands once READY is set, whatever the other core does, and for every
\* pair of operands, signed or not.
OwnResult ==
    \A c \in holder[DivLock] :
        (ready /\ asked[c].dividend # -1 /\ asked[c].divisor # -1) =>
            IsDivision(quotient, remainder, asked[c])

Launches == stage = 2 /\ stage' = -1

\* Core 1 starts with the three words that core 0 sent after a 1.
LaunchFollowsCommand ==
    [][Launches => IsSuffix(<<1>> \o args', sent'[0])]_vars
=============================================================================
