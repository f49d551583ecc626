-------------------------------- MODULE Dma --------------------------------
(***************************************************************************)
(* The DMA controller: class Dma of src/peripherals/dma.cpp.  Channels     *)
(* that firmware programs, triggers and aborts; the clock that moves their *)
(* elements at the pace of their TREQ; chains from one channel to the next;*)
(* and the two interrupts, as one core's NVIC sees them.                   *)
(*                                                                         *)
(* Simulator::step first lets the cores run and then calls on_cycles, whose*)
(* inner loop serves the channels in turn: "turn" is that loop's variable, *)
(* and register writes happen between two rounds of it.  An element is a   *)
(* count and not an address or a value, and a transfer's writes do not     *)
(* land in the DMA's own registers.                                        *)
(***************************************************************************)
EXTENDS Integers, FiniteSets

CONSTANTS
    N,          \* kNumChannels, 12 in the code
    MaxCount,   \* bound: the largest TRANS_COUNT firmware writes
    Controls,   \* the settings firmware writes to CTRL
    Rates,      \* the <<X, Y>> firmware writes to the pacing timer
    Divisor     \* dreq_divisor_, the pace of a DREQ without a source

Treqs == {"permanent", "timer", "unregistered", "peripheral"}

ASSUME ChannelsAssumption == N \in Nat /\ N > 1
ASSUME CountAssumption == MaxCount \in Nat
ASSUME ControlsAssumption ==
    Controls \subseteq [en : BOOLEAN, chain : 0..N, quiet : BOOLEAN, treq : Treqs]
ASSUME PaceAssumption == Rates \subseteq Nat \X Nat /\ Divisor \in Nat \ {0}

VARIABLES
    chan,       \* chan_: the fields of CTRL, and of struct Channel
    timer,      \* pacing_timer_, one of the four
    intr,       \* intr_
    inte, intf, \* inte_ and intf_ of the two interrupts
    turn,       \* the channel on_cycles serves next, 0 between two clocks
    pend,       \* DMA_IRQ_0/1 pending on the core
    serving,    \* the core runs the interrupt's handler
    seen,       \* the INTS that handler has read
    dropped,    \* history: those a reset or NVIC_ICPR dropped since the last refresh
    job         \* history: elements to move and moved since the trigger, clocks spent

irqs == <<pend, serving, seen, dropped>>
vars == <<chan, timer, intr, inte, intf, turn, irqs, job>>

-----------------------------------------------------------------------------
Channels == 0..(N - 1)
Irqs == {0, 1}

Cleared == [en |-> FALSE, chain |-> 0, quiet |-> FALSE, treq |-> "unregistered",
            busy |-> FALSE, error |-> FALSE, count |-> 0, remaining |-> 0, pace |-> 0]

NoJob == [armed |-> 0, moved |-> 0, clocks |-> 0, steady |-> TRUE]

\* Nothing has run yet, and the channels, the timer and INTE hold ch, t and e.
Idle(ch, t, e) ==
    /\ chan = ch
    /\ timer = t
    /\ intr = {}
    /\ inte = e
    /\ intf = [k \in Irqs |-> {}]
    /\ turn = 0
    /\ pend = [k \in Irqs |-> FALSE]
    /\ serving = [k \in Irqs |-> FALSE]
    /\ seen = [k \in Irqs |-> {}]
    /\ dropped = {}
    /\ job = [c \in Channels |-> NoJob]

Init == Idle([c \in Channels |-> Cleared], <<0, 0>>, [k \in Irqs |-> {}])

-----------------------------------------------------------------------------
\* Mutant: the interrupts follow INTR as it was.
RefreshIrqsEarly ==
    /\ pend' = [k \in Irqs |-> (intr \cup intf'[k]) \cap inte'[k] # {}]
    /\ dropped' = {}

\* Dma::refresh_irqs, with the registers' new contents
RefreshIrqs ==
    /\ pend' = [k \in Irqs |-> (intr' \cup intf'[k]) \cap inte'[k] # {}]
    /\ dropped' = {}

Ints(k) == (intr \cup intf[k]) \cap inte[k]

\* The channels Dma::trigger reaches from c.  A null transfer completes inside
\* the trigger and triggers the channel it chains to, and so on; N stands for
\* no channel.
Null(ch, c) == ch[c].en /\ ch[c].count = 0

Walk(ch, c) ==
    LET w[i \in 0..(N + 1)] ==
            IF i = 0 THEN c
            ELSE IF w[i - 1] # N /\ Null(ch, w[i - 1]) /\ ch[w[i - 1]].chain # w[i - 1]
                 THEN ch[w[i - 1]].chain
                 ELSE N
    IN  w

Path(ch, c) == {Walk(ch, c)[i] : i \in 0..(N + 1)} \cap Channels

Reached(ch, S) == {x \in UNION {Path(ch, c) : c \in S} : ch[x].en}

\* The guard on chain_depth_ lets N + 1 null transfers complete; the next one
\* stays BUSY unless a later trigger of the same write completes it.
Overrun(ch, S) ==
    {x \in Reached(ch, S) :
        /\ Null(ch, x)
        /\ \E c \in S :
              /\ Walk(ch, c)[N + 1] = x
              /\ \A d \in S : d > c => x \notin Path(ch, d)}

NullDone(ch, S) ==
    {x \in Reached(ch, S) :
        Null(ch, x) /\ \E c \in S, i \in 0..N : Walk(ch, c)[i] = x}

\* The channels after Dma::trigger of each of S, in ascending order
Triggered(ch, S) ==
    [x \in Channels |->
        IF x \in Reached(ch, S)
        THEN [ch[x] EXCEPT !.remaining = ch[x].count, !.pace = 0, !.error = FALSE,
                           !.busy = ch[x].count > 0 \/ x \in Overrun(ch, S)]
        ELSE ch[x]]

\* Channels "done" have completed, and then S is triggered.
Fire(ch, S, done, jobs) ==
    /\ chan' = Triggered(ch, S)
    /\ intr' = intr \cup {x \in done \cup NullDone(ch, S) : ~ch[x].quiet}
    /\ IF done \cup NullDone(ch, S) # {} THEN RefreshIrqs ELSE UNCHANGED <<pend, dropped>>
    /\ job' = [x \in Channels |->
                 IF x \in Reached(ch, S) THEN [NoJob EXCEPT !.armed = ch[x].count] ELSE jobs[x]]

-----------------------------------------------------------------------------
\* Register writes.  The fourth register of each alias is a trigger too.

Write(ch, c, trig) ==
    /\ turn = 0
    /\ UNCHANGED <<timer, inte, intf, turn, serving, seen>>
    /\ Fire(ch, IF trig THEN {c} ELSE {}, {}, job)

WriteAddress(c, trig) == Write(chan, c, trig)

\* Mutant: a new count replaces what is left of a running transfer.
WriteCountLive(c, n, trig) ==
    Write([chan EXCEPT ![c] = [@ EXCEPT !.count = n, !.remaining = IF @ > 0 THEN n ELSE @]],
          c, trig)

WriteCount(c, n, trig) == Write([chan EXCEPT ![c].count = n], c, trig)

\* CTRL takes the value as it comes, the error flags too, except that BUSY
\* ends up clear.  A read-modify-write alias keeps the error flags.
WriteControl(c, k, keepError, trig) ==
    Write([chan EXCEPT ![c] = [@ EXCEPT !.en = k.en, !.chain = k.chain, !.quiet = k.quiet,
                                        !.treq = k.treq, !.busy = FALSE,
                                        !.error = chan[c].error /\ keepError]],
          c, trig)

\* MULTI_CHAN_TRIGGER
MultiTrigger(S) ==
    /\ turn = 0
    /\ UNCHANGED <<timer, inte, intf, turn, serving, seen>>
    /\ Fire(chan, S, {}, job)

\* CHAN_ABORT
Abort(S) ==
    /\ turn = 0
    /\ chan' = [c \in Channels |->
                  IF c \in S THEN [chan[c] EXCEPT !.remaining = 0, !.count = 0, !.busy = FALSE]
                             ELSE chan[c]]
    /\ UNCHANGED <<timer, intr, inte, intf, turn, irqs, job>>

\* INTR, write 1 to clear
ClearIntr(S) ==
    /\ turn = 0
    /\ intr' = intr \ S
    /\ UNCHANGED <<inte, intf>>
    /\ RefreshIrqs
    /\ UNCHANGED <<chan, timer, turn, serving, seen, job>>

\* INTE0/1 and INTF0/1
WriteEnable(k, S) ==
    /\ turn = 0
    /\ inte' = [inte EXCEPT ![k] = S]
    /\ UNCHANGED <<intr, intf>>
    /\ RefreshIrqs
    /\ UNCHANGED <<chan, timer, turn, serving, seen, job>>

WriteForce(k, S) ==
    /\ turn = 0
    /\ intf' = [intf EXCEPT ![k] = S]
    /\ UNCHANGED <<intr, inte>>
    /\ RefreshIrqs
    /\ UNCHANGED <<chan, timer, turn, serving, seen, job>>

\* TIMER0: a transfer under way goes on with what it has accumulated.
WriteTimer(r) ==
    /\ turn = 0
    /\ timer' = r
    /\ job' = [c \in Channels |-> [job[c] EXCEPT !.steady = @ /\ chan[c].treq # "timer"]]
    /\ UNCHANGED <<chan, intr, inte, intf, turn, irqs>>

-----------------------------------------------------------------------------
\* The handler of DMA_IRQ_k reads INTS when it starts and clears what it read.

EnterHandler(k) ==
    /\ turn = 0
    /\ pend[k] /\ ~serving[k]
    /\ pend' = [pend EXCEPT ![k] = FALSE]
    /\ serving' = [serving EXCEPT ![k] = TRUE]
    /\ seen' = [seen EXCEPT ![k] = Ints(k)]
    /\ UNCHANGED <<chan, timer, intr, inte, intf, turn, dropped, job>>

Acknowledge(k) ==
    /\ turn = 0
    /\ serving[k]
    /\ intr' = intr \ seen[k]
    /\ UNCHANGED <<inte, intf>>
    /\ RefreshIrqs
    /\ serving' = [serving EXCEPT ![k] = FALSE]
    /\ seen' = [seen EXCEPT ![k] = {}]
    /\ UNCHANGED <<chan, timer, turn, job>>

-----------------------------------------------------------------------------
\* Dma::on_cycles for one channel

\* Dma::rate_for; <<0, 1>> never moves anything.
RateFor(c) ==
    CASE chan[c].treq = "permanent" -> <<1, 1>>
      [] chan[c].treq = "timer" -> IF timer[1] = 0 \/ timer[2] = 0 THEN <<0, 1>> ELSE timer
      [] OTHER -> <<1, Divisor>>

\* Mutant: what is left of the accumulator is thrown away.
PacedForgetful(c) ==
    LET acc == chan[c].pace + RateFor(c)[1]
    IN  [budget |-> acc \div RateFor(c)[2], pace |-> 0]

\* The elements the channel may move in this clock, and its pace_accum after it
Paced(c) ==
    LET acc == chan[c].pace + RateFor(c)[1]
    IN  [budget |-> acc \div RateFor(c)[2], pace |-> acc % RateFor(c)[2]]

\* k elements moved, with the clock that took them
Moved(c, k) ==
    [job EXCEPT ![c].moved = @ + k,
                ![c].clocks = IF chan[c].treq = "peripheral" THEN @ ELSE @ + 1]

\* Mutant: the chained channel starts after an error, too.
FailChaining(c, k, pace) ==
    LET ch == [chan EXCEPT ![c] = [@ EXCEPT !.busy = FALSE, !.remaining = 0, !.count = 0,
                                            !.error = TRUE, !.pace = pace]]
    IN  Fire(ch, {ch[c].chain} \ {c, N}, {}, Moved(c, k))

\* Dma::complete after a bus error on the element after k others
Fail(c, k, pace) ==
    /\ chan' = [chan EXCEPT ![c] = [@ EXCEPT !.busy = FALSE, !.remaining = 0, !.count = 0,
                                             !.error = TRUE, !.pace = pace]]
    /\ UNCHANGED intr
    /\ RefreshIrqs
    /\ job' = Moved(c, k)

\* Dma::complete after the last element
Finish(c, pace) ==
    LET ch == [chan EXCEPT ![c] = [@ EXCEPT !.busy = FALSE, !.remaining = 0, !.count = 0,
                                            !.pace = pace]]
    IN  Fire(ch, {ch[c].chain} \ {c, N}, {c}, Moved(c, chan[c].remaining))

\* Up to budget elements
Transfer(c, budget, pace) ==
    \/ \E k \in 0..(budget - 1) : k < chan[c].remaining /\ Fail(c, k, pace)
    \/ /\ budget >= chan[c].remaining
       /\ Finish(c, pace)
    \/ /\ budget < chan[c].remaining
       /\ chan' = [chan EXCEPT ![c].remaining = @ - budget, ![c].pace = pace]
       /\ job' = Moved(c, budget)
       /\ UNCHANGED <<intr, pend, dropped>>

Active(c) == chan[c].busy /\ chan[c].remaining > 0

\* Mutant: an idle channel ends the round.
FollowingBusy(c) == IF Active(c) THEN (c + 1) % N ELSE 0

Following(c) == (c + 1) % N

Skip == UNCHANGED <<chan, intr, pend, dropped, job>>

Serve(c) ==
    /\ turn = c
    /\ turn' = Following(c)
    /\ UNCHANGED <<timer, inte, intf, serving, seen>>
    /\ \/ ~Active(c) /\ Skip
       \/ /\ Active(c) /\ chan[c].treq = "peripheral"
          /\ Skip \/ Transfer(c, 1, chan[c].pace)   \* whether the source is ready
       \/ /\ Active(c) /\ chan[c].treq # "peripheral"
          /\ \/ RateFor(c)[1] = 0 /\ Skip
             \/ RateFor(c)[1] # 0 /\ Transfer(c, Paced(c).budget, Paced(c).pace)

-----------------------------------------------------------------------------
\* A watchdog reset with RESETS_WDSEL.DMA, which calls Dma::reset
ResetDma ==
    /\ turn = 0
    /\ chan' = [c \in Channels |-> Cleared]
    /\ timer' = <<0, 0>>
    /\ intr' = {}
    /\ inte' = [k \in Irqs |-> {}]
    /\ intf' = [k \in Irqs |-> {}]
    /\ RefreshIrqs
    /\ serving' = [k \in Irqs |-> FALSE]
    /\ seen' = [k \in Irqs |-> {}]
    /\ job' = [c \in Channels |-> NoJob]
    /\ UNCHANGED turn

\* Any other reset of the core leaves the DMA as it is.
ResetCore ==
    /\ turn = 0
    /\ pend' = [k \in Irqs |-> FALSE]
    /\ serving' = [k \in Irqs |-> FALSE]
    /\ seen' = [k \in Irqs |-> {}]
    /\ dropped' = Irqs
    /\ UNCHANGED <<chan, timer, intr, inte, intf, turn, job>>

\* NVIC_ISPR sets the pending bit of an interrupt, NVIC_ICPR clears it.
WriteNvic ==
    /\ turn = 0
    /\ \E k \in Irqs :
          \/ pend' = [pend EXCEPT ![k] = TRUE] /\ UNCHANGED dropped
          \/ pend' = [pend EXCEPT ![k] = FALSE] /\ dropped' = dropped \cup {k}
    /\ UNCHANGED <<chan, timer, intr, inte, intf, turn, serving, seen, job>>

RegisterWrite ==
    \/ \E c \in Channels, trig \in BOOLEAN :
          \/ WriteAddress(c, trig)
          \/ \E n \in 0..MaxCount : WriteCount(c, n, trig)
          \/ \E k \in Controls, keep \in BOOLEAN : WriteControl(c, k, keep, trig)
    \/ \E S \in SUBSET Channels : MultiTrigger(S) \/ Abort(S) \/ ClearIntr(S)
    \/ \E k \in Irqs, S \in SUBSET Channels : WriteEnable(k, S) \/ WriteForce(k, S)
    \/ \E r \in Rates : WriteTimer(r)

Handler == \E k \in Irqs : EnterHandler(k) \/ Acknowledge(k)

Clock == \E c \in Channels : Serve(c)

Next == RegisterWrite \/ Handler \/ WriteNvic \/ Clock \/ ResetDma \/ ResetCore

\* Simulator::step calls on_cycles after every step of the cores.
Spec == Init /\ [][Next]_vars /\ WF_vars(Clock)

-----------------------------------------------------------------------------
\* A channel raises its interrupt only after it has moved every element its
\* last trigger armed it with, whatever was written to its registers, chained
\* to it or aborted in the meantime, and never after an error.
CompletesInFull ==
    [][\A c \in intr' \ intr : job'[c].moved = job'[c].armed /\ ~chan'[c].error]_vars

\* After n clocks at the rate X/Y a channel has moved floor(n * X / Y)
\* elements: the accumulator neither loses nor invents a fraction.
PaceExact ==
    \A c \in Channels :
        Active(c) /\ chan[c].treq # "peripheral" /\ job[c].steady /\ RateFor(c)[1] # 0 =>
            job[c].moved = (job[c].clocks * RateFor(c)[1]) \div RateFor(c)[2]

\* The channels a chain leads to from c: those in every set that follows the chain
FollowsChain(T) == \A x \in T \ {N} : chan[x].chain \in T

ChainFrom(c) ==
    {x \in Channels : \A T \in SUBSET (0..N) : c \in T /\ FollowsChain(T) => x \in T}

\* What the clock starts was chained to by a channel that has just moved its
\* last element; an error ends the chain.
ChainsOnSuccess ==
    [][\A c \in Channels :
          turn' # turn /\ ~chan[c].busy /\ chan'[c].busy =>
              /\ c \in ChainFrom(turn)
              /\ Active(turn) /\ ~chan'[turn].error]_vars

\* An enabled interrupt cause is pending or being served, although entering
\* the handler clears the pending bit of a level-triggered line and more
\* channels may finish while the handler runs.  Only a reset of the core, which
\* INTR survives, or firmware that clears the bit itself breaks this, and only
\* until the next refresh.
NotForgotten ==
    \A k \in Irqs : Ints(k) # {} => pend[k] \/ serving[k] \/ k \in dropped

\* Every transfer comes to an end, unless its pacing timer stops or it waits
\* for a peripheral.
TransferEnds ==
    \A c \in Channels :
        Active(c) /\ chan[c].treq # "peripheral" ~>
            ~Active(c) \/ RateFor(c)[1] = 0 \/ chan[c].treq = "peripheral"
=============================================================================
