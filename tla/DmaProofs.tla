----------------------------- MODULE DmaProofs -----------------------------
(***************************************************************************)
(* What holds of Dma for any number of channels, any settings of theirs,   *)
(* any rates of the pacing timer and counts of any size.                   *)
(***************************************************************************)
EXTENDS Dma, Numbers, TLAPS

-----------------------------------------------------------------------------
(* The interrupts *)

LineInv ==
    /\ pend \in [Irqs -> BOOLEAN] /\ serving \in [Irqs -> BOOLEAN] /\ dropped \in SUBSET Irqs
    /\ NotForgotten

\* Whatever changed in the registers, refresh_irqs makes the lines follow.
LEMMA RefreshFollows ==
    ASSUME RefreshIrqs, serving' \in [Irqs -> BOOLEAN] PROVE LineInv'
BY DEF RefreshIrqs, LineInv, NotForgotten, Ints, Irqs

LEMMA FireFollows ==
    ASSUME LineInv, NEW ch, NEW S, NEW done, NEW jobs, Fire(ch, S, done, jobs),
           UNCHANGED <<inte, intf, serving>>
    PROVE  LineInv'
<1>1. CASE done \cup NullDone(ch, S) # {}
  BY <1>1, RefreshFollows DEF Fire, LineInv
<1>2. CASE done \cup NullDone(ch, S) = {}
  <2>1. intr' = intr
    BY <1>2 DEF Fire
  <2>2. UNCHANGED <<pend, dropped>>
    BY <1>2 DEF Fire
  <2>3. QED
    BY <2>1, <2>2 DEF LineInv, NotForgotten, Ints
<1>3. QED
  BY <1>1, <1>2

LEMMA TransferFollows ==
    ASSUME LineInv, NEW c, NEW budget, NEW pace, Transfer(c, budget, pace),
           UNCHANGED <<inte, intf, serving>>
    PROVE  LineInv'
<1>1. ASSUME NEW k, Fail(c, k, pace) PROVE LineInv'
  BY <1>1, RefreshFollows DEF Fail, LineInv
<1>2. CASE Finish(c, pace)
  BY <1>2, FireFollows DEF Finish
<1>3. CASE UNCHANGED <<intr, pend, dropped>>
  BY <1>3 DEF LineInv, NotForgotten, Ints
<1>4. QED
  BY <1>1, <1>2, <1>3 DEF Transfer

LEMMA LineInvKept == ASSUME LineInv, [Next]_vars PROVE LineInv'
<1>1. ASSUME NEW ch, NEW c, NEW trig, Write(ch, c, trig) PROVE LineInv'
  BY <1>1, FireFollows DEF Write
<1>2. ASSUME NEW S, MultiTrigger(S) PROVE LineInv'
  BY <1>2, FireFollows DEF MultiTrigger
<1>3. ASSUME NEW S, Abort(S) PROVE LineInv'
  BY <1>3 DEF Abort, irqs, LineInv, NotForgotten, Ints
<1>4. ASSUME NEW S, ClearIntr(S) PROVE LineInv'
  BY <1>4, RefreshFollows DEF ClearIntr, LineInv
<1>5. ASSUME NEW k, NEW S, WriteEnable(k, S) \/ WriteForce(k, S) PROVE LineInv'
  BY <1>5, RefreshFollows DEF WriteEnable, WriteForce, LineInv
<1>6. ASSUME NEW r, WriteTimer(r) PROVE LineInv'
  BY <1>6 DEF WriteTimer, irqs, LineInv, NotForgotten, Ints
<1>7. ASSUME NEW k \in Irqs, EnterHandler(k) PROVE LineInv'
  BY <1>7 DEF EnterHandler, LineInv, NotForgotten, Ints
<1>8. ASSUME NEW k \in Irqs, Acknowledge(k) PROVE LineInv'
  BY <1>8, RefreshFollows DEF Acknowledge, LineInv
<1>9. ASSUME NEW c, Serve(c) PROVE LineInv'
  <2>1. CASE Skip
    BY <1>9, <2>1 DEF Serve, Skip, LineInv, NotForgotten, Ints
  <2>2. ASSUME NEW budget, NEW pace, Transfer(c, budget, pace) PROVE LineInv'
    BY <1>9, <2>2, TransferFollows DEF Serve
  <2>3. QED
    BY <1>9, <2>1, <2>2 DEF Serve
<1>10. CASE ResetDma
  <2>1. serving' \in [Irqs -> BOOLEAN]
    BY <1>10 DEF ResetDma
  <2>2. QED
    BY <1>10, <2>1, RefreshFollows DEF ResetDma
<1>11. CASE ResetCore \/ WriteNvic
  BY <1>11 DEF ResetCore, WriteNvic, LineInv, NotForgotten, Ints, Irqs
<1>12. CASE UNCHANGED vars
  BY <1>12 DEF vars, irqs, LineInv, NotForgotten, Ints
<1>13. RegisterWrite => LineInv'
  BY <1>1, <1>2, <1>3, <1>4, <1>5, <1>6 DEF RegisterWrite, WriteAddress, WriteCount, WriteControl
<1>14. QED
  BY <1>7, <1>8, <1>9, <1>10, <1>11, <1>12, <1>13 DEF Next, Handler, Clock

\* A cause that is enabled never loses its interrupt, though entering the handler clears the
\* pending bit and channels may finish while it runs: whatever sets, clears or enables a
\* cause calls refresh_irqs after it.
THEOREM NotForgottenHolds == Spec => []NotForgotten
<1>1. Init => LineInv
  BY DEF Init, Idle, LineInv, NotForgotten, Ints, Irqs
<1>2. LineInv /\ [Next]_vars => LineInv'
  BY LineInvKept
<1>3. LineInv => NotForgotten
  BY DEF LineInv
<1>4. QED
  BY <1>1, <1>2, <1>3, PTL DEF Spec
-----------------------------------------------------------------------------
(* Counting elements *)

ChannelRecords ==
    [en : BOOLEAN, chain : 0..N, quiet : BOOLEAN, treq : Treqs, busy : BOOLEAN,
     error : BOOLEAN, count : Nat, remaining : Nat, pace : Nat]

Jobs == [armed : Nat, moved : Nat, clocks : Nat, steady : BOOLEAN]

\* The rate of a channel r when the pacing timer holds t
RateOf(r, t) ==
    CASE r.treq = "permanent" -> <<1, 1>>
      [] r.treq = "timer" -> IF t[1] = 0 \/ t[2] = 0 THEN <<0, 1>> ELSE t
      [] OTHER -> <<1, Divisor>>

Moving(r) == r.busy /\ r.remaining > 0

\* What has moved and the fraction in the accumulator make up the clocks times the rate.
OnPace(r, j, t) ==
    Moving(r) /\ r.treq # "peripheral" /\ j.steady /\ RateOf(r, t)[1] # 0 =>
        /\ r.pace < RateOf(r, t)[2]
        /\ j.moved * RateOf(r, t)[2] + r.pace = j.clocks * RateOf(r, t)[1]

\* What has moved and what is left make up what the trigger armed, too.
Sound(r, j, t) ==
    /\ r \in ChannelRecords /\ j \in Jobs
    /\ Moving(r) => j.moved + r.remaining = j.armed /\ ~r.error
    /\ OnPace(r, j, t)

CountInv ==
    /\ timer \in Nat \X Nat
    /\ chan \in [Channels -> ChannelRecords] /\ job \in [Channels -> Jobs]
    /\ \A c \in Channels : Sound(chan[c], job[c], timer)

LEMMA RateIsRatio ==
    ASSUME NEW r, NEW t \in Nat \X Nat
    PROVE  RateOf(r, t)[1] \in Nat /\ RateOf(r, t)[2] \in Nat \ {0}
BY PaceAssumption DEF RateOf

\* A channel that a trigger has just armed
LEMMA ArmedIsSound ==
    ASSUME NEW r \in ChannelRecords, NEW b \in BOOLEAN, NEW t \in Nat \X Nat, NEW q, NEW j,
           q = [r EXCEPT !.remaining = r.count, !.pace = 0, !.error = FALSE, !.busy = b],
           j = [NoJob EXCEPT !.armed = r.count]
    PROVE  Sound(q, j, t)
<1>1. q \in ChannelRecords /\ q.remaining = r.count /\ q.pace = 0 /\ ~q.error
  BY DEF ChannelRecords
<1>2. j \in Jobs /\ j.armed = r.count /\ j.moved = 0 /\ j.clocks = 0
  BY DEF Jobs, NoJob, ChannelRecords
<1>3. r.count \in Nat
  BY DEF ChannelRecords
<1>4. RateOf(q, t)[1] \in Nat /\ RateOf(q, t)[2] \in Nat \ {0}
  BY RateIsRatio
<1>5. OnPace(q, j, t)
  <2>1. 0 * RateOf(q, t)[2] = 0 /\ 0 * RateOf(q, t)[1] = 0
    BY <1>4
  <2>2. QED
    BY <1>1, <1>2, <1>4, <2>1 DEF OnPace
<1>6. QED
  BY <1>1, <1>2, <1>3, <1>5 DEF Sound

LEMMA FireCounts ==
    ASSUME NEW ch \in [Channels -> ChannelRecords], NEW jobs \in [Channels -> Jobs],
           timer \in Nat \X Nat, UNCHANGED timer,
           \A c \in Channels : Sound(ch[c], jobs[c], timer),
           NEW S, NEW done, Fire(ch, S, done, jobs)
    PROVE  CountInv'
<1>1. \A c \in Channels : Sound(chan'[c], job'[c], timer)
  <2>. SUFFICES ASSUME NEW c \in Channels PROVE Sound(chan'[c], job'[c], timer)
    OBVIOUS
  <2>1. CASE c \in Reached(ch, S)
    <3>. DEFINE busy == ch[c].count > 0 \/ c \in Overrun(ch, S)
    <3>1. chan'[c] = [ch[c] EXCEPT !.remaining = ch[c].count, !.pace = 0, !.error = FALSE,
                                   !.busy = busy]
      BY <2>1 DEF Fire, Triggered
    <3>2. job'[c] = [NoJob EXCEPT !.armed = ch[c].count]
      BY <2>1 DEF Fire
    <3>3. busy \in BOOLEAN /\ ch[c] \in ChannelRecords
      OBVIOUS
    <3>. HIDE DEF busy
    <3>4. QED
      BY <3>1, <3>2, <3>3, ArmedIsSound
  <2>2. CASE c \notin Reached(ch, S)
    BY <2>2 DEF Fire, Triggered
  <2>3. QED
    BY <2>1, <2>2
<1>2. /\ chan' = [c \in Channels |-> chan'[c]]
      /\ job' = [c \in Channels |-> job'[c]]
  BY DEF Fire, Triggered
<1>3. \A c \in Channels : chan'[c] \in ChannelRecords /\ job'[c] \in Jobs
  BY <1>1 DEF Sound
<1>4. QED
  BY <1>1, <1>2, <1>3 DEF CountInv

\* A channel that moves nothing owes nothing.
LEMMA StoppedIsSound ==
    ASSUME NEW r \in ChannelRecords, NEW j \in Jobs, NEW t, ~Moving(r)
    PROVE  Sound(r, j, t)
BY DEF Sound, OnPace

\* Settings of one channel were written: it owes what it did, or it stopped.
LEMMA WriteCounts ==
    ASSUME CountInv, NEW c \in Channels, NEW r \in ChannelRecords, NEW trig,
           Sound(r, job[c], timer), Write([chan EXCEPT ![c] = r], c, trig)
    PROVE  CountInv'
<1>. DEFINE ch == [chan EXCEPT ![c] = r]
<1>1. ch \in [Channels -> ChannelRecords] /\ \A x \in Channels : Sound(ch[x], job[x], timer)
  BY DEF CountInv
<1>2. UNCHANGED timer /\ Fire(ch, IF trig THEN {c} ELSE {}, {}, job)
  BY DEF Write
<1>. HIDE DEF ch
<1>3. QED
  BY <1>1, <1>2, FireCounts DEF CountInv

LEMMA RegisterCounts == ASSUME CountInv, RegisterWrite PROVE CountInv'
<1>1. ASSUME NEW c \in Channels, NEW trig, WriteAddress(c, trig) PROVE CountInv'
  <2>1. chan = [chan EXCEPT ![c] = chan[c]]
    BY DEF CountInv
  <2>2. Write([chan EXCEPT ![c] = chan[c]], c, trig)
    BY <1>1, <2>1 DEF WriteAddress
  <2>3. chan[c] \in ChannelRecords /\ Sound(chan[c], job[c], timer)
    BY DEF CountInv
  <2>4. QED
    BY <2>2, <2>3, WriteCounts
<1>2. ASSUME NEW c \in Channels, NEW trig, NEW n \in 0..MaxCount, WriteCount(c, n, trig)
      PROVE  CountInv'
  <2>. DEFINE r == [chan[c] EXCEPT !.count = n]
  <2>1. chan[c] \in ChannelRecords /\ Sound(chan[c], job[c], timer) /\ n \in Nat
    BY CountAssumption DEF CountInv
  <2>2. r \in ChannelRecords
    BY <2>1 DEF ChannelRecords
  <2>3. /\ r.busy = chan[c].busy /\ r.remaining = chan[c].remaining /\ r.error = chan[c].error
        /\ r.pace = chan[c].pace /\ r.treq = chan[c].treq
    BY <2>1 DEF ChannelRecords
  <2>4. [chan EXCEPT ![c].count = n] = [chan EXCEPT ![c] = r]
    BY DEF CountInv
  <2>5. Write([chan EXCEPT ![c] = r], c, trig)
    BY <1>2, <2>4 DEF WriteCount
  <2>. HIDE DEF r
  <2>6. RateOf(r, timer) = RateOf(chan[c], timer)
    BY <2>3 DEF RateOf
  <2>7. Sound(r, job[c], timer)
    BY <2>1, <2>2, <2>3, <2>6 DEF Sound, OnPace, Moving
  <2>8. QED
    BY <2>2, <2>5, <2>7, WriteCounts
<1>3. ASSUME NEW c \in Channels, NEW trig, NEW k \in Controls, NEW keep \in BOOLEAN,
             WriteControl(c, k, keep, trig)
      PROVE  CountInv'
  <2>. DEFINE r == [chan[c] EXCEPT !.en = k.en, !.chain = k.chain, !.quiet = k.quiet,
                                   !.treq = k.treq, !.busy = FALSE,
                                   !.error = chan[c].error /\ keep]
  <2>1. chan[c] \in ChannelRecords /\ job[c] \in Jobs
    BY DEF CountInv
  <2>2. r \in ChannelRecords /\ ~r.busy
    BY <2>1, ControlsAssumption DEF ChannelRecords
  <2>3. Write([chan EXCEPT ![c] = r], c, trig)
    BY <1>3, Zenon DEF WriteControl
  <2>. HIDE DEF r
  <2>4. Sound(r, job[c], timer)
    BY <2>1, <2>2, StoppedIsSound DEF Moving
  <2>5. QED
    BY <2>2, <2>3, <2>4, WriteCounts
<1>4. ASSUME NEW S, MultiTrigger(S) PROVE CountInv'
  BY <1>4, FireCounts DEF MultiTrigger, CountInv
<1>5. ASSUME NEW S, Abort(S) PROVE CountInv'
  <2>1. ASSUME NEW c \in Channels
        PROVE  /\ chan'[c] \in ChannelRecords
               /\ chan'[c] = chan[c] \/ ~chan'[c].busy
    <3>1. chan[c] \in ChannelRecords
      BY DEF CountInv
    <3>2. CASE c \in S
      <4>1. chan'[c] = [chan[c] EXCEPT !.remaining = 0, !.count = 0, !.busy = FALSE]
        BY <1>5, <3>2 DEF Abort
      <4>2. [chan[c] EXCEPT !.remaining = 0, !.count = 0, !.busy = FALSE] \in ChannelRecords
        BY <3>1 DEF ChannelRecords
      <4>3. ~[chan[c] EXCEPT !.remaining = 0, !.count = 0, !.busy = FALSE].busy
        BY <3>1 DEF ChannelRecords
      <4>4. QED
        BY <4>1, <4>2, <4>3
    <3>3. CASE c \notin S
      BY <1>5, <3>1, <3>3 DEF Abort
    <3>4. QED
      BY <3>2, <3>3
  <2>2. UNCHANGED <<timer, job>> /\ chan' = [c \in Channels |-> chan'[c]]
    BY <1>5 DEF Abort
  <2>3. \A c \in Channels : Sound(chan'[c], job[c], timer)
    BY <2>1, StoppedIsSound DEF CountInv, Moving
  <2>4. chan' \in [Channels -> ChannelRecords]
    BY <2>1, <2>2
  <2>5. QED
    BY <2>2, <2>3, <2>4 DEF CountInv
<1>6. ASSUME NEW r \in Rates, WriteTimer(r) PROVE CountInv'
  <2>1. timer' \in Nat \X Nat /\ UNCHANGED chan
    BY <1>6, PaceAssumption DEF WriteTimer
  <2>2. ASSUME NEW c \in Channels
        PROVE  job'[c] \in Jobs /\ Sound(chan[c], job'[c], timer')
    <3>1. chan[c] \in ChannelRecords /\ job[c] \in Jobs /\ Sound(chan[c], job[c], timer)
      BY DEF CountInv
    <3>2. job'[c] = [job[c] EXCEPT !.steady = @ /\ chan[c].treq # "timer"]
      BY <1>6 DEF WriteTimer
    <3>3. /\ job'[c] \in Jobs
          /\ job'[c].moved = job[c].moved /\ job'[c].armed = job[c].armed
          /\ job'[c].clocks = job[c].clocks
      BY <3>1, <3>2 DEF Jobs
    <3>4. job'[c].steady = (job[c].steady /\ chan[c].treq # "timer")
      BY <3>1, <3>2 DEF Jobs
    <3>5. chan[c].treq # "timer" => RateOf(chan[c], timer') = RateOf(chan[c], timer)
      BY DEF RateOf
    <3>6. OnPace(chan[c], job'[c], timer')
      <4>1. CASE chan[c].treq = "timer"
        BY <3>4, <4>1, Zenon DEF OnPace
      <4>2. CASE chan[c].treq # "timer"
        <5>1. job'[c].steady = job[c].steady
          BY <3>1, <3>4, <4>2 DEF Jobs
        <5>2. QED
          BY <3>1, <3>3, <3>5, <4>2, <5>1 DEF OnPace, Sound
      <4>3. QED
        BY <4>1, <4>2
    <3>7. QED
      BY <3>1, <3>3, <3>6 DEF Sound
  <2>3. job' = [c \in Channels |-> job'[c]]
    BY <1>6 DEF WriteTimer
  <2>4. job' \in [Channels -> Jobs]
    BY <2>2, <2>3
  <2>5. QED
    BY <2>1, <2>2, <2>4 DEF CountInv
<1>7. ASSUME NEW S, NEW k, ClearIntr(S) \/ WriteEnable(k, S) \/ WriteForce(k, S) PROVE CountInv'
  BY <1>7 DEF ClearIntr, WriteEnable, WriteForce, CountInv
<1>8. QED
  BY <1>1, <1>2, <1>3, <1>4, <1>5, <1>6, <1>7 DEF RegisterWrite
\* One more clock at the rate x / y: what leaves the accumulator and what stays in it
LEMMA ClockIsExact ==
    ASSUME NEW x \in Nat, NEW y \in Nat \ {0}, NEW p \in Nat
    PROVE  /\ (p + x) \div y \in Nat /\ (p + x) % y \in Nat
           /\ (p + x) % y < y
           /\ ((p + x) \div y) * y + ((p + x) % y) = p + x
<1>. DEFINE a == p + x
<1>1. a \in Nat
  OBVIOUS
<1>. HIDE DEF a
<1>2. a % y = a - (a \div y) * y /\ a \div y \in Int /\ a % y \in 0..(y - 1)
  BY <1>1, Quotient
<1>3. a \div y >= 0
  BY <1>1, <1>2
<1>4. a \div y \in Nat /\ a % y \in Nat /\ a % y < y /\ (a \div y) * y + (a % y) = a
  <2>. DEFINE q == a \div y
              r == a % y
  <2>1. r = a - q * y /\ q \in Int /\ r \in 0..(y - 1) /\ q >= 0
    BY <1>2, <1>3
  <2>. HIDE DEF q, r
  <2>2. q \in Nat /\ r \in Nat /\ r < y /\ q * y + r = a
    BY <1>1, <2>1
  <2>3. QED
    BY <2>2 DEF q, r
<1>5. QED
  BY <1>4 DEF a

\* The pace stays exact when the channel moves what the accumulator gives.
LEMMA PaceKept ==
    ASSUME NEW m \in Nat, NEW n \in Nat, NEW p \in Nat, NEW q \in Nat, NEW b \in Nat,
           NEW x \in Nat, NEW y \in Nat, m * y + p = n * x, b * y + q = p + x
    PROVE  (m + b) * y + q = (n + 1) * x
<1>1. (m + b) * y = m * y + b * y /\ (n + 1) * x = n * x + x
  OBVIOUS
<1>2. m * y \in Nat /\ b * y \in Nat /\ n * x \in Nat
  OBVIOUS
<1>. DEFINE my == m * y
            by == b * y
            nx == n * x
<1>3. my + p = nx /\ by + q = p + x /\ my \in Nat /\ by \in Nat /\ nx \in Nat
  BY <1>2
<1>4. my + by + q = nx + x
  <2>. HIDE DEF my, by, nx
  <2>. QED  BY <1>3
<1>5. QED
  BY <1>1, <1>4

\* Exactly what one clock gives: an element on a DREQ, the accumulator's share otherwise
Share(c, budget, pace) ==
    IF chan[c].treq = "peripheral" THEN TRUE
    ELSE /\ pace < RateOf(chan[c], timer)[2]
         /\ budget * RateOf(chan[c], timer)[2] + pace
              = chan[c].pace + RateOf(chan[c], timer)[1]

LEMMA MovedIsJob ==
    ASSUME CountInv, NEW c \in Channels, NEW k \in Nat
    PROVE  /\ Moved(c, k) \in [Channels -> Jobs]
           /\ \A x \in Channels \ {c} : Moved(c, k)[x] = job[x]
           /\ Moved(c, k)[c].moved = job[c].moved + k
           /\ Moved(c, k)[c].armed = job[c].armed
           /\ Moved(c, k)[c].steady = job[c].steady
           /\ chan[c].treq # "peripheral" => Moved(c, k)[c].clocks = job[c].clocks + 1
<1>. DEFINE m == job[c].moved + k
            n == IF chan[c].treq = "peripheral" THEN job[c].clocks ELSE job[c].clocks + 1
            j == [job[c] EXCEPT !.moved = m, !.clocks = n]
<1>1. job \in [Channels -> Jobs] /\ job[c] \in Jobs
  BY DEF CountInv
<1>2. m \in Nat /\ n \in Nat
  BY <1>1 DEF Jobs
<1>3. Moved(c, k) = [job EXCEPT ![c] = j]
  BY <1>1 DEF Moved
<1>4. m = job[c].moved + k /\ (chan[c].treq # "peripheral" => n = job[c].clocks + 1)
  OBVIOUS
<1>. HIDE DEF m, n
<1>5. j \in Jobs /\ j.moved = m /\ j.clocks = n /\ j.armed = job[c].armed /\ j.steady = job[c].steady
  BY <1>1, <1>2 DEF Jobs
<1>. HIDE DEF j
<1>6. /\ [job EXCEPT ![c] = j] \in [Channels -> Jobs]
      /\ \A x \in Channels \ {c} : [job EXCEPT ![c] = j][x] = job[x]
      /\ [job EXCEPT ![c] = j][c] = j
  BY <1>1, <1>5
<1>7. QED
  BY <1>3, <1>4, <1>5, <1>6

LEMMA TransferCounts ==
    ASSUME CountInv, NEW c \in Channels, Active(c), NEW budget \in Nat, NEW pace \in Nat,
           Share(c, budget, pace), Transfer(c, budget, pace), UNCHANGED timer
    PROVE  CountInv'
<1>. DEFINE r == chan[c]
<1>1. /\ chan \in [Channels -> ChannelRecords] /\ job \in [Channels -> Jobs]
      /\ timer \in Nat \X Nat
      /\ \A x \in Channels : Sound(chan[x], job[x], timer)
  BY DEF CountInv
<1>2. r \in ChannelRecords /\ job[c] \in Jobs /\ Moving(r) /\ r.remaining \in Nat
  BY <1>1 DEF Active, Moving, ChannelRecords
<1>3. ASSUME NEW k \in 0..(budget - 1), Fail(c, k, pace) PROVE CountInv'
  <2>. DEFINE q == [r EXCEPT !.busy = FALSE, !.remaining = 0, !.count = 0, !.error = TRUE,
                             !.pace = pace]
  <2>1. q \in ChannelRecords /\ ~q.busy
    BY <1>2 DEF ChannelRecords
  <2>2. chan' = [chan EXCEPT ![c] = q] /\ job' = Moved(c, k)
    BY <1>3 DEF Fail
  <2>. HIDE DEF q
  <2>3. /\ job' \in [Channels -> Jobs]
        /\ \A x \in Channels \ {c} : job'[x] = job[x]
    <3>1. k \in Nat
      OBVIOUS
    <3>2. QED
      BY <2>2, <3>1, MovedIsJob
  <2>4. Sound(chan'[c], job'[c], timer)
    BY <1>1, <2>1, <2>2, <2>3, StoppedIsSound DEF Moving
  <2>5. \A x \in Channels \ {c} : Sound(chan'[x], job'[x], timer)
    BY <1>1, <2>2, <2>3
  <2>6. QED
    BY <1>1, <2>1, <2>2, <2>3, <2>4, <2>5 DEF CountInv
<1>4. CASE Finish(c, pace)
  <2>. DEFINE q == [r EXCEPT !.busy = FALSE, !.remaining = 0, !.count = 0, !.pace = pace]
              ch == [chan EXCEPT ![c] = q]
              js == Moved(c, r.remaining)
  <2>1. q \in ChannelRecords /\ ~q.busy
    BY <1>2 DEF ChannelRecords
  <2>2. Fire(ch, {ch[c].chain} \ {c, N}, {c}, js)
    BY <1>4 DEF Finish
  <2>3. js \in [Channels -> Jobs] /\ \A x \in Channels \ {c} : js[x] = job[x]
    BY <1>2, MovedIsJob
  <2>. HIDE DEF q, js
  <2>4. ch \in [Channels -> ChannelRecords]
    BY <1>1, <2>1
  <2>5. ASSUME NEW x \in Channels PROVE Sound(ch[x], js[x], timer)
    <3>1. CASE x = c
      BY <1>1, <2>1, <2>3, <3>1, StoppedIsSound DEF Moving
    <3>2. CASE x # c
      BY <1>1, <2>3, <3>2
    <3>3. QED
      BY <3>1, <3>2
  <2>. HIDE DEF ch
  <2>6. QED
    BY <1>1, <2>2, <2>3, <2>4, <2>5, FireCounts
<1>5. ASSUME budget < r.remaining,
             chan' = [chan EXCEPT ![c].remaining = @ - budget, ![c].pace = pace],
             job' = Moved(c, budget)
      PROVE  CountInv'
  <2>. DEFINE left == r.remaining - budget
              q == [r EXCEPT !.remaining = left, !.pace = pace]
  <2>1. left \in Nat /\ left = r.remaining - budget
    BY <1>2, <1>5
  <2>2. chan' = [chan EXCEPT ![c] = q]
    BY <1>1, <1>5
  <2>. HIDE DEF left
  <2>3. /\ q \in ChannelRecords
        /\ q.busy = r.busy /\ q.error = r.error /\ q.treq = r.treq
        /\ q.pace = pace /\ q.remaining = left
    BY <1>2, <2>1 DEF ChannelRecords
  <2>. HIDE DEF q
  <2>4. chan' \in [Channels -> ChannelRecords] /\ chan'[c] = q
    BY <1>1, <2>3, <2>2
  <2>5. /\ job' \in [Channels -> Jobs]
        /\ \A x \in Channels \ {c} : job'[x] = job[x]
        /\ job'[c].moved = job[c].moved + budget
        /\ job'[c].armed = job[c].armed
        /\ job'[c].steady = job[c].steady
        /\ chan[c].treq # "peripheral" => job'[c].clocks = job[c].clocks + 1
    BY <1>5, MovedIsJob
  <2>6. RateOf(q, timer) = RateOf(r, timer)
    BY <2>3 DEF RateOf
  <2>7. job[c].moved \in Nat /\ job[c].clocks \in Nat /\ job[c].armed \in Nat /\ r.pace \in Nat
    BY <1>2 DEF Jobs, ChannelRecords
  <2>8. OnPace(q, job'[c], timer)
    <3>. DEFINE x == RateOf(r, timer)[1]
                y == RateOf(r, timer)[2]
    <3>. SUFFICES ASSUME r.treq # "peripheral", job[c].steady, x # 0
                  PROVE  pace < y /\ job'[c].moved * y + pace = job'[c].clocks * x
      BY <2>3, <2>5, <2>6 DEF OnPace
    <3>1. x \in Nat /\ y \in Nat \ {0}
      BY <1>1, RateIsRatio
    <3>2. pace < y /\ budget * y + pace = r.pace + x
      BY DEF Share
    <3>3. job[c].moved * y + r.pace = job[c].clocks * x
      BY <1>1, <1>2 DEF Sound, OnPace
    <3>4. job'[c].moved = job[c].moved + budget /\ job'[c].clocks = job[c].clocks + 1
      BY <2>5
    <3>. HIDE DEF x, y
    <3>5. (job[c].moved + budget) * y + pace = (job[c].clocks + 1) * x
      BY <2>7, <3>1, <3>2, <3>3, PaceKept
    <3>6. QED
      BY <3>2, <3>4, <3>5
  <2>9. Sound(q, job'[c], timer)
    <3>1. job[c].moved + r.remaining = job[c].armed /\ ~r.error
      BY <1>1, <1>2 DEF Sound
    <3>2. job'[c].moved + q.remaining = job'[c].armed /\ ~q.error
      BY <1>2, <2>1, <2>3, <2>5, <2>7, <3>1
    <3>3. QED
      BY <2>3, <2>5, <2>8, <3>2 DEF Sound
  <2>10. \A x \in Channels \ {c} : Sound(chan'[x], job'[x], timer)
    BY <1>1, <2>2, <2>5
  <2>11. QED
    BY <1>1, <2>4, <2>5, <2>9, <2>10 DEF CountInv
<1>6. QED
  BY <1>3, <1>4, <1>5 DEF Transfer
LEMMA ServeCounts == ASSUME CountInv, NEW c \in Channels, Serve(c) PROVE CountInv'
<1>1. /\ chan[c] \in ChannelRecords /\ chan[c].pace \in Nat
      /\ timer \in Nat \X Nat /\ UNCHANGED timer
  BY DEF CountInv, ChannelRecords, Serve
<1>2. CASE Skip
  BY <1>1, <1>2 DEF Skip, CountInv
<1>3. CASE Active(c) /\ chan[c].treq = "peripheral" /\ Transfer(c, 1, chan[c].pace)
  <2>1. Share(c, 1, chan[c].pace)
    BY <1>3 DEF Share
  <2>2. QED
    BY <1>1, <1>3, <2>1, TransferCounts
<1>4. CASE /\ Active(c) /\ chan[c].treq # "peripheral"
           /\ Transfer(c, Paced(c).budget, Paced(c).pace)
  <2>. DEFINE x == RateOf(chan[c], timer)[1]
              y == RateOf(chan[c], timer)[2]
              p == chan[c].pace
  <2>1. x \in Nat /\ y \in Nat \ {0} /\ p \in Nat
    BY <1>1, RateIsRatio
  <2>2. RateFor(c) = RateOf(chan[c], timer)
    BY DEF RateFor, RateOf
  <2>3. Paced(c).budget = (p + x) \div y /\ Paced(c).pace = (p + x) % y
    BY <2>2 DEF Paced
  <2>. HIDE DEF x, y, p
  <2>4. /\ Paced(c).budget \in Nat /\ Paced(c).pace \in Nat
        /\ Paced(c).pace < y /\ Paced(c).budget * y + Paced(c).pace = p + x
    <3>1. /\ (p + x) \div y \in Nat /\ (p + x) % y \in Nat /\ (p + x) % y < y
          /\ ((p + x) \div y) * y + ((p + x) % y) = p + x
      BY <2>1, ClockIsExact, Zenon
    <3>2. QED
      BY <2>3, <3>1, Zenon
  <2>5. Share(c, Paced(c).budget, Paced(c).pace)
    BY <2>4 DEF Share, x, y, p
  <2>6. QED
    BY <1>1, <1>4, <2>4, <2>5, TransferCounts
<1>5. QED
  BY <1>2, <1>3, <1>4 DEF Serve

LEMMA NothingCounts ==
    ASSUME chan' = [c \in Channels |-> Cleared], job' = [c \in Channels |-> NoJob],
           timer' = <<0, 0>>
    PROVE  CountInv'
<1>1. Cleared \in ChannelRecords /\ NoJob \in Jobs /\ ~Cleared.busy /\ <<0, 0>> \in Nat \X Nat
  BY ChannelsAssumption DEF Cleared, NoJob, ChannelRecords, Jobs, Treqs
<1>2. Sound(Cleared, NoJob, timer')
  BY <1>1, StoppedIsSound DEF Moving
<1>3. QED
  BY <1>1, <1>2 DEF CountInv

LEMMA CountInvStarts == Init => CountInv
<1>1. ASSUME Init PROVE CountInv
  <2>1. /\ chan = [c \in Channels |-> Cleared] /\ job = [c \in Channels |-> NoJob]
        /\ timer = <<0, 0>>
    BY <1>1 DEF Init, Idle
  <2>2. Cleared \in ChannelRecords /\ NoJob \in Jobs /\ ~Cleared.busy /\ <<0, 0>> \in Nat \X Nat
    BY ChannelsAssumption DEF Cleared, NoJob, ChannelRecords, Jobs, Treqs
  <2>3. Sound(Cleared, NoJob, timer)
    BY <2>2, StoppedIsSound DEF Moving
  <2>4. QED
    BY <2>1, <2>2, <2>3 DEF CountInv
<1>2. QED
  BY <1>1

LEMMA CountInvKept == ASSUME CountInv, [Next]_vars PROVE CountInv'
<1>1. CASE RegisterWrite
  BY <1>1, RegisterCounts
<1>2. CASE Handler
  BY <1>2 DEF Handler, EnterHandler, Acknowledge, CountInv
<1>3. CASE Clock
  BY <1>3, ServeCounts DEF Clock
<1>4. CASE ResetDma
  BY <1>4, NothingCounts DEF ResetDma
<1>5. CASE ResetCore \/ WriteNvic \/ UNCHANGED vars
  BY <1>5 DEF ResetCore, WriteNvic, vars, CountInv
<1>6. QED
  BY <1>1, <1>2, <1>3, <1>4, <1>5 DEF Next

\* The accumulator is exact for every rate: after n clocks a channel has moved
\* floor(n * X / Y) elements, by on_cycles' arithmetic on pace_accum.
THEOREM PaceExactHolds == Spec => []PaceExact
<1>1. Init => CountInv
  BY CountInvStarts
<1>2. CountInv /\ [Next]_vars => CountInv'
  BY CountInvKept
<1>3. CountInv => PaceExact
  <2>. SUFFICES ASSUME CountInv, NEW c \in Channels,
                       Active(c), chan[c].treq # "peripheral", job[c].steady,
                       RateFor(c)[1] # 0
                PROVE  job[c].moved = (job[c].clocks * RateFor(c)[1]) \div RateFor(c)[2]
    BY DEF PaceExact
  <2>. DEFINE x == RateOf(chan[c], timer)[1]
              y == RateOf(chan[c], timer)[2]
              p == chan[c].pace
  <2>1. RateFor(c) = RateOf(chan[c], timer)
    BY DEF RateFor, RateOf
  <2>2. p < y /\ job[c].moved * y + p = job[c].clocks * x
    BY <2>1 DEF CountInv, Sound, OnPace, Moving, Active
  <2>3. job[c].moved \in Nat /\ job[c].clocks \in Nat /\ p \in Nat
    BY DEF CountInv, ChannelRecords, Jobs
  <2>4. x \in Nat /\ y \in Nat \ {0}
    BY RateIsRatio DEF CountInv
  <2>. HIDE DEF x, y, p
  <2>5. p \in 0..(y - 1)
    BY <2>2, <2>3, <2>4
  <2>6. (job[c].moved * y + p) \div y = job[c].moved
    <3>1. job[c].moved \in Int
      BY <2>3
    <3>2. QED
      BY <2>4, <2>5, <3>1, QuotientIs, Zenon
  <2>7. QED
    BY <2>1, <2>2, <2>6 DEF x, y
<1>4. QED
  BY <1>1, <1>2, <1>3, PTL DEF Spec

\* Null transfers complete whatever they were armed with, which is nothing.
LEMMA NullCompletes ==
    ASSUME CountInv, NEW ch, NEW S, NEW done, NEW jobs, Fire(ch, S, done, jobs),
           NEW c \in Channels, c \in Reached(ch, S), ch[c].count = 0,
           ch[c] \in ChannelRecords
    PROVE  job'[c].moved = job'[c].armed /\ ~chan'[c].error
<1>1. job'[c] = [NoJob EXCEPT !.armed = ch[c].count]
  BY DEF Fire
<1>2. PICK b \in BOOLEAN :
         chan'[c] = [ch[c] EXCEPT !.remaining = ch[c].count, !.pace = 0, !.error = FALSE,
                                  !.busy = b]
  <2>. DEFINE b == ch[c].count > 0 \/ c \in Overrun(ch, S)
  <2>1. b \in BOOLEAN
    OBVIOUS
  <2>2. chan'[c] = [ch[c] EXCEPT !.remaining = ch[c].count, !.pace = 0, !.error = FALSE,
                                 !.busy = b]
    BY DEF Fire, Triggered
  <2>. HIDE DEF b
  <2>3. QED
    BY <2>1, <2>2
<1>3. QED
  BY <1>1, <1>2 DEF NoJob, ChannelRecords

LEMMA ReachedAreChannels ==
    ASSUME NEW ch, NEW S PROVE Reached(ch, S) \subseteq Channels
BY DEF Reached, Path

LEMMA TriggersComplete ==
    ASSUME CountInv, NEW ch \in [Channels -> ChannelRecords], NEW S, NEW jobs,
           Fire(ch, S, {}, jobs), NEW c \in intr' \ intr
    PROVE  job'[c].moved = job'[c].armed /\ ~chan'[c].error
<1>1. c \in NullDone(ch, S)
  BY DEF Fire
<1>2. c \in Reached(ch, S) /\ ch[c].count = 0
  BY <1>1 DEF NullDone, Null
<1>3. QED
  BY <1>2, ReachedAreChannels, NullCompletes

LEMMA ServeCompletes ==
    ASSUME CountInv, NEW x \in Channels, Active(x), NEW budget, NEW pace \in Nat,
           Transfer(x, budget, pace), NEW c \in intr' \ intr
    PROVE  job'[c].moved = job'[c].armed /\ ~chan'[c].error
<1>. DEFINE r == chan[x]
            q == [r EXCEPT !.busy = FALSE, !.remaining = 0, !.count = 0, !.pace = pace]
            ch == [chan EXCEPT ![x] = q]
            js == Moved(x, r.remaining)
            S == {ch[x].chain} \ {x, N}
<1>1. Finish(x, pace)
  BY DEF Transfer, Fail
<1>2. Fire(ch, S, {x}, js)
  BY <1>1 DEF Finish
<1>3. r \in ChannelRecords /\ r.remaining \in Nat /\ job[x] \in Jobs /\ Sound(r, job[x], timer)
  BY DEF CountInv, ChannelRecords
<1>4. q \in ChannelRecords /\ q.error = r.error
  BY <1>3 DEF ChannelRecords
<1>5. js[x].moved = job[x].moved + r.remaining /\ js[x].armed = job[x].armed
  BY <1>3, MovedIsJob
<1>6. job[x].moved + r.remaining = job[x].armed /\ ~r.error
  BY <1>3 DEF Sound, Active, Moving
<1>. HIDE DEF q, js, S
<1>7. ch \in [Channels -> ChannelRecords] /\ ch[x] = q
  BY <1>4 DEF CountInv
<1>. HIDE DEF ch
<1>8. CASE c \in Reached(ch, S) /\ c \in NullDone(ch, S)
  <2>1. ch[c].count = 0
    BY <1>8 DEF NullDone, Null
  <2>2. QED
    BY <1>2, <1>7, <1>8, <2>1, ReachedAreChannels, NullCompletes
<1>9. CASE c = x /\ c \in Reached(ch, S)
  <2>1. ch[c].count = 0
    <3>1. q.count = 0
      BY <1>3 DEF q, ChannelRecords
    <3>2. QED
      BY <1>7, <1>9, <3>1
  <2>2. QED
    BY <1>2, <1>7, <1>9, <2>1, NullCompletes
<1>10. CASE c = x /\ c \notin Reached(ch, S)
  <2>1. job'[c] = js[x] /\ chan'[c] = q
    BY <1>2, <1>7, <1>10 DEF Fire, Triggered
  <2>2. QED
    BY <1>4, <1>5, <1>6, <2>1
<1>11. c \in {x} \cup NullDone(ch, S)
  BY <1>2 DEF Fire
<1>12. NullDone(ch, S) \subseteq Reached(ch, S)
  BY DEF NullDone
<1>13. QED
  BY <1>8, <1>9, <1>10, <1>11, <1>12

\* The completion interrupt never lies: a channel raises it with every element moved that its
\* last trigger armed, whatever firmware wrote in the meantime, and never after an error.
THEOREM CompletesInFullHolds == Spec => CompletesInFull
<1>. DEFINE Full == \A c \in intr' \ intr : job'[c].moved = job'[c].armed /\ ~chan'[c].error
<1>1. Init => CountInv
  BY CountInvStarts
<1>2. CountInv /\ [Next]_vars => CountInv'
  BY CountInvKept
<1>3. CountInv /\ [Next]_vars => [Full]_vars
  <2>. SUFFICES ASSUME CountInv, [Next]_vars PROVE Full \/ UNCHANGED vars
    OBVIOUS
  <2>1. ASSUME NEW ch \in [Channels -> ChannelRecords], NEW c, NEW trig, Write(ch, c, trig)
        PROVE  Full
    BY <2>1, TriggersComplete DEF Write
  <2>2. ASSUME NEW S, MultiTrigger(S) PROVE Full
    BY <2>2, TriggersComplete DEF MultiTrigger, CountInv
  <2>3. ASSUME NEW c \in Channels, NEW trig,
               \/ WriteAddress(c, trig)
               \/ \E n \in 0..MaxCount : WriteCount(c, n, trig)
               \/ \E k \in Controls, keep \in BOOLEAN : WriteControl(c, k, keep, trig)
        PROVE  Full
    <3>1. chan \in [Channels -> ChannelRecords] /\ chan[c] \in ChannelRecords
      BY DEF CountInv
    <3>2. CASE WriteAddress(c, trig)
      BY <2>1, <3>1, <3>2 DEF WriteAddress
    <3>3. ASSUME NEW n \in 0..MaxCount, WriteCount(c, n, trig) PROVE Full
      <4>1. [chan[c] EXCEPT !.count = n] \in ChannelRecords
        BY <3>1, CountAssumption DEF ChannelRecords
      <4>2. [chan EXCEPT ![c].count = n] \in [Channels -> ChannelRecords]
        BY <3>1, <4>1
      <4>3. QED
        BY <2>1, <3>3, <4>2 DEF WriteCount
    <3>4. ASSUME NEW k \in Controls, NEW keep \in BOOLEAN, WriteControl(c, k, keep, trig)
          PROVE  Full
      <4>. DEFINE r == [chan[c] EXCEPT !.en = k.en, !.chain = k.chain, !.quiet = k.quiet,
                                       !.treq = k.treq, !.busy = FALSE,
                                       !.error = chan[c].error /\ keep]
      <4>1. r \in ChannelRecords
        BY <3>1, ControlsAssumption DEF ChannelRecords
      <4>2. Write([chan EXCEPT ![c] = r], c, trig)
        BY <3>4, Zenon DEF WriteControl
      <4>. HIDE DEF r
      <4>3. [chan EXCEPT ![c] = r] \in [Channels -> ChannelRecords]
        BY <3>1, <4>1
      <4>4. QED
        BY <2>1, <4>2, <4>3
    <3>5. QED
      BY <2>3, <3>2, <3>3, <3>4
  <2>4. ASSUME NEW c \in Channels, Serve(c) PROVE Full
    <3>1. CASE UNCHANGED intr
      BY <3>1
    <3>2. CASE Active(c) /\ Transfer(c, 1, chan[c].pace)
      <4>1. chan[c].pace \in Nat
        BY DEF CountInv, ChannelRecords
      <4>2. QED
        BY <3>2, <4>1, ServeCompletes
    <3>3. CASE Active(c) /\ Transfer(c, Paced(c).budget, Paced(c).pace) /\ RateFor(c)[1] # 0
      <4>1. Paced(c).pace \in Nat
        <5>1. chan[c].pace \in Nat /\ timer \in Nat \X Nat
          BY DEF CountInv, ChannelRecords
        <5>2. RateFor(c)[1] \in Nat /\ RateFor(c)[2] \in Nat \ {0}
          BY <5>1, RateIsRatio DEF RateFor, RateOf
        <5>3. QED
          BY <5>1, <5>2, ClockIsExact, Zenon DEF Paced
      <4>2. QED
        BY <3>3, <4>1, ServeCompletes
    <3>4. QED
      BY <2>4, <3>1, <3>2, <3>3 DEF Serve, Skip
  <2>5. (Handler \/ WriteNvic \/ ResetDma \/ ResetCore) => Full
    BY DEF Handler, EnterHandler, Acknowledge, WriteNvic, ResetDma, ResetCore
  <2>6. ASSUME NEW S, Abort(S) \/ ClearIntr(S) PROVE Full
    BY <2>6 DEF Abort, ClearIntr
  <2>7. ASSUME NEW S, NEW k, WriteEnable(k, S) \/ WriteForce(k, S) PROVE Full
    BY <2>7 DEF WriteEnable, WriteForce
  <2>8. ASSUME NEW r, WriteTimer(r) PROVE Full
    BY <2>8 DEF WriteTimer
  <2>. HIDE DEF Full
  <2>9. RegisterWrite => Full
    BY <2>2, <2>3, <2>6, <2>7, <2>8 DEF RegisterWrite
  <2>10. Clock => Full
    BY <2>4 DEF Clock
  <2>11. QED
    BY <2>5, <2>9, <2>10 DEF Next
<1>4. QED
  <2>. HIDE DEF Full
  <2>1. Spec => [][Full]_vars
    BY <1>1, <1>2, <1>3, PTL DEF Spec
  <2>2. QED
    BY <2>1, PTL DEF CompletesInFull, Full

-----------------------------------------------------------------------------
(* Chains *)

\* Where the walk of a trigger goes from x
NextNull(ch, x) == IF x # N /\ Null(ch, x) /\ ch[x].chain # x THEN ch[x].chain ELSE N

LEMMA NextNullType ==
    ASSUME NEW ch \in [Channels -> ChannelRecords], NEW x \in 0..N
    PROVE  NextNull(ch, x) \in 0..N
<1>1. x # N => x \in Channels
  BY ChannelsAssumption DEF Channels
<1>2. x # N => ch[x].chain \in 0..N
  BY <1>1 DEF ChannelRecords
<1>3. N \in 0..N
  BY ChannelsAssumption
<1>4. QED
  BY <1>2, <1>3 DEF NextNull

LEMMA WalkGoesOn ==
    ASSUME NEW ch \in [Channels -> ChannelRecords], NEW c \in 0..N
    PROVE  /\ Walk(ch, c)[0] = c
           /\ \A i \in 1..(N + 1) : Walk(ch, c)[i] = NextNull(ch, Walk(ch, c)[i - 1])
<1>. DEFINE n == N + 1
            F == [i \in 1..n |-> [x \in 0..N |-> NextNull(ch, x)]]
            Is(f) == f = [i \in 0..n |->
                             IF i = 0 THEN c
                             ELSE IF f[i - 1] # N /\ Null(ch, f[i - 1])
                                     /\ ch[f[i - 1]].chain # f[i - 1]
                                  THEN ch[f[i - 1]].chain ELSE N]
<1>1. n \in Nat /\ 0 \in 0..n
  BY ChannelsAssumption
<1>2. F \in [1..n -> [0..N -> 0..N]]
  BY NextNullType
<1>3. PICK g \in [0..n -> 0..N] : Steps(g, c, F, n)
  <2>. HIDE DEF n, F
  <2>. QED  BY <1>1, <1>2, Recursion
<1>4. g[0] = c /\ \A i \in 1..n : g[i] = NextNull(ch, g[i - 1])
  <2>1. ASSUME NEW i \in 1..n PROVE g[i - 1] \in 0..N
    <3>. HIDE DEF n
    <3>. QED  BY <1>1
  <2>2. QED
    BY <1>3, <2>1 DEF Steps
<1>5. Is(g)
  <2>1. ASSUME NEW i \in 0..n
        PROVE  g[i] = IF i = 0 THEN c
                      ELSE IF g[i - 1] # N /\ Null(ch, g[i - 1]) /\ ch[g[i - 1]].chain # g[i - 1]
                           THEN ch[g[i - 1]].chain ELSE N
    <3>1. i = 0 \/ i \in 1..n
      BY <1>1
    <3>2. QED
      BY <1>4, <3>1 DEF NextNull
  <2>. HIDE DEF n
  <2>2. QED
    BY <2>1
<1>6. Walk(ch, c) = CHOOSE f : Is(f)
  BY DEF Walk
<1>7. Is(Walk(ch, c))
  <2>. HIDE DEF Is
  <2>. QED  BY <1>5, <1>6
<1>8. QED
  <2>1. \A i \in 1..n : i \in 0..n /\ i # 0
    BY <1>1
  <2>2. QED
    BY <1>1, <1>7, <2>1 DEF NextNull

\* A trigger reaches only channels the chain leads to.
LEMMA PathFollowsChain ==
    ASSUME NEW ch \in [Channels -> ChannelRecords], NEW c \in 0..N, NEW T, c \in T,
           \A x \in T \ {N} : ch[x].chain \in T
    PROVE  Path(ch, c) \subseteq T
<1>. DEFINE w == Walk(ch, c)
            I == {i \in Nat : i <= N + 1 => w[i] \in T \cup {N}}
<1>1. 0 \in I
  BY WalkGoesOn
<1>2. ASSUME NEW i \in I PROVE i + 1 \in I
  <2>. SUFFICES ASSUME i + 1 <= N + 1 PROVE w[i + 1] \in T \cup {N}
    OBVIOUS
  <2>1. i + 1 \in 1..(N + 1) /\ (i + 1) - 1 = i /\ i <= N + 1
    BY ChannelsAssumption
  <2>2. w[i + 1] = NextNull(ch, w[i])
    <3>1. w[i + 1] = NextNull(ch, w[(i + 1) - 1])
      BY <2>1, WalkGoesOn
    <3>2. QED
      BY <2>1, <3>1
  <2>3. w[i] \in T \cup {N}
    BY <2>1
  <2>. HIDE DEF w
  <2>4. QED
    BY <2>2, <2>3 DEF NextNull
<1>3. I = Nat
  <2>1. I \in SUBSET Nat
    OBVIOUS
  <2>. HIDE DEF I
  <2>2. QED
    BY <1>1, <1>2, <2>1, Induction
<1>4. \A i \in 0..(N + 1) : w[i] \in T \cup {N}
  <2>1. \A i \in 0..(N + 1) : i \in I /\ i <= N + 1
    <3>. HIDE DEF I
    <3>. QED  BY <1>3, ChannelsAssumption
  <2>. HIDE DEF w
  <2>2. QED
    BY <2>1
<1>5. N \notin Channels
  BY ChannelsAssumption DEF Channels
<1>6. QED
  BY <1>4, <1>5 DEF Path

LEMMA FinishChains ==
    ASSUME CountInv, NEW x \in Channels, Active(x), NEW pace \in Nat, Finish(x, pace)
    PROVE  /\ \A c \in Channels : ~chan[c].busy /\ chan'[c].busy => c \in ChainFrom(x)
           /\ ~chan'[x].error
<1>. DEFINE r == chan[x]
            q == [r EXCEPT !.busy = FALSE, !.remaining = 0, !.count = 0, !.pace = pace]
            ch == [chan EXCEPT ![x] = q]
            S == {ch[x].chain} \ {x, N}
<1>1. chan' = Triggered(ch, S)
  BY DEF Finish, Fire
<1>2. r \in ChannelRecords /\ Sound(r, job[x], timer) /\ chan \in [Channels -> ChannelRecords]
  BY DEF CountInv
<1>3. q \in ChannelRecords /\ q.error = r.error /\ ~r.error
  BY <1>2 DEF ChannelRecords, Sound, Active, Moving
<1>4. \A y \in Channels : ch[y].chain = chan[y].chain
  BY <1>2 DEF ChannelRecords
<1>5. ch \in [Channels -> ChannelRecords] /\ ch[x] = q
  <2>. HIDE DEF q
  <2>. QED  BY <1>2, <1>3
<1>6. \A y \in Channels : y # x => ch[y] = chan[y]
  BY <1>2
<1>. HIDE DEF q, ch
<1>7. ~chan'[x].error
  BY <1>1, <1>3, <1>5 DEF Triggered, ChannelRecords
<1>8. ASSUME NEW c \in Channels, ~chan[c].busy, chan'[c].busy
      PROVE  c \in ChainFrom(x)
  <2>1. c # x
    BY <1>8 DEF Active
  <2>2. c \in Reached(ch, S)
    <3>. HIDE DEF S
    <3>. QED  BY <1>1, <1>6, <1>8, <2>1 DEF Triggered
  <2>3. c \in Path(ch, ch[x].chain)
    BY <2>2 DEF Reached
  <2>4. ch[x].chain \in 0..N
    BY <1>5 DEF ChannelRecords
  <2>5. SUFFICES ASSUME NEW T \in SUBSET (0..N), x \in T, FollowsChain(T)
                 PROVE  c \in T
    BY DEF ChainFrom
  <2>6. x # N
    BY ChannelsAssumption DEF Channels
  <2>7. ASSUME NEW y \in T \ {N} PROVE ch[y].chain \in T
    <3>1. y \in Channels
      BY ChannelsAssumption DEF Channels
    <3>2. QED
      BY <1>4, <2>5, <3>1 DEF FollowsChain
  <2>8. ch[x].chain \in T
    BY <2>5, <2>6, <2>7
  <2>9. QED
    BY <1>5, <2>3, <2>4, <2>7, <2>8, PathFollowsChain
<1>9. QED
  BY <1>7, <1>8

\* No channel starts in a transfer that goes on, or that fails.
LEMMA TransferChains ==
    ASSUME CountInv, NEW x \in Channels, Active(x), NEW budget, NEW pace \in Nat,
           Transfer(x, budget, pace), NEW c \in Channels, ~chan[c].busy, chan'[c].busy
    PROVE  c \in ChainFrom(x) /\ ~chan'[x].error
<1>1. chan[x].busy /\ chan \in [Channels -> ChannelRecords]
  BY DEF Active, CountInv
<1>2. ASSUME NEW k, Fail(x, k, pace) PROVE FALSE
  BY <1>1, <1>2 DEF Fail, ChannelRecords
<1>3. CASE chan' = [chan EXCEPT ![x].remaining = @ - budget, ![x].pace = pace]
  BY <1>1, <1>3 DEF ChannelRecords
<1>4. CASE Finish(x, pace)
  BY <1>4, FinishChains
<1>5. QED
  BY <1>2, <1>3, <1>4 DEF Transfer

\* What the clock starts was chained to, through whatever null transfers, from a channel that
\* has just moved its last element without an error: for any number of channels and any chains
\* among them, loops included.
THEOREM ChainsOnSuccessHolds == Spec => ChainsOnSuccess
<1>. DEFINE Chains == \A c \in Channels :
                          turn' # turn /\ ~chan[c].busy /\ chan'[c].busy =>
                              /\ c \in ChainFrom(turn)
                              /\ Active(turn) /\ ~chan'[turn].error
<1>1. Init => CountInv
  BY CountInvStarts
<1>2. CountInv /\ [Next]_vars => CountInv'
  BY CountInvKept
<1>3. CountInv /\ [Next]_vars => [Chains]_vars
  <2>. SUFFICES ASSUME CountInv, Next,
                       NEW c \in Channels, turn' # turn, ~chan[c].busy, chan'[c].busy
                PROVE  /\ c \in ChainFrom(turn)
                       /\ Active(turn) /\ ~chan'[turn].error
    OBVIOUS
  <2>1. UNCHANGED turn \/ Clock
    BY DEF Next, RegisterWrite, WriteAddress, WriteCount, WriteControl, Write, MultiTrigger, Abort,
           ClearIntr, WriteEnable, WriteForce, WriteTimer, Handler, EnterHandler, Acknowledge,
           WriteNvic, ResetDma, ResetCore
  <2>2. PICK x \in Channels : Serve(x)
    BY <2>1 DEF Clock
  <2>3. turn = x
    BY <2>2 DEF Serve
  <2>4. ~Skip
    BY DEF Skip
  <2>5. PICK budget, pace : Active(x) /\ Transfer(x, budget, pace) /\ pace \in Nat
    <3>1. chan[x].pace \in Nat /\ RateOf(chan[x], timer)[1] \in Nat
          /\ RateOf(chan[x], timer)[2] \in Nat \ {0}
      BY RateIsRatio DEF CountInv, ChannelRecords
    <3>2. RateFor(x) = RateOf(chan[x], timer)
      BY DEF RateFor, RateOf
    <3>3. Paced(x).pace \in Nat
      <4>. DEFINE a == RateOf(chan[x], timer)[1]
                  b == RateOf(chan[x], timer)[2]
                  p == chan[x].pace
      <4>1. Paced(x).pace = (p + a) % b
        BY <3>2 DEF Paced
      <4>. HIDE DEF a, b, p
      <4>2. p \in Nat /\ a \in Nat /\ b \in Nat \ {0}
        BY <3>1 DEF a, b, p
      <4>3. QED
        BY <4>1, <4>2, ClockIsExact
    <3>4. QED
      BY <2>2, <2>4, <3>1, <3>3 DEF Serve
  <2>6. QED
    BY <2>3, <2>5, TransferChains
<1>4. QED
  BY <1>1, <1>2, <1>3, PTL DEF Spec, ChainsOnSuccess
=============================================================================
