------------------------------- MODULE MCDma -------------------------------
(***************************************************************************)
(* Channels that firmware has set up but not triggered yet, and a bounded  *)
(* number of register writes while they run.                               *)
(***************************************************************************)
EXTENDS Dma

CONSTANT
    MaxWrites   \* bound: register writes and resets after the set-up

VARIABLE writes

Setting(on, next, isQuiet, t) == [en |-> on, chain |-> next, quiet |-> isQuiet, treq |-> t]

MCControls ==
    {Setting(TRUE, 1, FALSE, "timer"), Setting(TRUE, 0, TRUE, "unregistered"),
     Setting(FALSE, 0, FALSE, "peripheral")}

MCRates == {<<2, 3>>, <<3, 2>>, <<0, 1>>}

\* What firmware writes to CTRL and to TRANS_COUNT before it triggers
SetUp(k, n) ==
    [Cleared EXCEPT !.en = k.en, !.chain = k.chain, !.quiet = k.quiet, !.treq = k.treq,
                    !.count = n]

\* Every channel but the last chains to the next; the last stops or chains back.
MCInit ==
    /\ \E t \in Treqs, u \in {"permanent", "timer"}, back \in {0, N}, n \in {0, 1},
          r \in MCRates \ {<<0, 1>>} :
          Idle([c \in Channels |->
                   IF c = N - 1 THEN SetUp(Setting(TRUE, back, FALSE, u), n)
                                ELSE SetUp(Setting(TRUE, c + 1, FALSE, t), MaxCount)],
               r, [k \in Irqs |-> IF k = 0 THEN Channels ELSE {}])
    /\ writes = 0

\* Firmware starts by triggering some of them.
MCNext ==
    \/ /\ writes = 0
       /\ \E S \in SUBSET Channels : MultiTrigger(S)
       /\ writes' = 1
    \/ /\ writes \in 1..(MaxWrites - 1)
       /\ RegisterWrite \/ WriteNvic \/ ResetDma \/ ResetCore
       /\ writes' = writes + 1
    \/ (Handler \/ Clock) /\ UNCHANGED writes

MCSpec == MCInit /\ [][MCNext]_<<vars, writes>> /\ WF_<<vars, writes>>(Clock /\ UNCHANGED writes)
=============================================================================
