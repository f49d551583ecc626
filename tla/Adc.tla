--------------------------------- MODULE Adc ---------------------------------
(***************************************************************************)
(* The analogue-to-digital converter: class Adc of src/peripherals/adc.cpp.*)
(* A sample is known by its channel and by the number of its conversion;   *)
(* that the temperature sensor, when it is off, reads 0 and that FCS.SHIFT *)
(* drops bits is left out.  How many ADC clocks come to a system clock is *)
(* the clock tree's; a step here is one of them, a round of the loop in    *)
(* on_cycles.  The fields age and due are history: ADC clocks that the     *)
(* conversion under way has taken, and those it was begun with.            *)
(***************************************************************************)
EXTENDS Integers, Sequences, FiniteSets, SequencesExt

CONSTANTS
    Channels,   \* kNumInputs of them, from 0
    FifoDepth,  \* kFifoDepth
    Sar,        \* ADC clocks of a conversion, 96 in the code
    Masks,      \* bound: values of RROBIN
    Writes,     \* bound: writes of registers
    Samples     \* bound: conversions

VARIABLES
    adc,        \* the object
    past        \* history: what was converted, read and lost; the writes left

vars == <<adc, past>>

-----------------------------------------------------------------------------
Cleared ==
    [en |-> FALSE, many |-> FALSE, ready |-> FALSE, ainsel |-> 0, rrobin |-> {},
     fcsEn |-> FALSE, dreqEn |-> FALSE, over |-> FALSE, under |-> FALSE, thresh |-> 0, div |-> 0,
     fifo |-> <<>>, converting |-> FALSE, left |-> 0,
     inte |-> FALSE, intf |-> FALSE, pend |-> FALSE, touched |-> FALSE, age |-> 0, due |-> 0]

\* round is the channels converted since CS was written.
Fresh(writes) ==
    [number |-> 0, kept |-> <<>>, read |-> 0, untold |-> FALSE, round |-> <<>>, wrong |-> FALSE, writes |-> writes]

Init == adc = Cleared /\ past = Fresh(Writes)

\* The level counts from one up, whatever it is set to.
Cause(a) == (Len(a.fifo) >= (IF a.thresh = 0 THEN 1 ELSE a.thresh) \/ a.intf) /\ a.inte

RefreshIrq(a) == [a EXCEPT !.pend = Cause(a), !.touched = FALSE]

DreqReady == adc.dreqEn /\ adc.fifo # <<>>

-----------------------------------------------------------------------------
\* Conversions

\* next_rrobin: the next channel of the mask, round the inputs
NextRrobin(a, from) ==
    IF a.rrobin = {} THEN from
    ELSE CHOOSE c \in a.rrobin :
            \A d \in a.rrobin : (c - from - 1) % Channels <= (d - from - 1) % Channels

Selected(a) == IF a.ainsel >= Channels THEN 0 ELSE a.ainsel

\* convert
Convert(a) ==
    LET n == past.number + 1
    IN  RefreshIrq([a EXCEPT
            !.ready = TRUE, !.converting = FALSE, !.age = 0, !.due = 0,
            !.over = @ \/ (a.fcsEn /\ Len(a.fifo) >= FifoDepth),
            !.fifo = IF a.fcsEn /\ Len(a.fifo) < FifoDepth THEN Append(@, n) ELSE @,
            !.ainsel = IF a.rrobin = {} THEN @ ELSE NextRrobin(a, Selected(a))])

\* One ADC clock: a conversion ends, and in free running the next one begins with it.
AdcClock(a) ==
    LET ran == IF ~a.converting THEN a
               ELSE IF a.left = 1 THEN Convert([a EXCEPT !.left = 0])
               ELSE [a EXCEPT !.left = @ - 1, !.age = @ + 1]
    IN  IF ~ran.converting /\ ran.many
        THEN [ran EXCEPT !.converting = TRUE, !.left = Sar + a.div, !.due = Sar + a.div, !.age = 1,
                         !.ready = FALSE]
        ELSE ran

Ends(a) == a.converting /\ a.left = 1

\* What becomes of the sample is remembered, and whether it took its time.
Remembered(a) ==
    IF ~Ends(a) THEN past
    ELSE [past EXCEPT
            !.number = @ + 1,
            !.kept = IF a.fcsEn /\ Len(a.fifo) < FifoDepth THEN Append(@, past.number + 1) ELSE @,
            !.untold = @ \/ (a.fcsEn /\ Len(a.fifo) >= FifoDepth),
            !.round = Append(@, Selected(a)),
            !.wrong = @ \/ a.age # a.due]

\* on_cycles
Clock ==
    /\ adc.en
    /\ past.number < Samples
    /\ adc' = AdcClock(adc)
    /\ past' = Remembered(adc)

-----------------------------------------------------------------------------
\* The registers

Written == past.writes > 0

\* CS: READY is lost, and START_ONCE is heeded when nothing is converting.
WriteCs ==
    \E en, once, many \in BOOLEAN, sel \in {0, Channels}, mask \in Masks :
        LET starts == once /\ en /\ ~adc.converting
            new == [adc EXCEPT !.en = en, !.many = many, !.ainsel = sel, !.rrobin = mask, !.ready = FALSE]
        IN  /\ Written
            /\ adc' = RefreshIrq(
                        IF starts
                        THEN [new EXCEPT !.converting = TRUE, !.left = Sar + adc.div, !.due = Sar + adc.div,
                                         !.age = 1]
                        ELSE new)
            /\ past' = [past EXCEPT !.writes = @ - 1, !.round = <<>>]

\* FCS: the sticky bits stay unless written with a one, the rest is taken as written.
WriteFcs ==
    \E fifo, dreq, clear \in BOOLEAN, level \in {0, FifoDepth} :
        /\ Written
        /\ adc' = RefreshIrq([adc EXCEPT !.fcsEn = fifo, !.dreqEn = dreq, !.thresh = level,
                                         !.over = @ /\ ~clear, !.under = @ /\ ~clear])
        /\ past' = [past EXCEPT !.writes = @ - 1, !.untold = @ /\ ~clear]

WriteDiv ==
    \E d \in 0..1 :
        Written /\ adc' = [adc EXCEPT !.div = d] /\ past' = [past EXCEPT !.writes = @ - 1]

\* INTE and INTF
WriteInts ==
    \E e, f \in BOOLEAN :
        /\ Written
        /\ adc' = RefreshIrq([adc EXCEPT !.inte = e, !.intf = f])
        /\ past' = [past EXCEPT !.writes = @ - 1]

\* FIFO read, by firmware or by a channel of the DMA; an empty one only notes UNDER.
ReadFifo ==
    \/ /\ adc.fifo # <<>>
       /\ adc' = RefreshIrq([adc EXCEPT !.fifo = Tail(@)])
       /\ past' = [past EXCEPT !.read = @ + 1]
    \/ /\ adc.fifo = <<>> /\ ~adc.under
       /\ adc' = [adc EXCEPT !.under = TRUE]
       /\ UNCHANGED past

DmaReads == DreqReady /\ ReadFifo

\* Cpu::step enters the handler and clears the pending bit, not its cause.
EnterHandler ==
    /\ adc.pend
    /\ adc' = [adc EXCEPT !.pend = FALSE, !.touched = ~@]
    /\ UNCHANGED past

\* Cpu::reset, which AIRCR or the watchdog asks for, drops what is pending and tells no unit.
ResetCore ==
    /\ adc' = [adc EXCEPT !.pend = FALSE, !.touched = @ # adc.pend]
    /\ UNCHANGED past

\* NVIC_ISPR and NVIC_ICPR: firmware turns the pending bit around.
WriteNvic ==
    /\ adc' = [adc EXCEPT !.pend = ~@, !.touched = ~@]
    /\ UNCHANGED past

Reset ==
    /\ Written
    /\ adc' = RefreshIrq(Cleared)
    /\ past' = Fresh(past.writes - 1)

\* The samples are converted, or firmware leaves the converter alone.
Rest == (past.number = Samples \/ past.writes = 0) /\ UNCHANGED vars

Next ==
    \/ Clock \/ Reset
    \/ WriteCs \/ WriteFcs \/ WriteDiv \/ WriteInts \/ ReadFifo \/ DmaReads
    \/ EnterHandler \/ ResetCore \/ WriteNvic \/ Rest

Spec == Init /\ [][Next]_vars /\ WF_vars(Clock)

-----------------------------------------------------------------------------
\* Round robin: of the channels in the mask none is sampled again before the others.
FairRound ==
    LET size == Cardinality(adc.rrobin)
    IN  adc.rrobin # {} =>
            \A i, j \in 2..Len(past.round) :
                i < j /\ j < i + size => past.round[i] # past.round[j] /\ past.round[j] \in adc.rrobin

\* The samples that were kept are read once and in the order of their conversion, and one
\* that was lost shows in OVER until firmware has cleared it.
Accounted ==
    /\ SubSeq(past.kept, past.read + 1, Len(past.kept)) = adc.fifo
    /\ past.untold => adc.over
    /\ Len(adc.fifo) <= FifoDepth
    /\ FairRound

\* A conversion takes the ADC clocks it was begun with, whatever is written meanwhile.
OnTime == ~past.wrong

\* As the unit leaves it, the line is pending if and only if it has a cause; the bit differs
\* only while a handler's entry, a reset of the core or the NVIC has changed it since.
LineFollowsCause == ~adc.touched => (adc.pend <=> Cause(adc))

\* What was begun is completed, while the converter is on.
Waiting == adc.converting /\ adc.en /\ past.number < Samples
=============================================================================
