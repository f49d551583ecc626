-------------------------------- MODULE Spi ---------------------------------
(***************************************************************************)
(* An SPI master: class Spi of src/peripherals/spi.cpp, down to the edges  *)
(* of SCK.  The record spi is the object, with the levels it drives on the *)
(* pins whose FUNCSEL is SPI.  One action is one register access or one    *)
(* SSPCLK cycle, a round of the loop in on_cycles; what the device at the  *)
(* other end answers is free.                                              *)
(*                                                                         *)
(* The fields touched, seen, steady, last, crowded and lost are history.   *)
(***************************************************************************)
EXTENDS Integers, Sequences, FiniteSets

CONSTANTS
    Depth,      \* kFifoDepth, 8 in the code
    Bits,       \* the frame sizes firmware uses, out of 1 .. 16
    Traffic,    \* bounds: how often firmware writes a word and changes a setting
    Settings    \* bound: the settings it uses, each a record of some fields

VARIABLES
    spi,        \* the object
    past        \* history: how many words were written, what was read, settings changed

vars == <<spi, past>>

-----------------------------------------------------------------------------
Bit(w, n) == (w \div 2 ^ n) % 2 = 1
MsbFirst(w, n) == [k \in 1..n |-> Bit(w, n - k)]
Frame(n, w) == [id |-> n, word |-> w]
Widest == CHOOSE n \in Bits : \A m \in Bits : m <= n

\* Spi::reset leaves the pins, which are not its own, as they were.
Cleared(sck, mosi) ==
    [tx |-> <<>>, rx |-> <<>>, shift |-> Frame(0, 0), bits |-> 0,
     size |-> 1, cpol |-> FALSE, cpha |-> FALSE, scr |-> 0, cpsdvsr |-> 0,
     sse |-> FALSE, lbm |-> FALSE, imsc |-> {}, txdma |-> FALSE, rxdma |-> FALSE,
     cycle |-> 0, sck |-> sck, mosi |-> mosi, pend |-> FALSE, touched |-> FALSE,
     seen |-> <<>>, steady |-> FALSE, last |-> [seen |-> <<>>, sent |-> <<>>],
     crowded |-> FALSE, lost |-> {}]

Fresh(bounds) == [written |-> 0, read |-> <<>>, changes |-> 0, bounds |-> bounds]

Init == spi = Cleared(FALSE, FALSE) /\ \E bounds \in Traffic : past = Fresh(bounds)

\* bit_period_cycles: an odd divisor, or none, turns the bit-rate generator off.
BitPeriod(s) == IF s.cpsdvsr < 2 \/ s.cpsdvsr % 2 = 1 THEN 0 ELSE s.cpsdvsr * (1 + s.scr)

\* live_ris
Ris(s) ==
    IF s.sse THEN (IF Len(s.tx) < Depth THEN {"TX"} ELSE {}) \cup (IF s.rx # <<>> THEN {"RX"} ELSE {})
             ELSE {}

Cause(s) == Ris(s) \cap s.imsc # {}
RefreshIrq(s) == [s EXCEPT !.pend = Cause(s), !.touched = FALSE]

-----------------------------------------------------------------------------
\* The wires

\* The end of a frame in tick_bit: a word for a full FIFO is lost without a sign.
EndFrame(s, answer) ==
    LET got == Frame(s.shift.id, (IF s.lbm THEN s.shift.word ELSE answer) % 2 ^ s.size)
        room == Len(s.rx) < Depth
    IN  RefreshIrq([s EXCEPT !.bits = 0,
                             !.rx = IF room THEN Append(@, got) ELSE @,
                             !.lost = IF room THEN @ ELSE @ \cup {got.id},
                             !.last = IF s.steady
                                      THEN [seen |-> s.seen, sent |-> MsbFirst(s.shift.word, s.size)]
                                      ELSE @])

\* tick_bit
TickBit(s, answer) ==
    CASE s.bits > 1 -> [s EXCEPT !.bits = @ - 1]
      [] s.bits = 1 -> EndFrame(s, answer)
      [] s.bits = 0 /\ s.tx # <<>> ->
            RefreshIrq([s EXCEPT !.shift = Head(s.tx), !.tx = Tail(@), !.bits = s.size,
                                 !.seen = <<>>, !.steady = TRUE])
      [] OTHER -> s

\* drive_waveform.  The device takes MOSI at the edge its phase prescribes: where
\* SCK leaves its idle level with CPHA = 0, where it returns to it with CPHA = 1.
Driven(s, atHalf) ==
    LET active == s.bits > 0 /\ s.cpha # atHalf
        level == active # s.cpol
    IN  [s EXCEPT !.sck = level,
                  !.mosi = IF atHalf THEN @ ELSE s.bits > 0 /\ Bit(s.shift.word, s.bits - 1),
                  !.seen = IF s.sck # level /\ active # s.cpha THEN Append(@, s.mosi) ELSE @]

\* A round of the loop in on_cycles
Clock ==
    \E answer \in 0..(2 ^ Widest - 1) :
        LET period == BitPeriod(spi)
            cycle == spi.cycle + 1
            half == IF cycle = period \div 2 THEN Driven(spi, TRUE) ELSE spi
        IN  /\ spi.sse /\ period > 0
            /\ spi' = IF cycle >= period
                      THEN Driven([TickBit(half, answer) EXCEPT !.cycle = 0], FALSE)
                      ELSE [half EXCEPT !.cycle = cycle]
            /\ UNCHANGED past

-----------------------------------------------------------------------------
\* The registers

\* Words of firmware's that are not yet read back
InFlight(s) == Len(s.tx) + (IF s.bits > 0 THEN 1 ELSE 0) + Len(s.rx)

\* SSPDR written: a word for a full FIFO is dropped.
WriteData ==
    \E w \in 0..(2 ^ Widest - 1) :
        LET queued == [spi EXCEPT !.tx = Append(@, Frame(past.written + 1, w % 2 ^ spi.size))]
        IN  /\ past.written < past.bounds.written
            /\ \/ /\ Len(spi.tx) < Depth
                  /\ spi' = RefreshIrq([queued EXCEPT !.crowded = @ \/ InFlight(queued) > Depth])
                  /\ past' = [past EXCEPT !.written = @ + 1]
               \/ /\ Len(spi.tx) >= Depth
                  /\ spi' = RefreshIrq(spi)
                  /\ UNCHANGED past

\* SSPDR read; an empty FIFO gives 0 and refreshes nothing.
ReadData ==
    /\ spi.rx # <<>>
    /\ spi' = RefreshIrq([spi EXCEPT !.rx = Tail(@)])
    /\ past' = [past EXCEPT !.read = Append(@, Head(spi.rx).id)]

TxDreqReady == spi.txdma /\ Len(spi.tx) < Depth
RxDreqReady == spi.rxdma /\ spi.rx # <<>>

\* The DMA moves a word when its DREQ says that there is one, or room for one.
DmaPaced == (TxDreqReady /\ WriteData) \/ (RxDreqReady /\ ReadData)

\* Mutant: the interrupt follows the mask only when something happens on the wire.
WriteSettingsQuietly ==
    /\ past.changes < past.bounds.changes
    /\ \E s \in Settings :
        /\ spi' = [[f \in DOMAIN spi |-> IF f \in DOMAIN s THEN s[f] ELSE spi[f]]
                       EXCEPT !.steady = FALSE]
        /\ past' = [past EXCEPT !.changes = @ + 1]

\* SSPCR0, SSPCPSR and SSPDMACR refresh nothing, SSPCR1 and SSPIMSC do; a frame
\* under way goes on with the new settings.
WriteSettings ==
    /\ past.changes < past.bounds.changes
    /\ \E s \in Settings :
        LET new == [[f \in DOMAIN spi |-> IF f \in DOMAIN s THEN s[f] ELSE spi[f]]
                       EXCEPT !.steady = @ /\ DOMAIN s \subseteq {"sse", "lbm", "imsc", "txdma", "rxdma"}]
        IN  /\ spi' = IF DOMAIN s \cap {"sse", "lbm", "imsc"} # {} THEN RefreshIrq(new) ELSE new
            /\ past' = [past EXCEPT !.changes = @ + 1]

\* Cpu::step enters the handler and clears the pending bit, not its cause.
EnterHandler ==
    /\ spi.pend
    /\ spi' = [spi EXCEPT !.pend = FALSE, !.touched = ~@]
    /\ UNCHANGED past

\* Cpu::reset, which AIRCR or the watchdog asks for, drops what is pending and tells no unit.
ResetCore ==
    /\ spi' = [spi EXCEPT !.pend = FALSE, !.touched = @ # spi.pend]
    /\ UNCHANGED past

\* NVIC_ISPR and NVIC_ICPR: firmware turns the pending bit around.
WriteNvic ==
    /\ spi' = [spi EXCEPT !.pend = ~@, !.touched = ~@]
    /\ UNCHANGED past

Reset ==
    /\ spi' = RefreshIrq(Cleared(spi.sck, spi.mosi))
    /\ past' = [Fresh(past.bounds) EXCEPT !.changes = past.changes]

Next ==
    \/ Clock
    \/ WriteData \/ ReadData \/ DmaPaced \/ WriteSettings
    \/ EnterHandler \/ ResetCore \/ WriteNvic \/ Reset

Spec == Init /\ [][Next]_vars /\ WF_vars(Clock)

-----------------------------------------------------------------------------
Ids(s) == [n \in DOMAIN s |-> s[n].id]

\* All the numbers up to n but those lost, each once and in order
InOrder(s, n, lost) ==
    /\ \A i, j \in DOMAIN s : i < j => s[i] < s[j]
    /\ {s[i] : i \in DOMAIN s} = (1..n) \ lost

\* Every word written comes back as one word, in order; a word is lost only to
\* firmware that has more of them under way than its FIFO holds.
Accounted ==
    /\ InOrder(past.read \o Ids(spi.rx) \o (IF spi.bits > 0 THEN <<spi.shift.id>> ELSE <<>>) \o Ids(spi.tx),
               past.written, spi.lost)
    /\ spi.lost # {} => spi.crowded
    /\ Len(spi.tx) <= Depth /\ Len(spi.rx) <= Depth

\* In all four modes, a device that samples MOSI at its edge of SCK sees the bits
\* of the word, the highest first, each once, unless firmware changes the settings in mid-frame.
SampledAsSent == spi.last.seen = spi.last.sent

\* As the unit leaves it, the line is pending if and only if it has a cause; the bit differs
\* only while a handler's entry, a reset of the core or the NVIC has changed it since.
LineFollowsCause == ~spi.touched => (spi.pend <=> Cause(spi))

\* Firmware that leaves the SPI on gets every word out.
Transmits == spi.sse /\ BitPeriod(spi) > 0
Waiting == spi.tx # <<>> /\ Transmits
=============================================================================
