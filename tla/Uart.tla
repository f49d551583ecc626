-------------------------------- MODULE Uart --------------------------------
(***************************************************************************)
(* A UART: class Uart of src/peripherals/uart.cpp.  The record uart is the *)
(* object; a byte is known by its number, in the order in which firmware   *)
(* writes it or the test bench feeds it, so that loss, doubling and        *)
(* reordering show; its fields touched, lost and untold are history.  One  *)
(* action is one register access, one call of the test bench or one UARTCLK*)
(* cycle, a round of the loop in on_cycles.                                *)
(***************************************************************************)
EXTENDS Integers, Sequences, FiniteSets

CONSTANTS
    Depth,      \* kFifoDepth, 32 in the code
    DataBits,   \* the shortest character, 5 in the code
    Frac,       \* parts of a baud divisor, 64 in the code
    Over,       \* UARTCLK cycles of a bit, times the divisor; 16 in the code
    Errors,     \* the line errors a fed byte may carry: subsets of {"FE", "PE", "BE"}
    Traffic,    \* bounds: how often firmware writes, changes a setting, and the wire is fed
    Settings    \* bound: the settings firmware uses, each a record of some fields

VARIABLES
    uart,       \* the object
    past        \* history: how many bytes were written and fed, what was read, settings changed

vars == <<uart, past>>

-----------------------------------------------------------------------------
LineErrors == {"FE", "PE", "BE"}
Sticky == LineErrors \cup {"OE"}                \* RT is never raised
Byte(n, err) == [id |-> n, err |-> err]

\* Uart::reset; tx_log_ survives it
Cleared(log) ==
    [tx |-> <<>>, txShift |-> 0, txBits |-> 0, log |-> log,
     wire |-> <<>>, rx |-> <<>>, rxShift |-> Byte(0, {}), rxBits |-> 0,
     en |-> FALSE, txe |-> TRUE, rxe |-> TRUE,
     brk |-> FALSE, pen |-> FALSE, stp2 |-> FALSE, wlen |-> 0,
     ibrd |-> 0, fbrd |-> 0, acc |-> 0,
     ris |-> {}, imsc |-> {}, oe |-> FALSE, rxErr |-> {}, txdma |-> FALSE, rxdma |-> FALSE,
     pend |-> FALSE, touched |-> FALSE, lost |-> {}, untold |-> FALSE]

Fresh(bounds) == [written |-> 0, fed |-> 0, read |-> <<>>, changes |-> 0, bounds |-> bounds]

Init == uart = Cleared(<<>>) /\ \E bounds \in Traffic : past = Fresh(bounds)

BitsPerFrame(u) ==
    1 + DataBits + u.wlen + (IF u.pen THEN 1 ELSE 0) + (IF u.stp2 THEN 2 ELSE 1)

BitPeriod(u) == Over * (Frac * u.ibrd + u.fbrd)

\* read_ris: the FIFO levels count only while the UART is enabled.
Ris(u) ==
    u.ris \cup (IF u.en /\ u.rx # <<>> THEN {"RX"} ELSE {})
          \cup (IF u.en /\ Len(u.tx) < Depth THEN {"TX"} ELSE {})

Cause(u) == Ris(u) \cap u.imsc # {}

\* refresh_irq; touched says that the core's side has changed the pending bit since
RefreshIrq(u) == [u EXCEPT !.pend = Cause(u), !.touched = FALSE]

-----------------------------------------------------------------------------
\* The wires

\* tick_tx_bit: a frame that ends leaves its bit to itself, the next starts a bit later.
TickTx(u) ==
    CASE u.txBits > 1 -> [u EXCEPT !.txBits = @ - 1]
      [] u.txBits = 1 -> [u EXCEPT !.txBits = 0, !.log = Append(@, u.txShift)]
      [] u.txBits = 0 /\ u.txe /\ ~u.brk /\ u.tx # <<>> ->
            [u EXCEPT !.txShift = Head(u.tx), !.tx = Tail(@), !.txBits = BitsPerFrame(u)]
      [] OTHER -> u

\* Mutant: a byte that finds the FIFO full takes the place of the newest one.
TickRxOverwriting(u) ==
    CASE u.rxBits > 1 -> [u EXCEPT !.rxBits = @ - 1]
      [] u.rxBits = 1 /\ Len(u.rx) < Depth ->
            [u EXCEPT !.rxBits = 0, !.rx = Append(@, u.rxShift), !.ris = @ \cup u.rxShift.err]
      [] u.rxBits = 1 /\ Len(u.rx) >= Depth ->
            [u EXCEPT !.rxBits = 0, !.rx[Depth] = u.rxShift, !.oe = TRUE, !.ris = @ \cup {"OE"},
                      !.lost = @ \cup {u.rxShift.id}, !.untold = TRUE]
      [] u.rxBits = 0 /\ u.rxe /\ u.wire # <<>> ->
            [u EXCEPT !.rxShift = Head(u.wire), !.wire = Tail(@), !.rxBits = BitsPerFrame(u)]
      [] OTHER -> u

\* tick_rx_bit
TickRx(u) ==
    CASE u.rxBits > 1 -> [u EXCEPT !.rxBits = @ - 1]
      [] u.rxBits = 1 /\ Len(u.rx) < Depth ->
            [u EXCEPT !.rxBits = 0, !.rx = Append(@, u.rxShift), !.ris = @ \cup u.rxShift.err]
      [] u.rxBits = 1 /\ Len(u.rx) >= Depth ->
            [u EXCEPT !.rxBits = 0, !.oe = TRUE, !.ris = @ \cup {"OE"},
                      !.lost = @ \cup {u.rxShift.id}, !.untold = TRUE]
      [] u.rxBits = 0 /\ u.rxe /\ u.wire # <<>> ->
            [u EXCEPT !.rxShift = Head(u.wire), !.wire = Tail(@), !.rxBits = BitsPerFrame(u)]
      [] OTHER -> u

TickBit(u) == RefreshIrq(TickRx(TickTx(u)))

\* A round of on_cycles: several bits pass at once when the divisor is below one.
Ticked(u) ==
    LET total == u.acc + Frac
        after[n \in 0..(total \div BitPeriod(u))] == IF n = 0 THEN u ELSE TickBit(after[n - 1])
    IN  [after[total \div BitPeriod(u)] EXCEPT !.acc = total % BitPeriod(u)]

Clock ==
    /\ uart.en /\ BitPeriod(uart) > 0
    /\ uart' = Ticked(uart)
    /\ UNCHANGED past

\* Uart::feed
Feed ==
    \E err \in Errors :
        /\ past.fed < past.bounds.fed
        /\ uart' = [uart EXCEPT !.wire = Append(@, Byte(past.fed + 1, err))]
        /\ past' = [past EXCEPT !.fed = @ + 1]

-----------------------------------------------------------------------------
\* The registers

\* UARTDR written: a byte for a full FIFO is dropped.
WriteData ==
    /\ past.written < past.bounds.written
    /\ \/ /\ Len(uart.tx) < Depth
          /\ uart' = RefreshIrq([uart EXCEPT !.tx = Append(@, past.written + 1)])
          /\ past' = [past EXCEPT !.written = @ + 1]
       \/ /\ Len(uart.tx) >= Depth
          /\ uart' = RefreshIrq(uart)
          /\ UNCHANGED past

TxDreqReady == uart.txdma /\ Len(uart.tx) < Depth
RxDreqReady == uart.rxdma /\ uart.rx # <<>>

\* UARTDR read; an empty FIFO gives 0 and refreshes nothing.
ReadData ==
    /\ uart.rx # <<>>
    /\ uart' = RefreshIrq([uart EXCEPT !.rx = Tail(@), !.rxErr = Head(uart.rx).err])
    /\ past' = [past EXCEPT !.read = Append(@, Head(uart.rx).id)]

\* The DMA moves a byte when its DREQ says that there is one, or room for one.
DmaPaced == (TxDreqReady /\ WriteData) \/ (RxDreqReady /\ ReadData)

\* UARTRSR written
ClearErrors ==
    /\ uart' = RefreshIrq([uart EXCEPT !.rxErr = {}, !.oe = FALSE, !.untold = FALSE,
                                    !.ris = @ \ Sticky])
    /\ UNCHANGED past

\* UARTICR: RIS forgets, RSR does not.
WriteIcr ==
    \E bits \in {LineErrors, {"OE"}} :
        /\ uart' = RefreshIrq([uart EXCEPT !.ris = @ \ bits])
        /\ UNCHANGED past

\* UARTLCR_H, UARTIBRD, UARTFBRD, UARTDMACR refresh nothing, UARTCR and UARTIMSC do.
WriteSettings ==
    /\ past.changes < past.bounds.changes
    /\ \E s \in Settings :
        LET new == [f \in DOMAIN uart |-> IF f \in DOMAIN s THEN s[f] ELSE uart[f]]
        IN  /\ uart' = IF DOMAIN s \cap {"en", "txe", "rxe", "imsc"} # {} THEN RefreshIrq(new) ELSE new
            /\ past' = [past EXCEPT !.changes = @ + 1]

\* Cpu::step enters the handler and clears the pending bit, not its cause.
EnterHandler ==
    /\ uart.pend
    /\ uart' = [uart EXCEPT !.pend = FALSE, !.touched = ~@]
    /\ UNCHANGED past

\* Cpu::reset, which AIRCR or the watchdog asks for, drops what is pending and tells no unit.
ResetCore ==
    /\ uart' = [uart EXCEPT !.pend = FALSE, !.touched = @ # uart.pend]
    /\ UNCHANGED past

\* NVIC_ISPR and NVIC_ICPR: firmware turns the pending bit around.
WriteNvic ==
    /\ uart' = [uart EXCEPT !.pend = ~@, !.touched = ~@]
    /\ UNCHANGED past

Reset ==
    /\ uart' = RefreshIrq(Cleared(<<>>))
    /\ past' = [Fresh(past.bounds) EXCEPT !.changes = past.changes]

Next ==
    \/ Clock \/ Feed
    \/ WriteData \/ ReadData \/ DmaPaced \/ ClearErrors \/ WriteIcr \/ WriteSettings
    \/ EnterHandler \/ ResetCore \/ WriteNvic \/ Reset

Spec == Init /\ [][Next]_vars /\ WF_vars(Clock)

-----------------------------------------------------------------------------
Ids(s) == [n \in DOMAIN s |-> s[n].id]

\* All the numbers up to n but those lost, each once and in order
InOrder(s, n, lost) ==
    /\ \A i, j \in DOMAIN s : i < j => s[i] < s[j]
    /\ {s[i] : i \in DOMAIN s} = (1..n) \ lost

\* Whatever firmware changes in mid-frame, bytes leave once and in the order in
\* which they were written, and arrive in the order in which they were fed, but
\* for those an overrun lost; and RSR tells of an overrun until it is cleared.
Accounted ==
    /\ InOrder(uart.log \o (IF uart.txBits > 0 THEN <<uart.txShift>> ELSE <<>>) \o uart.tx,
               past.written, {})
    /\ InOrder(past.read \o Ids(uart.rx) \o (IF uart.rxBits > 0 THEN <<uart.rxShift.id>> ELSE <<>>)
                         \o Ids(uart.wire),
               past.fed, uart.lost)
    /\ uart.untold => uart.oe
    /\ Len(uart.tx) <= Depth /\ Len(uart.rx) <= Depth

\* As the unit leaves it, the line is pending if and only if it has a cause; the bit differs
\* only while a handler's entry, a reset of the core or the NVIC has changed it since.
LineFollowsCause == ~uart.touched => (uart.pend <=> Cause(uart))

\* Firmware that leaves the transmitter on gets every byte out.
Transmits == uart.en /\ BitPeriod(uart) > 0 /\ uart.txe /\ ~uart.brk
Waiting == uart.tx # <<>> /\ Transmits
=============================================================================
