-------------------------------- MODULE I2c ---------------------------------
(***************************************************************************)
(* An I2C controller: class I2c of src/peripherals/i2c.cpp, as the master  *)
(* of a bus with one device, and as a device itself that some other master *)
(* addresses.  The record i2c is the object.  One action is one register   *)
(* access, one call of what is wired to the bus, or one cycle of its clock *)
(* (a round of the loop in on_cycles); what the device answers is free.    *)
(*                                                                         *)
(* Bytes and commands are known by their numbers.  The fields touched,     *)
(* crowded, lost, silenced and failed are history.                         *)
(***************************************************************************)
EXTENDS Integers, Sequences, FiniteSets

CONSTANTS
    Depth,      \* kFifoDepth, 16 in the code
    BitsOfByte, \* SCL periods of a byte, 9 in the code
    Addresses,  \* ten-bit addresses, the device's among them
    Low,        \* how many of them seven bits tell apart
    Device,     \* slave_addr_
    Stretch,    \* the clock stretching the device may ask for
    Traffic,    \* bounds: commands written, bytes from the other master, settings changed
    Settings    \* bound: the settings firmware uses, each a record of some fields

VARIABLES
    i2c,        \* the object
    past        \* history: what was queued, run, received, read, answered and heard

vars == <<i2c, past>>

-----------------------------------------------------------------------------
\* I2c::reset: master and device, ten-bit addresses off, fast mode
Cleared ==
    [con |-> [fast |-> TRUE, ten |-> FALSE, tenSlave |-> FALSE, device |-> FALSE],
     tar |-> 0, sar |-> 0, en |-> FALSE, std |-> 0, fst |-> 0,
     cmds |-> <<>>, slaveTx |-> <<>>, rdReq |-> FALSE, rx |-> <<>>,
     raw |-> {}, mask |-> {}, abort |-> {}, left |-> 0, stretch |-> 0,
     txdma |-> FALSE, rxdma |-> FALSE, pend |-> FALSE, touched |-> FALSE,
     crowded |-> FALSE, lost |-> {}, silenced |-> FALSE, failed |-> {}]

Fresh(bounds) ==
    [queued |-> 0, ran |-> <<>>, came |-> 0, read |-> <<>>, answered |-> 0, heard |-> <<>>,
     polled |-> 0, changes |-> 0, bounds |-> bounds]

Init == i2c = Cleared /\ \E bounds \in Traffic : past = Fresh(bounds)

\* scl_period_cycles; 0 turns the bit-rate generator off.
Period(c) == IF c.con.fast THEN c.fst ELSE c.std
Masked(ten, a) == IF ten THEN a ELSE a % Low
Addressed(c) == Masked(c.con.ten, c.tar) = Device

Cause(c) == c.raw \cap c.mask # {}
RefreshIrq(c) == [c EXCEPT !.pend = Cause(c), !.touched = FALSE]

\* Bytes that have been asked for or have come and are not yet read
Expected(c) == Len(c.rx) + Cardinality({n \in DOMAIN c.cmds : c.cmds[n].rd})

\* A byte comes from the device (or the other master), if there is room.
Received(c, n) ==
    [c EXCEPT !.rx = Append(@, n), !.raw = @ \cup {"RX_FULL"}, !.silenced = FALSE]

-----------------------------------------------------------------------------
\* The controller as the master

\* run_command without its STOP: the device acknowledges or gives byte n if ok holds.
\* It is asked for a byte before there is known to be room for it.
Transferred(c, ok, n) ==
    LET cmd == Head(c.cmds)
        rest == [c EXCEPT !.cmds = Tail(@), !.left = 0]
    IN  CASE ~Addressed(c) ->
                [rest EXCEPT !.abort = @ \cup {"ADDR"}, !.failed = @ \cup {"ADDR"},
                             !.raw = @ \cup {"TX_ABRT"}]
          [] Addressed(c) /\ cmd.rd /\ ok /\ Len(c.rx) < Depth -> Received(rest, n)
          [] Addressed(c) /\ cmd.rd /\ ok /\ Len(c.rx) >= Depth -> [rest EXCEPT !.lost = @ \cup {n}]
          [] Addressed(c) /\ ~cmd.rd /\ ~ok ->
                [rest EXCEPT !.abort = @ \cup {"DATA"}, !.failed = @ \cup {"DATA"},
                             !.raw = @ \cup {"TX_ABRT"}]
          [] OTHER -> rest

\* run_command
RunCommand ==
    \E ok \in BOOLEAN :
        LET cmd == Head(i2c.cmds)
            gives == ok /\ cmd.rd /\ Addressed(i2c)
            done == Transferred(i2c, ok, past.came + 1)
        IN  /\ i2c' = RefreshIrq([done EXCEPT !.raw = IF cmd.stop THEN @ \cup {"STOP_DET"} ELSE @])
            /\ past' = [past EXCEPT !.ran = Append(@, cmd.id),
                                    !.came = IF gives THEN @ + 1 ELSE @]

\* A round of the loop in on_cycles: a byte in flight goes on, or the next one starts.
Clock ==
    /\ i2c.en
    /\ \/ i2c.left = 1 /\ RunCommand
       \/ /\ i2c.left > 1
          /\ i2c' = [i2c EXCEPT !.left = @ - 1]
          /\ UNCHANGED past
       \/ /\ i2c.left = 0 /\ i2c.cmds # <<>> /\ Period(i2c) > 0
          /\ i2c' = [i2c EXCEPT !.left = Period(i2c) * BitsOfByte + i2c.stretch, !.stretch = 0]
          /\ UNCHANGED past

\* stretch_next: the device holds the clock during the next byte.
StretchNext == \E n \in Stretch : i2c' = [i2c EXCEPT !.stretch = n] /\ UNCHANGED past

-----------------------------------------------------------------------------
\* The controller as a device

Selected(addr) ==
    i2c.con.device /\ Masked(i2c.con.tenSlave, addr) = Masked(i2c.con.tenSlave, i2c.sar)

\* slave_transfer for a read: without a byte to give, it asks firmware for one.
SlaveRead(addr) ==
    /\ past.polled < past.bounds.polled
    /\ Selected(addr)
    /\ \/ /\ i2c.slaveTx = <<>>
          /\ i2c' = RefreshIrq([i2c EXCEPT !.rdReq = TRUE, !.raw = @ \cup {"RD_REQ"}])
          /\ past' = [past EXCEPT !.polled = @ + 1]
       \/ /\ i2c.slaveTx # <<>>
          /\ i2c' = [i2c EXCEPT !.slaveTx = Tail(@)]
          /\ past' = [past EXCEPT !.heard = Append(@, Head(i2c.slaveTx))]

\* slave_transfer for a write: a full FIFO refuses the byte, and the master sees it.
SlaveWrite(addr) ==
    /\ past.polled < past.bounds.polled
    /\ Selected(addr) /\ Len(i2c.rx) < Depth
    /\ LET new == Received(i2c, past.came + 1)
       IN  i2c' = RefreshIrq([new EXCEPT !.crowded = @ \/ Expected(new) > Depth])
    /\ past' = [past EXCEPT !.came = @ + 1, !.polled = @ + 1]

SlaveStop ==
    /\ i2c.con.device
    /\ i2c' = RefreshIrq([i2c EXCEPT !.raw = @ \cup {"STOP_DET"}])
    /\ UNCHANGED past

-----------------------------------------------------------------------------
\* The registers

\* IC_DATA_CMD written while the other master waits for a byte: whatever firmware
\* means by it, it is that byte.
Answer ==
    /\ i2c.rdReq
    /\ i2c' = RefreshIrq([i2c EXCEPT !.rdReq = FALSE, !.raw = @ \ {"RD_REQ"},
                                     !.slaveTx = IF Len(@) < Depth THEN Append(@, past.answered + 1) ELSE @])
    /\ past' = [past EXCEPT !.answered = @ + 1]

TxDreqReady == i2c.txdma /\ Len(i2c.cmds) < Depth
RxDreqReady == i2c.rxdma /\ i2c.rx # <<>>

\* IC_DATA_CMD written otherwise: a command, dropped if the controller is off or its FIFO full.
QueueCommand ==
    \E rd \in BOOLEAN, stop \in BOOLEAN :
        LET new == [i2c EXCEPT !.cmds = Append(@, [id |-> past.queued + 1, rd |-> rd, stop |-> stop])]
        IN  /\ past.queued < past.bounds.queued
            /\ ~i2c.rdReq
            /\ \/ /\ i2c.en /\ Len(i2c.cmds) < Depth
                  /\ i2c' = [new EXCEPT !.crowded = @ \/ Expected(new) > Depth]
                  /\ past' = [past EXCEPT !.queued = @ + 1]
               \/ /\ ~i2c.en \/ Len(i2c.cmds) >= Depth
                  /\ UNCHANGED vars

\* IC_DATA_CMD read; an empty FIFO gives 0 and refreshes nothing.
ReadData ==
    /\ i2c.rx # <<>>
    /\ i2c' = RefreshIrq([i2c EXCEPT !.rx = Tail(@),
                                     !.raw = IF Len(i2c.rx) = 1 THEN @ \ {"RX_FULL"} ELSE @])
    /\ past' = [past EXCEPT !.read = Append(@, Head(i2c.rx))]

\* The DMA moves a byte when its DREQ says that there is one, or room for one.
DmaPaced == (TxDreqReady /\ QueueCommand) \/ (RxDreqReady /\ ReadData)

\* IC_CLR_TX_ABRT, IC_CLR_STOP_DET and IC_CLR_INTR, which clears RX_FULL and RD_REQ
\* as well, though the FIFO is not empty and the other master still waits
ClearInterrupts ==
    /\ UNCHANGED past
    /\ i2c' \in {RefreshIrq([i2c EXCEPT !.raw = @ \ {"TX_ABRT"}, !.abort = {}, !.failed = {}]),
                 RefreshIrq([i2c EXCEPT !.raw = @ \ {"STOP_DET"}]),
                 RefreshIrq([i2c EXCEPT !.raw = {}, !.abort = {}, !.failed = {}, !.silenced = TRUE])}

\* IC_CON, IC_TAR, IC_SAR, the counts, IC_ENABLE and IC_DMA_CR refresh nothing and
\* flush nothing; IC_INTR_MASK refreshes.
WriteSettings ==
    /\ past.changes < past.bounds.changes
    /\ \E s \in Settings :
        LET new == [f \in DOMAIN i2c |-> IF f \in DOMAIN s THEN s[f] ELSE i2c[f]]
        IN  /\ i2c' = IF "mask" \in DOMAIN s THEN RefreshIrq(new) ELSE new
            /\ past' = [past EXCEPT !.changes = @ + 1]

\* Cpu::step enters the handler and clears the pending bit, not its cause.
EnterHandler ==
    /\ i2c.pend
    /\ i2c' = [i2c EXCEPT !.pend = FALSE, !.touched = ~@]
    /\ UNCHANGED past

\* Cpu::reset, which AIRCR or the watchdog asks for, drops what is pending and tells no unit.
ResetCore ==
    /\ i2c' = [i2c EXCEPT !.pend = FALSE, !.touched = @ # i2c.pend]
    /\ UNCHANGED past

\* NVIC_ISPR and NVIC_ICPR: firmware turns the pending bit around.
WriteNvic ==
    /\ i2c' = [i2c EXCEPT !.pend = ~@, !.touched = ~@]
    /\ UNCHANGED past

Reset ==
    /\ i2c' = RefreshIrq(Cleared)
    /\ past' = [Fresh(past.bounds) EXCEPT !.changes = past.changes]

Next ==
    \/ Clock \/ StretchNext
    \/ \E addr \in Addresses : SlaveRead(addr) \/ SlaveWrite(addr)
    \/ SlaveStop
    \/ Answer \/ QueueCommand \/ ReadData \/ DmaPaced \/ ClearInterrupts \/ WriteSettings
    \/ EnterHandler \/ ResetCore \/ WriteNvic \/ Reset

Spec == Init /\ [][Next]_vars /\ WF_vars(Clock)

-----------------------------------------------------------------------------
Ids(s) == [n \in DOMAIN s |-> s[n].id]

\* All the numbers up to n but those lost, each once and in order
InOrder(s, n, lost) ==
    /\ \A i, j \in DOMAIN s : i < j => s[i] < s[j]
    /\ {s[i] : i \in DOMAIN s} = (1..n) \ lost

\* Commands run once and in order; the other master hears one answer to a request, in
\* order; bytes that come are read in order, and one is lost only to firmware that
\* has more of them under way than its FIFO holds.  A transfer that failed is
\* reported, with its reason, and a byte that has come is, until firmware says it knows.
Accounted ==
    /\ InOrder(past.ran \o Ids(i2c.cmds), past.queued, {})
    /\ InOrder(past.heard \o i2c.slaveTx, past.answered, {})
    /\ i2c.rdReq => i2c.slaveTx = <<>>
    /\ InOrder(past.read \o i2c.rx, past.came, i2c.lost)
    /\ i2c.lost # {} => i2c.crowded
    /\ i2c.failed = i2c.abort /\ (i2c.failed # {} => "TX_ABRT" \in i2c.raw)
    /\ i2c.rx # <<>> => "RX_FULL" \in i2c.raw \/ i2c.silenced
    /\ Len(i2c.cmds) <= Depth /\ Len(i2c.rx) <= Depth

\* As the unit leaves it, the line is pending if and only if it has a cause; the bit differs
\* only while a handler's entry, a reset of the core or the NVIC has changed it since.
LineFollowsCause == ~i2c.touched => (i2c.pend <=> Cause(i2c))

\* Firmware that leaves the controller on gets every command run.
Transmits == i2c.en /\ Period(i2c) > 0
Waiting == i2c.cmds # <<>> /\ Transmits
=============================================================================
