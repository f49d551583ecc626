-------------------------------- MODULE Pio --------------------------------
(***************************************************************************)
(* One PIO block (src/pio): state machines that share an instruction       *)
(* memory and interrupt flags, the FIFOs between each of them and the      *)
(* processor, their clock dividers, and the registers through which the    *)
(* processor controls them.                                                *)
(*                                                                         *)
(* A step is either one register access of the processor or the turn of    *)
(* one state machine in PioBlock::tick.  Simulator::step lets the          *)
(* processor execute an instruction and then ticks the block at least      *)
(* once: the processor acts when turn = NumSm, the state machines take     *)
(* their turns in order of their numbers.                                  *)
(*                                                                         *)
(* Words have Width bits instead of 32.  An instruction is a record, and   *)
(* Decode says which instruction a data word is when it is executed by OUT *)
(* EXEC or MOV EXEC.  Pins are inputs that are free at any time; what is   *)
(* written to pins, the side-set and the lines to the NVIC are left out.   *)
(***************************************************************************)
EXTENDS Integers, Sequences, FiniteSets, Powers

CONSTANTS
    NumSm,      \* state machines of the block (4 in the code)
    Width,      \* bits of a word (32)
    Depth,      \* depth of a FIFO that is not joined (4)
    Size,       \* words of the instruction memory (32)
    Unit,       \* fractions of a clock a divider counts (256)
    MaxDelay,   \* bound: delay of an instruction (31)
    Decode,     \* the instruction a data word encodes
    Instrs,     \* bound: the instructions in programs, forced or injected
    Words,      \* bound: the words the processor writes to a TX FIFO
    Levels,     \* bound: what can be read from the pins
    Dividers,   \* bound: values of CLKDIV, in Units
    Shifts,     \* bound: settings of SHIFTCTRL
    Wraps,      \* bound: settings of EXECCTRL
    Controls,   \* bound: values written to CTRL
    Harmless    \* instructions that a copying program does not notice

Sms == 0 .. NumSm - 1

Word == 0 .. PowerOfTwo[Width] - 1
Flags == 0 .. 2 * NumSm - 1
Addrs == 0 .. Size - 1

\* The instruction that an empty memory word encodes: jmp 0
Nop == [op |-> "JMP", cond |-> "always", to |-> 0, delay |-> 0]

\* Three fields of CTRL, one bit for each machine
ControlType == [enable : SUBSET Sms, restart : SUBSET Sms, clkdiv : SUBSET Sms]

Injects(in) == in.op \in {"OUT", "MOV"} /\ in.dst = "exec"

ASSUME PioAssumption ==
    /\ NumSm \in Nat \ {0} /\ Width \in Nat \ {0} /\ Depth \in Nat \ {0}
    /\ Size \in Nat \ {0} /\ Unit \in Nat \ {0} /\ MaxDelay \in Nat
    /\ Nop \in Instrs /\ Decode \in [Word -> Instrs]
    /\ \A in \in Instrs : in.delay \in 0 .. MaxDelay
    /\ \A w \in Word : ~Injects(Decode[w])
    /\ Words \subseteq Word /\ Levels \subseteq Word
    /\ Dividers \subseteq {d \in Nat : d >= Unit}
    /\ Controls \subseteq ControlType /\ Harmless \subseteq Instrs

ShiftDefault == [autopush |-> FALSE, autopull |-> FALSE, push |-> Width, pull |-> Width,
                 inRight |-> TRUE, outRight |-> TRUE]
WrapDefault == [top |-> Size - 1, bottom |-> 0, rxStatus |-> FALSE, n |-> 0]

VARIABLES
    prog,      \* the instruction memory
    sm,        \* the state machines
    irq,       \* the raised interrupt flags
    div, acc,  \* each machine's clock divider and its accumulator, in Units
    ctrl,      \* what is stored in the CTRL register
    fdebug,    \* FDEBUG: for each kind of event the machines it happened to
    turn,      \* the machine whose turn it is, NumSm for the processor
    \* History
    duty,      \* what firmware uses a machine for, "any" once it is disturbed
    due,       \* words given to a copying machine and not yet read back
    met,       \* answered minus completed rings (see Rendezvous)
    asked,     \* machines whose TXSTALL was cleared after the last word
    phased     \* machines whose dividers were restarted together

vars == <<prog, sm, irq, div, acc, ctrl, fdebug, turn, duty, due, met, asked, phased>>
block == <<prog, div, ctrl, phased>>

-----------------------------------------------------------------------------
(* Instructions: what exec() does to a machine and to the flags *)

Result(m, f, ok) == [m |-> m, irq |-> f, ok |-> ok]

Advanced(m) ==
    [m EXCEPT !.pc = IF @ = m.wrap.top THEN m.wrap.bottom ELSE (@ + 1) % Size]

Retired(m, f) == Result(Advanced(m), f, TRUE)
Jumped(m, f, a) == Result([m EXCEPT !.pc = a % Size], f, TRUE)
Stuck(m, f) == Result(m, f, FALSE)

TxEmpty(m) == m.tx = <<>>
RxFull(m) == Len(m.rx) = m.rxDepth

\* A word from the TX FIFO into the OSR, and the ISR into the RX FIFO
Pulled(m) == [m EXCEPT !.osr = Head(m.tx), !.tx = Tail(@), !.out = 0]
Emptied(m) == [m EXCEPT !.isr = 0, !.in = 0]
Pushed(m) == Emptied([m EXCEPT !.rx = Append(@, m.isr)])

OsrUsed(m) == m.out >= m.shift.pull
IsrReady(m) == m.in >= m.shift.push

\* resolve_irq: a relative index counts from the machine's own number
Flag(i, in) ==
    IF in.rel THEN (in.index \div NumSm) * NumSm + (((in.index % NumSm) + i) % NumSm)
              ELSE in.index

Bit(w, b) == (w \div PowerOfTwo[b]) % 2
Reversed(w) ==
    CHOOSE v \in Word : \A b \in 0 .. Width - 1 : Bit(v, b) = Bit(w, Width - 1 - b)

Taken(m, in, level) ==
    \/ in.cond = "always"
    \/ in.cond = "!x" /\ m.x = 0
    \/ in.cond = "x--" /\ m.x # 0
    \/ in.cond = "!y" /\ m.y = 0
    \/ in.cond = "y--" /\ m.y # 0
    \/ in.cond = "x!=y" /\ m.x # m.y
    \/ in.cond = "pin" /\ Bit(level, 0) = 1
    \/ in.cond = "!osre" /\ ~OsrUsed(m)

Jmp(m, f, in, level) ==
    LET n == [m EXCEPT !.x = IF in.cond = "x--" THEN (@ - 1) % PowerOfTwo[Width] ELSE @,
                       !.y = IF in.cond = "y--" THEN (@ - 1) % PowerOfTwo[Width] ELSE @]
    IN IF Taken(m, in, level) THEN Jumped(n, f, in.to) ELSE Retired(n, f)

\* What SET, OUT and MOV write to a register, other than to PC and EXEC
SetReg(m, dst, v, bits) ==
    CASE dst = "x" -> [m EXCEPT !.x = v]
      [] dst = "y" -> [m EXCEPT !.y = v]
      [] dst = "isr" -> [m EXCEPT !.isr = v, !.in = bits]
      [] dst = "osr" -> [m EXCEPT !.osr = v, !.out = bits]
      [] OTHER -> m

Status(m) == IF Len(IF m.wrap.rxStatus THEN m.rx ELSE m.tx) < m.wrap.n
             THEN PowerOfTwo[Width] - 1 ELSE 0

Source(m, src, level) ==
    CASE src = "x" -> m.x
      [] src = "y" -> m.y
      [] src = "isr" -> m.isr
      [] src = "osr" -> m.osr
      [] src = "pins" -> level
      [] src = "status" -> Status(m)
      [] OTHER -> 0

Moved(m, in, level) ==
    LET v == Source(m, in.src, level)
    IN CASE in.inv = "invert" -> PowerOfTwo[Width] - 1 - v
         [] in.inv = "reverse" -> Reversed(v)
         [] OTHER -> v

\* IN shifts bits into the ISR, and pushes it when autopush finds it full.
\* A full RX FIFO, or an autopush that was pending already, stalls.
ShiftedIn(m, in, level) ==
    LET v == Source(m, in.src, level) % PowerOfTwo[in.bits]
    IN [m EXCEPT !.isr = IF m.shift.inRight
                         THEN (@ \div PowerOfTwo[in.bits]) + v * PowerOfTwo[Width - in.bits]
                         ELSE (@ * PowerOfTwo[in.bits] + v) % PowerOfTwo[Width],
                 !.in = IF @ + in.bits > Width THEN Width ELSE @ + in.bits]

AutoPushed(m) ==
    IF ~m.shift.autopush \/ ~IsrReady(m) THEN m
    ELSE IF RxFull(m) THEN [m EXCEPT !.stall = "autopush"] ELSE Pushed(m)

In(m, f, in, level) ==
    LET n == AutoPushed(ShiftedIn(m, in, level))
    IN IF n.stall = "autopush" THEN Stuck(n, f) ELSE Retired(n, f)

\* OUT shifts bits out of the OSR, which autopull refills first.
NeedsWord(m) == m.shift.autopull /\ OsrUsed(m)
Starved(m) == NeedsWord(m) /\ TxEmpty(m)
Refilled(m) == IF NeedsWord(m) /\ ~TxEmpty(m) THEN Pulled(m) ELSE m

OutValue(m, n) ==
    LET w == Refilled(m).osr
    IN IF m.shift.outRight THEN w % PowerOfTwo[n] ELSE w \div PowerOfTwo[Width - n]

ShiftedOut(m, n) ==
    [Refilled(m) EXCEPT !.osr = IF m.shift.outRight THEN @ \div PowerOfTwo[n]
                                ELSE (@ * PowerOfTwo[n]) % PowerOfTwo[Width],
                        !.out = IF @ + n > Width THEN Width ELSE @ + n]

Push(m, f, in) ==
    IF in.full /\ ~IsrReady(m) THEN Retired(m, f)
    ELSE IF ~RxFull(m) THEN Retired(Pushed(m), f)
    ELSE IF in.block THEN Stuck(m, f) ELSE Retired(Emptied(m), f)

Pull(m, f, in) ==
    IF in.empty /\ ~OsrUsed(m) THEN Retired(m, f)
    ELSE IF ~TxEmpty(m) THEN Retired(Pulled(m), f)
    ELSE IF in.block THEN Stuck(m, f) ELSE Retired([m EXCEPT !.osr = m.x, !.out = 0], f)

\* WAIT for a pin or for a flag, which it lowers when it waited for it to rise
Wait(m, f, i, in, level) ==
    LET high == IF in.src = "irq" THEN Flag(i, in) \in f ELSE Bit(level, 0) = 1
    IN IF high # in.high THEN Stuck(m, f)
       ELSE Retired(m, IF in.src = "irq" /\ in.high THEN f \ {Flag(i, in)} ELSE f)

\* Mutant: the IRQ raises its flag again when it ends.
IrqRaisedAgain(m, f, i, in) ==
    LET n == Flag(i, in)
    IN IF in.clear THEN Retired(m, f \ {n})
       ELSE IF in.wait /\ (~m.raised \/ n \in f)
            THEN Stuck([m EXCEPT !.raised = TRUE], f \cup {n})
       ELSE Retired([m EXCEPT !.raised = FALSE], f \cup {n})

\* IRQ raises a flag once, and with wait stalls until it has been lowered.
Irq(m, f, i, in) ==
    LET n == Flag(i, in)
        g == IF m.raised THEN f ELSE f \cup {n}
        r == [m EXCEPT !.raised = IF @ THEN @ ELSE in.wait]
    IN IF in.clear THEN Retired(m, f \ {n})
       ELSE IF in.wait /\ n \in g THEN Stuck(r, g)
       ELSE Retired([r EXCEPT !.raised = FALSE], g)

\* Whatever is not injected by another instruction
Plain(m, f, i, in, level) ==
    CASE in.op = "JMP" -> Jmp(m, f, in, level)
      [] in.op = "SET" -> Retired(SetReg(m, in.dst, in.data, 0), f)
      [] in.op = "IN" -> In(m, f, in, level)
      [] in.op = "PUSH" -> Push(m, f, in)
      [] in.op = "PULL" -> Pull(m, f, in)
      [] in.op = "WAIT" -> Wait(m, f, i, in, level)
      [] in.op = "IRQ" -> Irq(m, f, i, in)
      [] in.op = "MOV" ->
             IF in.dst = "pc" THEN Jumped(m, f, Moved(m, in, level))
             ELSE Retired(SetReg(m, in.dst, Moved(m, in, level), 0), f)
      [] in.op = "OUT" ->
             IF Starved(m) THEN Stuck([m EXCEPT !.stall = "autopull"], f)
             ELSE LET n == ShiftedOut(m, in.bits)
                  IN IF in.dst = "pc" THEN Jumped(n, f, OutValue(m, in.bits))
                     ELSE Retired(SetReg(n, in.dst, OutValue(m, in.bits), in.bits), f)
      [] OTHER -> Retired(m, f)

\* OUT EXEC and MOV EXEC go on with the instruction that the value encodes.
Inject(m, f, i, v, level) ==
    Plain([m EXCEPT !.cur = Decode[v]], f, i, Decode[v], level)

Exec(m, f, i, in, level) ==
    IF ~Injects(in) THEN Plain(m, f, i, in, level)
    ELSE IF in.op = "MOV" THEN Inject(m, f, i, Moved(m, in, level), level)
    ELSE IF Starved(m) THEN Stuck([m EXCEPT !.stall = "autopull"], f)
    ELSE Inject(ShiftedOut(m, in.bits), f, i, OutValue(m, in.bits), level)

-----------------------------------------------------------------------------
(* Resets and the processor's settings *)

\* restart(): the scratch registers, the FIFOs and the configuration stay.
Restarted(m) ==
    [m EXCEPT !.pc = m.wrap.bottom, !.osr = 0, !.isr = 0, !.out = Width, !.in = 0,
              !.delay = 0, !.stall = "none", !.raised = FALSE]

\* full_reset()
Fresh ==
    [enabled |-> FALSE, pc |-> 0, x |-> 0, y |-> 0, osr |-> 0, isr |-> 0,
     out |-> Width, in |-> 0, delay |-> 0, stall |-> "none", raised |-> FALSE, cur |-> Nop,
     tx |-> <<>>, rx |-> <<>>, txDepth |-> Depth, rxDepth |-> Depth,
     shift |-> ShiftDefault, wrap |-> WrapDefault]

\* FJOIN gives the storage of one FIFO to the other; set_depth empties both.
JoinDepth(own, other) == IF own THEN 2 * Depth ELSE IF other THEN 0 ELSE Depth

Joined(m, tx, rx) ==
    [m EXCEPT !.tx = <<>>, !.rx = <<>>,
              !.txDepth = JoinDepth(tx, rx), !.rxDepth = JoinDepth(rx, tx)]

NoEvents == [rxstall |-> {}, rxunder |-> {}, txover |-> {}, txstall |-> {}]
NoControl == [enable |-> {}, restart |-> {}, clkdiv |-> {}]

Init ==
    /\ prog \in [Addrs -> Instrs]
    /\ \E s \in [Sms -> Shifts], w \in [Sms -> Wraps], x \in [Sms -> Word] :
          sm = [i \in Sms |-> Restarted([Fresh EXCEPT !.shift = s[i], !.wrap = w[i],
                                                      !.x = x[i]])]
    /\ div \in [Sms -> Dividers] /\ acc = [i \in Sms |-> 0]
    /\ irq = {} /\ ctrl = NoControl /\ fdebug = NoEvents /\ turn = NumSm
    /\ duty = [i \in Sms |-> "any"] /\ due = [i \in Sms |-> <<>>] /\ met = 0
    /\ asked = {} /\ phased = {}

-----------------------------------------------------------------------------
(* The turn of a state machine in PioBlock::tick *)

WaitsForTx(m) ==
    m.stall = "autopull" \/ (m.stall = "instr" /\ m.cur.op = "PULL")
WaitsForRx(m) ==
    m.stall = "autopush" \/ (m.stall = "instr" /\ m.cur.op = "PUSH")

Due(i) == acc[i] + Unit >= div[i]
Active(i) == turn = i /\ sm[i].enabled /\ Due(i)

\* Mutant: a stall is noted for the instruction that was fetched.
EndTurnOfFetched(i, m, stalled) ==
    /\ sm' = [sm EXCEPT ![i] = m]
    /\ acc' = [acc EXCEPT ![i] = @ + Unit - div[i]]
    /\ LET op == prog[m.pc].op
       IN fdebug' = [fdebug EXCEPT
                        !.rxstall = IF stalled /\ op \in {"IN", "PUSH"} THEN @ \cup {i} ELSE @,
                        !.txstall = IF stalled /\ op \in {"OUT", "PULL"} THEN @ \cup {i} ELSE @]
    /\ turn' = i + 1
    /\ UNCHANGED <<block, duty, due, asked>>

\* The turn ends; the machine becomes m, and FDEBUG notes a stall on a FIFO.
EndTurn(i, m, stalled) ==
    /\ sm' = [sm EXCEPT ![i] = m]
    /\ acc' = [acc EXCEPT ![i] = @ + Unit - div[i]]
    /\ fdebug' = [fdebug EXCEPT !.rxstall = IF stalled /\ WaitsForRx(m) THEN @ \cup {i} ELSE @,
                                !.txstall = IF stalled /\ WaitsForTx(m) THEN @ \cup {i} ELSE @]
    /\ turn' = i + 1
    /\ UNCHANGED <<block, duty, due, asked>>

\* Disabled, or the divided clock does not tick in this cycle
Skip(i) ==
    /\ turn = i /\ ~(sm[i].enabled /\ Due(i))
    /\ acc' = IF sm[i].enabled THEN [acc EXCEPT ![i] = @ + Unit] ELSE acc
    /\ turn' = i + 1
    /\ UNCHANGED <<block, sm, irq, fdebug, duty, due, met, asked>>

DelaySlot(i) ==
    /\ Active(i) /\ sm[i].delay > 0
    /\ EndTurn(i, [sm[i] EXCEPT !.delay = @ - 1], FALSE)
    /\ UNCHANGED <<irq, met>>

\* Mutant: the stalled IN is fetched again after its push.
RetryPushStaying(i) ==
    /\ Active(i) /\ sm[i].delay = 0 /\ sm[i].stall = "autopush"
    /\ IF RxFull(sm[i]) THEN EndTurn(i, sm[i], TRUE)
       ELSE EndTurn(i, [Pushed(sm[i]) EXCEPT !.stall = "none"], FALSE)
    /\ UNCHANGED <<irq, met>>

\* A pending autopush is tried again; the IN itself is over.
RetryPush(i) ==
    /\ Active(i) /\ sm[i].delay = 0 /\ sm[i].stall = "autopush"
    /\ IF RxFull(sm[i]) THEN EndTurn(i, sm[i], TRUE)
       ELSE EndTurn(i, [Advanced(Pushed(sm[i])) EXCEPT !.stall = "none",
                                                       !.delay = sm[i].cur.delay], FALSE)
    /\ UNCHANGED <<irq, met>>

\* An OUT whose autopull finds no word keeps waiting.
AwaitWord(i) ==
    /\ Active(i) /\ sm[i].delay = 0 /\ sm[i].stall = "autopull" /\ TxEmpty(sm[i])
    /\ EndTurn(i, sm[i], TRUE)
    /\ UNCHANGED <<irq, met>>

\* An OUT that got its word and a stalled instruction are executed again, from
\* cur; otherwise an empty OSR is refilled and the next instruction fetched.
Fetched(m) ==
    CASE m.stall = "autopull" -> [Pulled(m) EXCEPT !.stall = "instr"]
      [] m.stall = "instr" -> m
      [] OTHER -> [Refilled(m) EXCEPT !.cur = prog[m.pc]]

\* Rings are answered in pairs: see Rendezvous.
Rings == \E i, j \in Sms : duty[i] = "rings" /\ duty[j] = "answers"
Met(i, r) ==
    CASE Rings /\ r.ok /\ duty[i] = "rings" /\ r.m.cur.op = "IRQ" -> met - 1
      [] Rings /\ r.ok /\ duty[i] = "answers" /\ r.m.cur.op = "WAIT" -> met + 1
      [] OTHER -> met

\* The delay is that of cur, which OUT EXEC and MOV EXEC have replaced.
Execute(i) ==
    /\ Active(i) /\ sm[i].delay = 0 /\ sm[i].stall # "autopush"
    /\ ~(sm[i].stall = "autopull" /\ TxEmpty(sm[i]))
    /\ \E level \in Levels :
          LET m == Fetched(sm[i])
              r == Exec(m, irq, i, m.cur, level)
          IN /\ IF r.ok
                THEN EndTurn(i, [r.m EXCEPT !.stall = "none", !.delay = r.m.cur.delay], FALSE)
                ELSE EndTurn(i, [r.m EXCEPT !.stall = IF @ = "none" THEN "instr" ELSE @], TRUE)
             /\ irq' = r.irq
             /\ met' = Met(i, r)

Tick == \E i \in Sms : Skip(i) \/ DelaySlot(i) \/ RetryPush(i) \/ AwaitWord(i) \/ Execute(i)

-----------------------------------------------------------------------------
(* The processor *)

\* An access is followed by at least one cycle of the block.
Access == turn = NumSm /\ turn' = 0

\* The processor interferes with the programs of the machines in S.
Disturb(S) ==
    /\ duty' = [i \in Sms |-> IF i \in S THEN "any" ELSE duty[i]]
    /\ due' = [i \in Sms |-> IF i \in S THEN <<>> ELSE due[i]]
    /\ met' = IF \E i \in S \cap Sms : duty[i] \in {"rings", "answers"} THEN 0 ELSE met

NoAccess ==
    /\ Access
    /\ UNCHANGED <<block, sm, irq, acc, fdebug, duty, due, met, asked>>

WriteTxf(i, w) ==
    /\ Access
    /\ IF Len(sm[i].tx) = sm[i].txDepth
       THEN /\ fdebug' = [fdebug EXCEPT !.txover = @ \cup {i}]
            /\ UNCHANGED <<sm, due>>
       ELSE /\ sm' = [sm EXCEPT ![i].tx = Append(@, w)]
            /\ due' = IF duty[i] = "copies" THEN [due EXCEPT ![i] = Append(@, w)] ELSE due
            /\ UNCHANGED fdebug
    /\ asked' = asked \ {i}
    /\ UNCHANGED <<block, irq, acc, duty, met>>

ReadRxf(i) ==
    /\ Access
    /\ IF sm[i].rx = <<>>
       THEN /\ fdebug' = [fdebug EXCEPT !.rxunder = @ \cup {i}]
            /\ UNCHANGED <<sm, due>>
       ELSE /\ sm' = [sm EXCEPT ![i].rx = Tail(@)]
            /\ due' = IF due[i] = <<>> THEN due ELSE [due EXCEPT ![i] = Tail(@)]
            /\ UNCHANGED fdebug
    /\ UNCHANGED <<block, irq, acc, duty, met, asked>>

\* Mutant: an event is cleared by writing 0 to its bit.
WriteFdebugZero(v) ==
    /\ Access
    /\ fdebug' = [k \in DOMAIN fdebug |-> fdebug[k] \cap v[k]]
    /\ asked' = asked \cup v.txstall
    /\ UNCHANGED <<block, sm, irq, acc, duty, due, met>>

\* Write-1-to-clear
WriteFdebug(v) ==
    /\ Access
    /\ fdebug' = [k \in DOMAIN fdebug |-> fdebug[k] \ v[k]]
    /\ asked' = asked \cup v.txstall
    /\ UNCHANGED <<block, sm, irq, acc, duty, due, met>>

WriteIrq(S) ==
    /\ Access
    /\ irq' = irq \ S
    /\ Disturb(IF S \cap irq = {} THEN {} ELSE {i \in Sms : duty[i] # "copies"})
    /\ UNCHANGED <<block, sm, acc, fdebug, asked>>

WriteIrqForce(S) ==
    /\ Access
    /\ irq' = irq \cup S
    /\ Disturb(IF S \subseteq irq THEN {} ELSE {i \in Sms : duty[i] # "copies"})
    /\ UNCHANGED <<block, sm, acc, fdebug, asked>>

\* The written value is stored as it is, with the bits that restart.  The
\* aliases of AtomicPeripheral read the register, and write the result.
ControlValue(alias, v) ==
    [k \in DOMAIN ctrl |->
        CASE alias = "set" -> ctrl[k] \cup v[k]
          [] alias = "clear" -> ctrl[k] \ v[k]
          [] alias = "xor" -> (ctrl[k] \ v[k]) \cup (v[k] \ ctrl[k])
          [] OTHER -> v[k]]

\* Machines whose dividers start together, and go on together
InStep(v) ==
    LET g == v.clkdiv \cap v.enable
    IN IF v.clkdiv # {} THEN g ELSE phased \cap v.enable

\* Mutant: the divider of a machine that runs is not restarted.
WriteCtrlIdleOnly(alias, value) ==
    LET v == ControlValue(alias, value)
    IN /\ Access
       /\ ctrl' = v
       /\ sm' = [i \in Sms |->
                    LET m == [sm[i] EXCEPT !.enabled = i \in v.enable]
                    IN IF i \in v.restart THEN Restarted(m) ELSE m]
       /\ acc' = [i \in Sms |-> IF i \in v.clkdiv /\ ~sm[i].enabled THEN 0 ELSE acc[i]]
       /\ phased' = InStep(v)
       /\ Disturb(v.restart)
       /\ UNCHANGED <<prog, div, irq, fdebug, asked>>

WriteCtrl(alias, value) ==
    LET v == ControlValue(alias, value)
    IN /\ Access
       /\ ctrl' = v
       /\ sm' = [i \in Sms |->
                    LET m == [sm[i] EXCEPT !.enabled = i \in v.enable]
                    IN IF i \in v.restart THEN Restarted(m) ELSE m]
       /\ acc' = [i \in Sms |-> IF i \in v.clkdiv THEN 0 ELSE acc[i]]
       /\ phased' = InStep(v)
       /\ Disturb(v.restart)
       /\ UNCHANGED <<prog, div, irq, fdebug, asked>>

WriteClkdiv(i, d) ==
    /\ Access
    /\ div' = [div EXCEPT ![i] = d] /\ acc' = [acc EXCEPT ![i] = 0]
    /\ phased' = phased \ {i}
    /\ UNCHANGED <<prog, ctrl, sm, irq, fdebug, duty, due, met, asked>>

WriteExecctrl(i, w) ==
    /\ Access
    /\ sm' = [sm EXCEPT ![i].wrap = w]
    /\ Disturb({i})
    /\ UNCHANGED <<block, irq, acc, fdebug, asked>>

WriteShiftctrl(i, s, tx, rx) ==
    /\ Access
    /\ sm' = [sm EXCEPT ![i] = Joined([@ EXCEPT !.shift = s], tx, rx)]
    /\ Disturb({i})
    /\ UNCHANGED <<block, irq, acc, fdebug, asked>>

WriteInstrMem(a, in) ==
    /\ Access
    /\ prog' = [prog EXCEPT ![a] = in]
    /\ Disturb(Sms)
    /\ UNCHANGED <<div, ctrl, phased, sm, irq, acc, fdebug, asked>>

\* SMx_INSTR, exec_immediate(): an instruction out of band, once; only JMP
\* moves the PC, and a machine is not left stalled on it.
WriteInstr(i, in, level) ==
    LET r == Exec(sm[i], irq, i, in, level)
    IN /\ Access
       /\ sm' = [sm EXCEPT ![i] =
                    [r.m EXCEPT !.pc = IF in.op = "JMP" /\ r.ok THEN @ ELSE sm[i].pc,
                                !.stall = IF r.ok THEN @ ELSE "none"]]
       /\ irq' = r.irq
       /\ Disturb(IF in \in Harmless THEN {} ELSE {i} \cup {j \in Sms : duty[j] # "copies"})
       /\ UNCHANGED <<block, acc, fdebug, asked>>

Reset ==
    /\ Access
    /\ prog' = [a \in Addrs |-> Nop] /\ sm' = [i \in Sms |-> Fresh]
    /\ irq' = {} /\ ctrl' = NoControl /\ fdebug' = NoEvents
    /\ div' = [i \in Sms |-> Unit] /\ acc' = [i \in Sms |-> 0]
    /\ Disturb(Sms)
    /\ asked' = {} /\ phased' = {}

RegisterAccess ==
    \/ \E i \in Sms, w \in Words : WriteTxf(i, w)
    \/ \E i \in Sms : ReadRxf(i)
    \/ \E v \in [DOMAIN fdebug -> SUBSET Sms] : WriteFdebug(v)
    \/ \E S \in SUBSET Flags : WriteIrq(S) \/ WriteIrqForce(S)
    \/ \E alias \in {"normal", "set", "clear", "xor"}, v \in Controls : WriteCtrl(alias, v)
    \/ \E i \in Sms, d \in Dividers : WriteClkdiv(i, d)
    \/ \E i \in Sms, w \in Wraps : WriteExecctrl(i, w)
    \/ \E i \in Sms, s \in Shifts, tx, rx \in BOOLEAN : WriteShiftctrl(i, s, tx, rx)
    \/ \E a \in Addrs, in \in Instrs : WriteInstrMem(a, in)
    \/ \E i \in Sms, in \in Instrs, level \in Levels : WriteInstr(i, in, level)

Next == Tick \/ NoAccess \/ RegisterAccess \/ Reset

\* Simulator::step ticks the block again and again, whatever the processor does.
Spec == Init /\ [][Next]_vars /\ WF_vars(Tick \/ NoAccess)

-----------------------------------------------------------------------------
(* Properties *)

\* What a program that copies its TX FIFO to its RX FIFO delivers is what it was
\* given, in order, each word once: the words in the RX FIFO come next, and
\* when the machine has run out of words, nothing is left behind.  It may
\* stall at either FIFO, be stopped and started, pause in delay slots, run at
\* any speed, and execute forced instructions that do not concern it (exec,
\* tick and exec_immediate in state_machine.cpp).
IsPrefixOf(s, t) == Len(s) <= Len(t) /\ s = SubSeq(t, 1, Len(s))
Copied ==
    \A i \in Sms : duty[i] = "copies" =>
        /\ IsPrefixOf(sm[i].rx, due[i])
        /\ WaitsForTx(sm[i]) /\ sm[i].in = 0 /\ TxEmpty(sm[i]) => sm[i].rx = due[i]

\* IRQ wait in one machine and WAIT IRQ in another are a rendezvous: a ring
\* ends only after it was answered, and no ring is answered twice (the flag
\* is raised once, state_machine.cpp:335-345).
Rendezvous == Rings => met \in {0, 1}

\* After the last word firmware clears TXSTALL and waits until it is set again;
\* then the machine has taken every word (poll_fdebug, pio_registers.cpp:105).
StallMeansDrained ==
    \A i \in asked \cap fdebug.txstall : TxEmpty(sm[i])

\* That wait ends: a copying machine whose TXSTALL firmware waits for sets it,
\* unless its RX FIFO is full, it is stopped, or firmware gives it other work.
\* A stall of an injected instruction counts, too (state_machine.cpp:416-419).
DrainReported ==
    \A i \in Sms :
        (i \in asked /\ duty[i] = "copies" /\ sm[i].enabled)
            ~> (\/ i \in fdebug.txstall \/ RxFull(sm[i]) \/ ~sm[i].enabled
                \/ i \notin asked \/ duty[i] # "copies")

\* Machines with equal dividers that one CTRL write started with restarted
\* dividers stay in step until CLKDIV or CTRL separates them (write_ctrl,
\* pio_registers.cpp:24).
InPhase ==
    turn = NumSm => \A i, j \in phased : div[i] = div[j] => acc[i] = acc[j]

\* To enable a machine through the SET alias of CTRL restarts no machine:
\* "This is safe for configuration registers" (atomic_peripheral.h:10-12).
EnableKeepsOthers ==
    [][\A v \in Controls :
          WriteCtrl("set", v) /\ v.restart = {} /\ v.clkdiv = {}
              => \A i \in Sms : sm'[i] = [sm[i] EXCEPT !.enabled = sm'[i].enabled]]_vars
=============================================================================
