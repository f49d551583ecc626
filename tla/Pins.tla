-------------------------------- MODULE Pins ---------------------------------
(***************************************************************************)
(* The pins and their interrupts: class Gpio of src/peripherals/gpio.cpp,  *)
(* IoBank0 of iobank0.cpp, the pulls of PadsBank0 and the GPIO registers   *)
(* of the SIO.  A pin shows what the function that is selected for it      *)
(* drives, or else what is outside, or else its pull; at the end of every  *)
(* step of the simulator the interrupt block samples all of them.          *)
(***************************************************************************)
EXTENDS Integers, Sequences, FiniteSets

CONSTANTS
    Pin,        \* the pins, one group of the interrupt registers
    Outputs,    \* bound: those that a function drives
    Ctrls,      \* bound: a pin, its function and overrides, as GPIOx_CTRL is written
    Enables,    \* bound: values of PROCx_INTE
    Acks,       \* bound: values written to INTR
    Traffic     \* bound: how often the pins and the interrupt registers change, and samples

VARIABLES
    io,         \* the three objects
    past        \* history: what was sampled, what acknowledged, and what may still happen

vars == <<io, past>>

Core == {0, 1}
Edges == Pin \X {"FALL", "RISE"}
Drivers == {"sio", "pwm"}       \* the functions that may drive; "none" for any other

-----------------------------------------------------------------------------
\* apply_override
Overridden(how, level) ==
    CASE how = "normal" -> level
      [] how = "invert" -> ~level
      [] how = "low" -> FALSE
      [] how = "high" -> TRUE

\* A driver's level or enable at a pin, low where no driver is selected: driver_index
Driven(by, p) == io.func[p] \in Drivers /\ p \in by[io.func[p]]

PadDriving(p) == Overridden(io.over[p].oe, Driven(io.oe, p))
PadLevel(p) == Overridden(io.over[p].out, Driven(io.out, p))

\* Without a pull-up the pin is low.
Level(p) ==
    CASE PadDriving(p) -> PadLevel(p)
      [] ~PadDriving(p) /\ io.ext[p] # "none" -> io.ext[p] = "high"
      [] OTHER -> io.pull[p] = "up"

\* irq_level: what the interrupt block sees, which IRQOVER may turn around
IrqLevel(p) == Overridden(io.over[p].irq, Level(p))

Plain == [out |-> "normal", oe |-> "normal", irq |-> "normal"]

\* The part that a reset of IO_BANK0 clears; the functions lose their drivers.
Cleared(pend) ==
    [func |-> [p \in Pin |-> "none"], over |-> [p \in Pin |-> Plain],
     intr |-> {}, inte |-> [c \in Core |-> {}], intf |-> [c \in Core |-> {}],
     prev |-> {}, primed |-> FALSE, pend |-> pend, touched |-> [c \in Core |-> FALSE]]

Outside ==
    [out |-> [d \in Drivers |-> {}], oe |-> [d \in Drivers |-> {}],
     pull |-> [p \in Pin |-> "down"], ext |-> [p \in Pin |-> "none"]]

Both(bank, rest) ==
    [f \in DOMAIN bank \cup DOMAIN rest |-> IF f \in DOMAIN bank THEN bank[f] ELSE rest[f]]

\* samples is what the block has seen since it was reset, told the number of samples that
\* an edge had behind it when it was last acknowledged, left what may still happen.
Unsampled == [samples |-> <<>>, told |-> [e \in Edges |-> 0]]

Init ==
    /\ io = Both(Cleared([c \in Core |-> FALSE]), Outside)
    /\ past \in {Both(Unsampled, [left |-> t]) : t \in Traffic}

-----------------------------------------------------------------------------
Cause(i, c) == (i.intr \cup i.intf[c]) \cap i.inte[c] # {}

\* refresh_irq, on both cores
RefreshIrq(i) == [i EXCEPT !.pend = [c \in Core |-> Cause(i, c)], !.touched = [c \in Core |-> FALSE]]

LevelBits(high) == (high \X {"HIGH"}) \cup ((Pin \ high) \X {"LOW"})

\* poll: edges stay until they are acknowledged, levels are those of now.
Latched(high) ==
    LET rising == IF io.primed THEN high \ io.prev ELSE {}
        falling == IF io.primed THEN io.prev \ high ELSE {}
    IN  (io.intr \cap Edges) \cup LevelBits(high) \cup (rising \X {"RISE"}) \cup (falling \X {"FALL"})

Poll ==
    LET high == {p \in Pin : IrqLevel(p)}
    IN  /\ past.left.samples > 0
        /\ io' = RefreshIrq([io EXCEPT !.intr = Latched(high), !.prev = high, !.primed = TRUE])
        /\ past' = [past EXCEPT !.samples = Append(@, high), !.left.samples = @ - 1]

-----------------------------------------------------------------------------
\* What moves a pin: its CTRL register, a driver, its pad and the world outside
Moved(new) ==
    /\ past.left.moves > 0
    /\ io' = new
    /\ past' = [past EXCEPT !.left.moves = @ - 1]

WriteCtrl == \E c \in Ctrls : Moved([io EXCEPT !.func[c.pin] = c.func, !.over[c.pin] = c.over])

\* GPIO_OUT and GPIO_OE of the SIO with their SET, CLR and XOR registers, and the outputs
\* of the PWM
Flip(p, pins) == IF p \in pins THEN pins \ {p} ELSE pins \cup {p}
Drive ==
    \E d \in Drivers, p \in Outputs :
        \/ Moved([io EXCEPT !.out[d] = Flip(p, @)])
        \/ Moved([io EXCEPT !.oe[d] = Flip(p, @)])

\* GPIOx of PADS_BANK0: PUE and PDE; without a pull a pin reads as with one down.
WritePad == \E p \in Pin, pull \in {"down", "up"} : Moved([io EXCEPT !.pull[p] = pull])

\* set_external and clear_external, by the user of the laboratory
SetExternal == \E p \in Pin, e \in {"none", "low", "high"} : Moved([io EXCEPT !.ext[p] = e])

-----------------------------------------------------------------------------
\* The interrupt registers
Written(new) ==
    /\ past.left.writes > 0
    /\ io' = RefreshIrq(new)
    /\ past' = [past EXCEPT !.left.writes = @ - 1]

WriteEnables == \E c \in Core, e \in Enables : Written([io EXCEPT !.inte[c] = e])
WriteForce == \E c \in Core, e \in Enables \cup {{}} : Written([io EXCEPT !.intf[c] = e])

\* AtomicPeripheral: a write through an alias is one of the register's value changed.
Combined(alias, old, value) ==
    CASE alias = "plain" -> value
      [] alias = "set" -> old \cup value
      [] alias = "clr" -> old \ value
      [] alias = "xor" -> (old \ value) \cup (value \ old)

\* INTR: the edges that are written are acknowledged; through SET all of them, and through
\* CLR those that were not named.
Acknowledge ==
    \E a \in Acks, alias \in {"plain", "set", "clr", "xor"} :
        LET value == Combined(alias, io.intr, a)
        IN  /\ past.left.writes > 0
            /\ io' = RefreshIrq([io EXCEPT !.intr = @ \ (value \cap Edges)])
            /\ past' = [past EXCEPT !.left.writes = @ - 1,
                            !.told = [e \in Edges |-> IF e \in value THEN Len(past.samples) ELSE @[e]]]

EnterHandler ==
    \E c \in Core :
        /\ io.pend[c]
        /\ io' = [io EXCEPT !.pend[c] = FALSE, !.touched[c] = ~@]
        /\ UNCHANGED past

\* Cpu::reset of one core, which AIRCR or the watchdog asks for
ResetCore ==
    \E c \in Core :
        /\ io' = [io EXCEPT !.pend[c] = FALSE, !.touched[c] = @ # io.pend[c]]
        /\ UNCHANGED past

\* NVIC_ISPR and NVIC_ICPR: firmware turns the pending bit of its core around.
WriteNvic ==
    \E c \in Core :
        /\ io' = [io EXCEPT !.pend[c] = ~@, !.touched[c] = ~@]
        /\ UNCHANGED past

\* reset of IO_BANK0 or of PADS_BANK0, by the watchdog
ResetBank ==
    /\ past.left.writes > 0
    /\ io' = RefreshIrq(Both(Cleared(io.pend), io))
    /\ past' = Both(Unsampled, [past EXCEPT !.left.writes = @ - 1])
ResetPads == Moved([io EXCEPT !.pull = [p \in Pin |-> "down"]])

Rest == past.left.samples = 0 /\ UNCHANGED vars

Next ==
    \/ Poll \/ WriteCtrl \/ Drive \/ WritePad \/ SetExternal
    \/ WriteEnables \/ WriteForce \/ Acknowledge \/ EnterHandler \/ ResetCore \/ WriteNvic
    \/ ResetBank \/ ResetPads \/ Rest

-----------------------------------------------------------------------------
\* An edge is latched if and only if two samples that follow each other differ in the pin's
\* level and it was not acknowledged since, on whichever core; the level bits are those of
\* the last sample.
Accounted ==
    /\ \A e \in Edges :
        e \in io.intr <=>
            \E i \in past.told[e] + 1..Len(past.samples) :
                /\ i > 1
                /\ (e[1] \in past.samples[i]) = (e[2] = "RISE")
                /\ (e[1] \in past.samples[i]) # (e[1] \in past.samples[i - 1])
    /\ past.samples # <<>> => io.intr \ Edges = LevelBits(past.samples[Len(past.samples)])

\* As the interrupt block leaves it, the line of each core is pending if and only if what
\* that core enabled has a cause; the bit differs only while that core's handler entry, its
\* reset or its NVIC has changed it since.
LineFollowsCause == \A c \in Core : ~io.touched[c] => (io.pend[c] <=> Cause(io, c))
=============================================================================
