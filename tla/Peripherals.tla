----------------------------- MODULE Peripherals -----------------------------
(***************************************************************************)
(* The serial ports, the timers, the PWM, the ADC, the pins, the clocks    *)
(* and the displays, each with firmware that sets it up, uses it and       *)
(* changes its mind a few times.  They share no state, so a behaviour is   *)
(* that of one unit: dev is its object and past its history.               *)
(***************************************************************************)
EXTENDS Integers, Sequences

CONSTANTS
    Depth,                                                      \* of every FIFO
    DataBits, Frac, Over, Errors, UartTraffic, UartSettings,    \* of Uart
    FrameSizes, SpiTraffic, SpiSettings,                        \* of Spi
    BitsOfByte, Addresses, SevenBits, Device, Stretch, I2cTraffic, I2cSettings,
    Word, Alarms, TickPeriods, TimerTraffic,                    \* of Timer
    WatchdogPeriods, Loads, WatchdogWrites,                     \* of Watchdog
    Reloads, SysTickWrites,                                     \* of SysTick
    Count, Parts, Tops, Levels, Divs, Modes, PwmWrites,         \* of Pwm
    Channels, FifoDepth, Sar, Masks, AdcWrites, Samples,        \* of Adc
    Minute, Hour, Day, RtcDivs, Times, Dates, Moments, Horizon, RtcWrites,
    Pin, DrivenPins, Ctrls, Enables, Acks, PinTraffic,        \* of Pins
    CsValues, PwrValues, FbdivValues, PrimValues, CtrlValues, DivValues, TickValues, ClockWrites,
    Width, Height, Base, TftTraffic,                            \* of St7789
    Columns, Pages, Parameters, Bytes, Controls                 \* of Ssd1306

\* The sizes are numbers, and firmware writes the fields that a register has with the values
\* they can hold: settings are the fields that a write of all the registers changes.
ASSUME UartAssumption == Depth \in Nat \ {0} /\ DataBits \in Nat /\ Frac \in Nat /\ Over \in Nat
ASSUME ErrorsAssumption == Errors \subseteq SUBSET {"FE", "PE", "BE"}
ASSUME UartSettingsAssumption ==
    \A s \in UartSettings : \A f \in DOMAIN s :
        \/ f \in {"en", "txe", "rxe", "brk", "pen", "stp2", "txdma", "rxdma"} /\ s[f] \in BOOLEAN
        \/ f \in {"wlen", "ibrd", "fbrd"} /\ s[f] \in Nat
        \/ f = "imsc" /\ s[f] \subseteq {"RX", "TX", "FE", "PE", "BE", "OE", "RT"}
ASSUME SpiSettingsAssumption ==
    \A s \in SpiSettings : \A f \in DOMAIN s :
        \/ f \in {"cpol", "cpha", "sse", "lbm", "txdma", "rxdma"} /\ s[f] \in BOOLEAN
        \/ f \in {"scr", "cpsdvsr"} /\ s[f] \in Nat
        \/ f = "size" /\ s[f] \in Nat \ {0}
        \/ f = "imsc" /\ s[f] \subseteq {"RX", "TX"}
ASSUME I2cSettingsAssumption ==
    \A s \in I2cSettings : DOMAIN s \subseteq {"con", "tar", "sar", "en", "std", "fst", "mask", "txdma", "rxdma"}
ASSUME WordAssumption == Word \in Nat /\ Word > 1
ASSUME PeriodsAssumption == TickPeriods \subseteq Nat \ {0}
ASSUME AlarmsAssumption ==
    /\ \A d \in Dates : DOMAIN d \subseteq {"year", "month", "day"} /\ \A f \in DOMAIN d : d[f] \in Nat
    /\ \A m \in Moments : DOMAIN m \subseteq {"hour", "min", "sec", "dotw"} /\ \A f \in DOMAIN m : m[f] \in Nat
ASSUME WatchdogAssumption == WatchdogPeriods \subseteq Nat \ {0} /\ Loads \subseteq Nat
ASSUME ReloadsAssumption == Reloads \subseteq Nat
ASSUME SarAssumption == Sar \in Nat
ASSUME AdcAssumption ==
    Channels \in Nat \ {0} /\ FifoDepth \in Nat /\ Masks \subseteq SUBSET (0..Channels - 1)
ASSUME CountAssumption == Count \in Nat /\ Count > 1
ASSUME TopsAssumption == Tops \subseteq 0..(Count - 1) /\ Levels \subseteq 0..(Count - 1)
ASSUME ModesAssumption ==
    Modes \subseteq [en : BOOLEAN, ph : BOOLEAN, invA : BOOLEAN, mode : {"free", "level", "rise", "fall"}]
ASSUME ClockAssumption == Minute \in Nat \ {0} /\ Hour \in Nat \ {0} /\ Day \in Nat \ {0}
ASSUME TimesAssumption ==
    Times \subseteq [year : Nat, month : Nat, day : Nat, dotw : Nat, hour : Nat, min : Nat, sec : Nat]
\* Of a PLL's registers firmware writes the fields: the others of PWR are ones since the reset,
\* or written as zeroes.
ASSUME PllAssumption ==
    /\ CsValues \cup FbdivValues \cup PrimValues \cup PwrValues \subseteq Nat
    /\ \A v \in CsValues : v < 2^9
    /\ \A v \in FbdivValues : v < 2^12
    /\ \A v \in PrimValues : v < 2^19
    /\ \A v \in PwrValues : v < 64 \/ v \in 2147483584..2147483647
ASSUME GeneratorAssumption == CtrlValues \subseteq Int /\ DivValues \subseteq Int /\ TickValues \subseteq Nat
ASSUME PanelsAssumption ==
    {Width, Height, Columns, Pages} \subseteq Nat \ {0} /\ Base \in Nat /\ Parameters \subseteq Nat

VARIABLES unit, dev, past

vars == <<unit, dev, past>>

-----------------------------------------------------------------------------
U == INSTANCE Uart WITH uart <- dev, Traffic <- UartTraffic, Settings <- UartSettings
S == INSTANCE Spi WITH spi <- dev, Bits <- FrameSizes, Traffic <- SpiTraffic, Settings <- SpiSettings
C == INSTANCE I2c WITH i2c <- dev, Low <- SevenBits, Traffic <- I2cTraffic, Settings <- I2cSettings
T == INSTANCE Timer WITH timer <- dev, reader <- past, Periods <- TickPeriods, Traffic <- TimerTraffic
W == INSTANCE Watchdog WITH wd <- dev, writes <- past, Periods <- WatchdogPeriods, Writes <- WatchdogWrites
K == INSTANCE SysTick WITH syst <- dev, writes <- past, Writes <- SysTickWrites
P == INSTANCE Pwm WITH pwm <- dev, writes <- past, Writes <- PwmWrites
A == INSTANCE Adc WITH adc <- dev, Writes <- AdcWrites
R == INSTANCE Rtc WITH rtc <- dev, Divs <- RtcDivs, Writes <- RtcWrites
G == INSTANCE Pins WITH io <- dev, Outputs <- DrivenPins, Traffic <- PinTraffic
L == INSTANCE ClockTree WITH tree <- dev, Writes <- ClockWrites
D == INSTANCE St7789 WITH tft <- dev, Traffic <- TftTraffic
O == INSTANCE Ssd1306 WITH oled <- dev

-----------------------------------------------------------------------------
Init ==
    \/ unit = "uart" /\ U!Init
    \/ unit = "spi" /\ S!Init
    \/ unit = "i2c" /\ C!Init
    \/ unit = "timer" /\ T!Init
    \/ unit = "watchdog" /\ W!Init
    \/ unit = "systick" /\ K!Init
    \/ unit = "pwm" /\ P!Init
    \/ unit = "adc" /\ A!Init
    \/ unit = "rtc" /\ R!Init
    \/ unit = "pins" /\ G!Init
    \/ unit = "clocks" /\ L!Init
    \/ unit = "tft" /\ D!Init
    \/ unit = "oled" /\ O!Init

Next ==
    /\ UNCHANGED unit
    /\ \/ unit = "uart" /\ U!Next
       \/ unit = "spi" /\ S!Next
       \/ unit = "i2c" /\ C!Next
       \/ unit = "timer" /\ T!Next
       \/ unit = "watchdog" /\ W!Next
       \/ unit = "systick" /\ K!Next
       \/ unit = "pwm" /\ P!Next
       \/ unit = "adc" /\ A!Next
       \/ unit = "rtc" /\ R!Next
       \/ unit = "pins" /\ G!Next
       \/ unit = "clocks" /\ L!Next
       \/ unit = "tft" /\ D!Next
       \/ unit = "oled" /\ O!Next

\* The clock of a unit that something is expected of
Clock ==
    /\ UNCHANGED unit
    /\ \/ unit = "uart" /\ U!Clock
       \/ unit = "spi" /\ S!Clock
       \/ unit = "i2c" /\ C!Clock
       \/ unit = "timer" /\ T!Clock
       \/ unit = "watchdog" /\ W!Clock
       \/ unit = "adc" /\ A!Clock

Spec == Init /\ [][Next]_vars /\ WF_vars(Clock)

-----------------------------------------------------------------------------
\* Nothing that passes through a port or a FIFO is lost, doubled or reordered, but where
\* the unit says so or firmware has more under way than a FIFO holds; a device that samples
\* MOSI at its edge of SCK sees the bits of the word, no edge of a pin is missed, and a
\* display shows what it was sent.
Accounted ==
    CASE unit = "uart" -> U!Accounted
      [] unit = "spi" -> S!Accounted /\ S!SampledAsSent
      [] unit = "i2c" -> C!Accounted
      [] unit = "adc" -> A!Accounted
      [] unit = "pins" -> G!Accounted
      [] unit = "tft" -> D!Accounted
      [] unit = "oled" -> O!Accounted
      [] OTHER -> TRUE

\* What a unit leaves pending is what it has a cause for: no register write, no byte on the
\* wire and no tick forgets to refresh the line.  Until the unit's next refresh the core's
\* side may have changed the bit: a handler was entered, the core reset, or NVIC_ISPR or
\* NVIC_ICPR written; then nothing is said.  A wrap that PH_ADV makes waits for a clock.
LineFollowsCause ==
    CASE unit = "uart" -> U!LineFollowsCause
      [] unit = "spi" -> S!LineFollowsCause
      [] unit = "i2c" -> C!LineFollowsCause
      [] unit = "timer" -> T!LineFollowsCause
      [] unit = "pwm" -> P!LineFollowsCause
      [] unit = "adc" -> A!LineFollowsCause
      [] unit = "rtc" -> R!LineFollowsCause
      [] unit = "pins" -> G!LineFollowsCause
      [] OTHER -> TRUE

\* What firmware sets a time for happens at that time: the timer's alarms, the watchdog's
\* reset, SysTick's period, the conversions of the ADC and the alarm of the real-time
\* clock; and the paces of the peripherals follow the registers of the clocks.
OnTime ==
    CASE unit = "timer" -> T!OnTime
      [] unit = "watchdog" -> W!OnTime
      [] unit = "systick" -> K!OnTime
      [] unit = "adc" -> A!OnTime
      [] unit = "rtc" -> R!OnTime
      [] unit = "clocks" -> L!OnTime
      [] OTHER -> TRUE

\* The 64-bit time that is put together from two words was the time while it was read.
ReadsTime == unit = "timer" => T!ReadsTime

\* The PWM's periods, duty cycles and outputs are those its registers ask for.
DutyExact == unit = "pwm" => P!DutyExact

\* The real-time clock counts the days of the Gregorian calendar.
CalendarExact == unit = "rtc" => R!CalendarExact

\* What was begun ends: bytes queued get out, alarms ring, an unfed watchdog bites and
\* conversions complete, as long as firmware leaves the unit on.
Waiting ==
    CASE unit = "uart" -> U!Waiting
      [] unit = "spi" -> S!Waiting
      [] unit = "i2c" -> C!Waiting
      [] unit = "timer" -> T!Waiting
      [] unit = "watchdog" -> W!Waiting
      [] unit = "adc" -> A!Waiting
      [] OTHER -> FALSE
Served == Waiting ~> ~Waiting
=============================================================================
