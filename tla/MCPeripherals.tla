---------------------------- MODULE MCPeripherals ----------------------------
(***************************************************************************)
(* Small units: words, counters and characters of few values, and firmware *)
(* that uses a handful of settings.                                        *)
(***************************************************************************)
EXTENDS Peripherals, TLC

CONSTANT
    Changes     \* bound: settings written after a port has been set up

-----------------------------------------------------------------------------
\* One character bit and up to three more, divisors in halves
MCUartSettings ==
    {[en |-> TRUE, ibrd |-> 1, imsc |-> {"RX", "OE"}], [en |-> FALSE], [imsc |-> {"TX", "FE"}],
     [txe |-> FALSE, rxe |-> FALSE], [txe |-> TRUE, rxe |-> TRUE],
     [ibrd |-> 0], [fbrd |-> 1],
     [brk |-> TRUE, pen |-> TRUE, stp2 |-> FALSE, wlen |-> 0],
     [brk |-> FALSE, pen |-> FALSE, stp2 |-> TRUE, wlen |-> 1],
     [txdma |-> TRUE, rxdma |-> TRUE]}
MCUartTraffic == {[written |-> 3, fed |-> 0, changes |-> Changes + 1],
                [written |-> 1, fed |-> 3, changes |-> Changes + 1]}

\* The four SPI modes, frames of one bit and two
MCSpiSettings ==
    {[sse |-> TRUE, cpsdvsr |-> 2, size |-> 2, cpol |-> p, cpha |-> h] : p \in BOOLEAN, h \in BOOLEAN}
        \cup {[sse |-> FALSE], [imsc |-> {"RX"}], [imsc |-> {"TX"}], [lbm |-> TRUE],
              [size |-> 1, cpha |-> TRUE], [scr |-> 1], [cpsdvsr |-> 1], [txdma |-> TRUE, rxdma |-> TRUE]}
MCSpiTraffic == {[written |-> 2, changes |-> Changes + 1]}

\* Device 1, which seven bits do not tell from address 3
Con(device, ten) == [fast |-> TRUE, ten |-> ten, tenSlave |-> ten, device |-> device]
MCI2cSettings ==
    {[en |-> TRUE, fst |-> 1, tar |-> 1], [en |-> FALSE], [fst |-> 0], [tar |-> 3],
     [con |-> Con(TRUE, FALSE), sar |-> 1], [con |-> Con(TRUE, TRUE), sar |-> 3],
     [mask |-> {"RX_FULL", "RD_REQ"}], [mask |-> {"TX_ABRT", "STOP_DET"}],
     [txdma |-> TRUE, rxdma |-> TRUE]}
MCI2cTraffic == {[queued |-> 3, polled |-> 0, changes |-> Changes + 1],
               [queued |-> 1, polled |-> 3, changes |-> Changes + 1]}

\* Words of one bit: the count carries into its high word at every other tick.
MCTimerTraffic == {[writes |-> 3, reads |-> 0], [writes |-> 1, reads |-> 2]}

\* Both ways of counting, every way of pacing
MCModes == {[en |-> TRUE, ph |-> FALSE, invA |-> FALSE, mode |-> "free"],
             [en |-> TRUE, ph |-> TRUE, invA |-> TRUE, mode |-> "free"],
             [en |-> FALSE, ph |-> TRUE, invA |-> FALSE, mode |-> "level"],
             [en |-> TRUE, ph |-> FALSE, invA |-> FALSE, mode |-> "rise"],
             [en |-> TRUE, ph |-> TRUE, invA |-> FALSE, mode |-> "fall"]}

\* The ends of a century without and with a leap day, of months, and times that are none
At(y, m, d) == [year |-> y, month |-> m, day |-> d, dotw |-> 6, hour |-> 0, min |-> 0, sec |-> 1]
MCTimes == {At(1999, 12, 31), At(1900, 2, 28), At(2000, 2, 28), At(2023, 2, 27), At(2024, 4, 30),
             At(2024, 2, 31), At(2024, 0, 0), [At(2023, 15, 0) EXCEPT !.sec = 63]}
MCDates == {("year" :> 2000 @@ "month" :> 2 @@ "day" :> 29),
             ("year" :> 2000 @@ "month" :> 1 @@ "day" :> 1), ("day" :> 1)}
MCMoments == {("hour" :> 0 @@ "min" :> 0 @@ "sec" :> 1), ("hour" :> 0 @@ "min" :> 0 @@ "sec" :> 0),
               ("dotw" :> 0)}

\* One pin that functions drive and one with a button, whose interrupt may be turned around
How(out, oe, irq) == [out |-> out, oe |-> oe, irq |-> irq]
MCCtrls == {[pin |-> 0, func |-> "sio", over |-> How("normal", "normal", "normal")],
             [pin |-> 0, func |-> "pwm", over |-> How("invert", "normal", "high")],
             [pin |-> 0, func |-> "none", over |-> How("high", "high", "low")],
             [pin |-> 1, func |-> "none", over |-> How("normal", "invert", "invert")]}
MCEnables == {{<<1, "RISE">>}, {<<0, "FALL">>, <<1, "HIGH">>}}
MCAcks == {{<<1, "RISE">>}, {<<0, "FALL">>, <<1, "LOW">>}}
MCPinTraffic == {[moves |-> 2, writes |-> 1, samples |-> 3], [moves |-> 1, writes |-> 2, samples |-> 2]}

\* Enough for both ends of a window and two pixels, and to fill the whole panel and go on
MCTftTraffic == {[commands |-> 3, bytes |-> 8], [commands |-> 1, bytes |-> 10]}

MCErrors == {{}, {"FE"}}
MCDivs == {<<0, 0>>, <<2, 0>>, <<2, 1>>}
MCMasks == {{}, {0, 1, 2}, {0, 2}}
MCPrimValues == {6 * 2^16 + 2 * 2^12}
MCCtrlValues == {0, 1, 3 * 32 + 1}
MCLoads == 0..5
=============================================================================
