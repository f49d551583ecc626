SPECIFICATION Spec
CONSTANTS
    Changes = 1
    Depth = 1
    DataBits = 0
    Frac = 2
    Over = 1
    Errors <- MCErrors
    UartTraffic <- MCUartTraffic
    UartSettings <- MCUartSettings
    FrameSizes = {1, 2}
    SpiTraffic <- MCSpiTraffic
    SpiSettings <- MCSpiSettings
    BitsOfByte = 1
    Addresses = {1, 3}
    SevenBits = 2
    Device = 1
    Stretch = {1}
    I2cTraffic <- MCI2cTraffic
    I2cSettings <- MCI2cSettings
    Word = 2
    Alarms = {0, 1}
    TickPeriods = {1, 2}
    TimerTraffic <- MCTimerTraffic
    WatchdogPeriods = {1, 3}
    Loads <- MCLoads
    WatchdogWrites = 4
    Reloads = {0, 1, 3}
    SysTickWrites = 4
    Count = 4
    Parts = 2
    Tops = {0, 2, 3}
    Levels = {0, 2, 3}
    Divs <- MCDivs
    Modes <- MCModes
    PwmWrites = 3
    Channels = 3
    FifoDepth = 2
    Sar = 2
    Masks <- MCMasks
    AdcWrites = 3
    Samples = 4
    Minute = 2
    Hour = 1
    Day = 1
    RtcDivs = {0, 1}
    Times <- MCTimes
    Dates <- MCDates
    Moments <- MCMoments
    Horizon = 4
    RtcWrites = 4
    Pin = {0, 1}
    DrivenPins = {0}
    Ctrls <- MCCtrls
    Enables <- MCEnables
    Acks <- MCAcks
    PinTraffic <- MCPinTraffic
    CsValues = {0, 256}
    PwrValues = {0, 1, 2147483606}
    FbdivValues = {124, 125}
    PrimValues <- MCPrimValues
    CtrlValues <- MCCtrlValues
    DivValues = {256, 225}
    TickValues = {0, 24}
    ClockWrites = 2
    Width = 2
    Height = 2
    Base = 2
    TftTraffic <- MCTftTraffic
    Columns = 3
    Pages = 2
    Parameters = {0, 1, 5}
    Bytes = 9
    Controls = 3
INVARIANTS Accounted LineFollowsCause OnTime ReadsTime DutyExact CalendarExact
PROPERTIES Served
