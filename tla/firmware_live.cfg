SPECIFICATION FwFairSpec
CONSTANTS
    N = 1
    Policy = "energized-only"
    RebootOnTimeout = FALSE
    ShortRebootDelay = FALSE
    GpioMayFail = TRUE
    ScheduleMayFail = FALSE
    RelayInitMayFail = FALSE
    WatchdogMayFail = FALSE
    smp = smp
    Callers = {smp}
    SmpThread = smp
PROPERTY FaultIsReset
PROPERTY HostRebootResolves
PROPERTY SilentBoardIsOff
