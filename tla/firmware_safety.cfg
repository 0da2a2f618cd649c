SPECIFICATION FwSpec
CONSTANTS
    N = 1
    Policy = "always-on-owner"
    RebootOnTimeout = TRUE
    ShortRebootDelay = FALSE
    GpioMayFail = TRUE
    ScheduleMayFail = TRUE
    RelayInitMayFail = TRUE
    WatchdogMayFail = TRUE
    smp = smp
    Callers = {smp}
    SmpThread = smp
INVARIANT FwInv
INVARIANT PromiseIsBacked
INVARIANT OnlyFaultsStarve
