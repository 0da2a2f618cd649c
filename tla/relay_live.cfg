SPECIFICATION FairSpec
CONSTANTS
    N = 1
    Policy = "always-on-owner"
    RebootOnTimeout = TRUE
    ShortRebootDelay = FALSE
    GpioMayFail = TRUE
    ScheduleMayFail = TRUE
    smp = smp
    Callers = {smp}
INVARIANT RebootBookkeeping
PROPERTY PulseEnds
PROPERTY RebootIsResolved
PROPERTY SilentHostTurnsOff
