SPECIFICATION Spec
CONSTANTS
    N = 2
    Policy = "energized-only"
    RebootOnTimeout = FALSE
    ShortRebootDelay = FALSE
    GpioMayFail = TRUE
    ScheduleMayFail = FALSE
    smp = smp
    shell = shell
    Callers = {smp, shell}
SYMMETRY CallerSymmetry
INVARIANT RelayInv
INVARIANT PulseIsTimed
INVARIANT LeaseIsHeld
INVARIANT OutputsFollowMask
INVARIANT OwnerLossMeansOff
