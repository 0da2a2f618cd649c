SPECIFICATION Spec
CONSTANTS
    MaxRequests = 2
    MaxUptime = 1
    SelectorType = "serial"
    InstanceReadable = TRUE
    WaitDevice = TRUE
    LinkMayFail = TRUE
    ConfigMayBreak = TRUE
    RebootMayFail = TRUE
INVARIANT ConnectionInv
INVARIANT RecoveryIsFresh
PROPERTY OffAllIsLast
CHECK_DEADLOCK FALSE
