SPECIFICATION FairSpec
CONSTANTS
    MaxRequests = 1
    MaxUptime = 1
    SelectorType = "serial"
    InstanceReadable = TRUE
    WaitDevice = TRUE
    LinkMayFail = FALSE
    ConfigMayBreak = FALSE
    RebootMayFail = FALSE
CHECK_DEADLOCK FALSE
PROPERTY ReconnectsAfterReboot
