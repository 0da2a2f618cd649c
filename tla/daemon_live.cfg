SPECIFICATION FairSpec
CONSTANTS
    MaxRequests = 1
    MaxUptime = 1
    SelectorType = "port"
    InstanceReadable = FALSE
    WaitDevice = TRUE
    LinkMayFail = FALSE
    ConfigMayBreak = FALSE
    RebootMayFail = FALSE
PROPERTY LinesAreAnswered
PROPERTY ShutdownEnds
PROPERTY ReconnectsToBoard
CHECK_DEADLOCK FALSE
