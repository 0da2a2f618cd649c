SPECIFICATION Spec
CONSTANTS
    Ports = {p1, p2}
    Attempts = 2
    JoinOutlasts = 1
    ReconnectAttempts = 2
    Pulses = 1
    MaxUptime = 1
INVARIANTS
    SessionInv
    DisconnectedIsSilent
PROPERTIES
    GuardedCloseIsSafe
    ReconnectIsFresh
    CommandEnds
    KeepsPolling
