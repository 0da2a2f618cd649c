SPECIFICATION Spec
CONSTANTS
    Daemons = {d1, d2}
    Clients = {c1, c2}
    Overlap = FALSE
    Occupied = {}
    MaxQueue = 2
INVARIANTS
    SocketInv
    StaleNeverBlocks
    SmokeLeavesOff
PROPERTIES
    CallsEnd
