SPECIFICATION Spec
CONSTANTS
    Daemons = {d1, d2}
    Clients = {c1}
    Overlap = TRUE
    Occupied = {}
    MaxQueue = 1
PROPERTY RefusedStartIsHarmless
