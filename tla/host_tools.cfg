SPECIFICATION MCSpec
CONSTANTS
    CommandJobs <- MCCommandJobs
    ResolveJobs <- MCResolveJobs
INVARIANTS
    ExitTellsCause
    LayersAgree
    OpensNamedDevice
    SameSocket
    DecodesOrRaises
CHECK_DEADLOCK FALSE
