SPECIFICATION Spec
CONSTANTS
    SeqNumbers = 4
    Retries = 1
    MaxWire = 3
    MaxLag = 3
INVARIANTS
    AnswerIsOwn
    ConfirmedOff
PROPERTIES
    ServiceKept
    RequestEnds
