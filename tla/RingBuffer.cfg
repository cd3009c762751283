SPECIFICATION Spec
CONSTANTS
    Requested = 5
    MaxWrite = 8
    MaxTotal = 60
INVARIANTS
    HoldsLatest
CHECK_DEADLOCK FALSE
