SPECIFICATION Spec
CONSTANTS
    a = a
    b = b
    c = c
    Readers <- MCReaders
    Queries = {2}
    Relay = TRUE
    MaxChunks = 2
    MaxStatus = 1
INVARIANTS
    ScreenInOrder
CHECK_DEADLOCK FALSE
