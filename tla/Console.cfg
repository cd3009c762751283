SPECIFICATION FairSpec
CONSTANTS
    a = a
    b = b
    c = c
    Readers <- MCReaders
    Queries = {2}
    Relay = TRUE
    MaxChunks = 3
    MaxStatus = 1
INVARIANTS
    TypeOK
    GoroutinesAccounted
    NothingMissing
PROPERTIES
    OutputIsDrawn
    ExitEndsConsole
CHECK_DEADLOCK FALSE
