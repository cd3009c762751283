SPECIFICATION FairSpec
CONSTANTS
    s1 = s1
    s2 = s2
    r1 = r1
    Streams <- MCStreams
    Requests <- MCRequests
    RetryMin = 2
    RetryMax = 5
    MaxConns = 2
INVARIANTS
    TypeOK
    TableMatchesStreams
PROPERTIES
    RequestsAreAnswered
    RegisteredStreamsEnd
    DialsAgain
    EverythingStops
CHECK_DEADLOCK FALSE
