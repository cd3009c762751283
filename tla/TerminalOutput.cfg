SPECIFICATION FairSpec
CONSTANTS
    c1 = c1
    c2 = c2
    Clients <- MCClients
    Attentive <- MCAttentive
    Buffer = 1
    Scrollback = 1
    MaxOutput = 2
INVARIANTS
    TypeOK
    InOrder
    NothingLost
    NoDoubleClose
    EndMeansExited
PROPERTIES
    ImplementsStream
    OutputDrains
    StreamsEnd
CHECK_DEADLOCK FALSE
