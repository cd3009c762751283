SPECIFICATION FairSpec
CONSTANTS
    c1 = c1
    c2 = c2
    Clients <- MCClients
    Attentive <- MCAttentive
    Buffer = 1
    Scrollback = 1
    MaxOutput = 1
PROPERTIES
    EveryStreamEnds
CHECK_DEADLOCK FALSE
