SPECIFICATION Spec
CONSTANTS
    c1 = c1
    c2 = c2
    Clients <- MCClients
    Attentive = {}
    Buffer = 1
    Scrollback = 1
    MaxOutput = 1
INVARIANTS
    NoSendOnClosed
CHECK_DEADLOCK FALSE
