SPECIFICATION Spec
CONSTANTS
    w = w
    s = s
    k = k
    p = p
    WebSockets = {w}
    Streams = {}
    Consoles = {k}
    Posters = {}
    Starts <- MCStarts
    Sizes <- MCSizes
    Default <- MCDefault
    Word = 8
    MaxOverlap = 2
INVARIANTS
    FollowsSmallest
CHECK_DEADLOCK FALSE
