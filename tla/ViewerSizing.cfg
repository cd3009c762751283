SPECIFICATION Spec
CONSTANTS
    w = w
    s = s
    k = k
    p = p
    WebSockets = {w}
    Streams = {s}
    Consoles = {k}
    Posters = {p}
    Starts <- MCStarts
    Sizes <- MCSizes
    Default <- MCDefault
    Word = 8
    MaxOverlap = 2
INVARIANTS
    TypeOK
    FitsSmallest
    ReportedIsReal
    ViewersMatchSessions
PROPERTIES
    AnswersAreReal
CHECK_DEADLOCK FALSE
