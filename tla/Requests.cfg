SPECIFICATION FairSpec
CONSTANTS
    Configs <- MCConfigs
    Keys <- MCKeys
    Replies <- MCReplies
    Typed <- MCTyped
    Asks <- MCAsks
    Tree <- MCTree
    Home <- MCHome
    Cwd <- MCCwd
    RawRoots <- MCRoots
    MaxLinks = 2
    MaxUnits = 2
    MaxOutput = 1
INVARIANTS
    TypeOK
    RequestsAreAllowed
    CommandsAreAllowed
    SurvivorsAreJobs
    ResultsAreKept
    FilterIsExact
    KeysAreDistinct
PROPERTIES
    RunIsAnswered
CHECK_DEADLOCK FALSE
