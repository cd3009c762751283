SPECIFICATION FairSpec
CONSTANTS
    t1 = t1
    t2 = t2
    t3 = t3
    Terminals <- MCTerminals
    Own = {t1}
    Max = 1
    MaxConcurrent = 2
INVARIANTS
    TypeOK
    NoLostShell
    BoundedOvershoot
    ShutdownEndsShells
PROPERTIES
    RemovedShellsDie
    QuietTerminalsGo
    DeadTerminalsGo
CHECK_DEADLOCK FALSE
