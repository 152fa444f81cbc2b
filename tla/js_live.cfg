SPECIFICATION FairSpec

CONSTANTS
    NumSteps = 1
    MaxConns = 2
    NumFrames = 3
    MaxFaults = 2
    BodyLen <- Bodies
    Named = TRUE
    MaxStreamBytes = 100
    AmbiguousWrite = TRUE
    DiskErrors = TRUE

INVARIANTS
    StoredPrefix
    ClosedIsDrained
PROPERTIES
    WaitEnds
    HandlerEnds
