SPECIFICATION FairSpec

CONSTANTS
    ChunkSize = 3
    MaxReads = 4
    SendFails = TRUE

INVARIANTS
    TypeOK
    TimerMatches
    NothingLost
    FrameBound
    StampsOrdered
PROPERTIES
    PromptGetsThrough
