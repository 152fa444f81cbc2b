SPECIFICATION FairSpec

CONSTANTS
    NumSteps = 2
    MaxFrames = 1
    Pieces = TRUE
    MaxFaults = 1
    ExecStreams = {0, 1}
    SendStream = 2
    Marker = 3
    Codes <- ExitCodes

INVARIANTS
    TypeOK
    EndIsLast
    ExitAgrees
    SectionsHoldTheirStep
    OnlyRestsAstray
PROPERTIES
    ProcessReturns
