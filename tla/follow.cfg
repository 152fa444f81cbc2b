SPECIFICATION FairSpec

CONSTANTS
    Outputs = {0, 1}
    Marker = 3
    MaxEnds = 1
    StepRef = 1
    MaxFrames = 3
    MaxRestarts = 1

INVARIANTS
    TypeOK
    PrintedAsFetched
    StepsAgree
PROPERTIES
    RewindsOnRestartOnly
    CatchesUp
