SPECIFICATION Spec

CONSTANTS
    NumSteps = 2
    MaxConns = 3
    NumFrames = 3
    MaxFaults = 2
    BodyLen <- Bodies
    Named = TRUE
    MaxStreamBytes = 0
    AmbiguousWrite = FALSE
    DiskErrors = FALSE

INVARIANTS
    TypeOK
    OrderWithinConnection
    NoRepeat
    ConfirmedBeforeNext
    DrainedOrRetired
    FirstStepComplete
PROPERTIES
    DeliversAtMostOnce
