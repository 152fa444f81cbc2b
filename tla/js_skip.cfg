SPECIFICATION Spec

CONSTANTS
    NumSteps = 2
    MaxConns = 2
    NumFrames = 4
    MaxFaults = 0
    BodyLen <- Bodies
    Named = TRUE
    MaxStreamBytes = 0
    AmbiguousWrite = FALSE
    DiskErrors = FALSE

INVARIANTS
    NothingSkipped
