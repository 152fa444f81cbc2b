SPECIFICATION ClientFairSpec

CONSTANTS
    NumSteps = 1
    MaxConns = 1
    NumFrames = 1
    MaxFaults = 0
    BodyLen <- Bodies
    Named = TRUE
    MaxStreamBytes = 0
    AmbiguousWrite = FALSE
    DiskErrors = FALSE

PROPERTIES
    WaitEnds
