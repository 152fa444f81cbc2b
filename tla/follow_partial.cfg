SPECIFICATION Spec

CONSTANTS
    Outputs = {0, 1}
    Marker = 3
    MaxEnds = 1
    StepRef = 0
    MaxFrames = 3
    MaxRestarts = 0

INVARIANT
    NothingMissed
