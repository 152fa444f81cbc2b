SPECIFICATION Spec

CONSTANTS
    Writers = {w1, w2}
    Bodies <- FourBodies
    Base = 2
    MaxPrefix = 3
    MaxRecord = 5
    LineEnd = 3
    MaxRecords = 4
    MaxTears = 2

SYMMETRY WriterSymmetry

INVARIANTS
    ReadsWhatWasStored
    LinesAreTheStreams
PROPERTIES
    FetchGrows
