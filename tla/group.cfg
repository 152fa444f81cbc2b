SPECIFICATION Spec

CONSTANTS
    Legs = {l1, l2}
    Envs <- Environments
    MaxClock = 2
    MaxLines = 3
    MaxTears = 1
    TTL = 1

SYMMETRY LegSymmetry

INVARIANTS
    LostPerTear
    WatcherFinds
    LegsApart
PROPERTIES
    ListingStable
