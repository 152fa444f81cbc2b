SPECIFICATION Spec

CONSTANTS
    t1 = t1
    g1 = g1
    h1 = h1
    h2 = h2
    d1 = d1
    Tokens = {t1}
    Groups = {g1}
    Handlers = {h1, h2}
    Deleters = {d1}
    Sweeper = sweeper
    ShardOf <- OneShard
    BodySizes <- Sizes
    LineLen = 120
    MaxStreamBytes = 145
    MaxTotalBytes = 264
    MaxDiskErrors = 1

SYMMETRY HandlerSymmetry

INVARIANTS
    TypeOK
    LedgerExact
    LockDiscipline
    FoundIsCurrent
    OvershootBounded
