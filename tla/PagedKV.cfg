SPECIFICATION PoolSpec
CONSTANTS
    o1 = o1
    o2 = o2
    o3 = o3
    Owner <- MCOwner
    TotalBlocks = 3
    BlockSize = 2
    HighBlocks = 3
    LowBlocks = 1
    MaxTokens = 7
    MaxFailures = 1
    Junk = Junk
SYMMETRY OwnerSymmetry
INVARIANTS
    TypeOK
    BlockAccounting
    PressureTracksUse
    MaterializesWhatWasAppended
PROPERTIES
    PressureDoesNotFlap
    ImplementsOwnership
CHECK_DEADLOCK FALSE
