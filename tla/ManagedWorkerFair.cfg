SPECIFICATION FairSpec
CONSTANTS
    a = a
    b = b
    r1 = r1
    r2 = r2
    r3 = r3
    Model = {a}
    Request = {r1, r2}
    Loader = {1, 2}
    ModelOf <- MCModelOf
    Size <- MCSize
    Kind <- MCKind
    Tokens <- MCTokens
    TotalMemory = 3
    SafetyReserve = 1
    max_queue_depth = 2
    max_batch_size = 1
    max_batch_tokens = 2
    Unloads = {}
    IdleEviction = TRUE
    RuntimeMayFail = TRUE
    MaxStarts = 1
    MaxLoads = 2
CHECK_DEADLOCK FALSE
PROPERTIES
    TerminalIsFinal
    WorkEnds
