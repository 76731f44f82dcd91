SPECIFICATION Spec
CONSTANTS
    a = a
    b = b
    r1 = r1
    r2 = r2
    r3 = r3
    Model = {a, b}
    Request = {r1}
    Loader = {1, 2}
    ModelOf <- MCModelOf
    Size <- MCSize
    Kind <- MCKind
    Tokens <- MCTokens
    TotalMemory = 3
    SafetyReserve = 1
    max_queue_depth = 2
    max_batch_size = 2
    max_batch_tokens = 2
    Unloads = {a}
    IdleEviction = TRUE
    RuntimeMayFail = TRUE
    MaxStarts = 1
    MaxLoads = 2
CHECK_DEADLOCK FALSE
INVARIANTS
    WorkerInv
