SPECIFICATION Spec
CONSTANTS
    a = a
    b = b
    Request = {a, b}
    Prompt <- MCPrompt
    Estimate <- MCEstimate
    MaxNew <- MCMaxNew
    MaxActive = 2
    MaxBatch = 2
    Policy = "balanced"
    ChunkSize = 0
    MaxEntries = 2
    MaxCached = 3
    Block = {1, 2, 3, 4, 5}
    BlockSize = 2
    Interruptible = {a}
    Faults = TRUE
    SnapshotFaults = TRUE
CHECK_DEADLOCK FALSE
INVARIANTS
    EngineInv
    StreamsEndOnce
    FailsOnlyOnBackendFault
PROPERTIES
    InterruptedIsSilent
