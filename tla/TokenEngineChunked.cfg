SPECIFICATION FairSpec
CONSTANTS
    a = a
    b = b
    Request = {a, b}
    Prompt <- MCPrompt
    Estimate <- RoughEstimate
    MaxNew <- MCMaxNew
    MaxActive = 2
    MaxBatch = 1
    Policy = "prefill_first"
    ChunkSize = 2
    MaxEntries = 0
    MaxCached = 0
    Block = {1, 2, 3, 4, 5}
    BlockSize = 2
    Interruptible = {a}
    Faults = TRUE
    SnapshotFaults = FALSE
CHECK_DEADLOCK FALSE
INVARIANTS
    BlocksCoverTokens
PROPERTIES
    EveryStreamEnds
    ShutdownCompletes
