SPECIFICATION BackendSpec
CONSTANTS
    a = a
    b = b
    Sequence = {a, b}
    Prompt <- MCPrompt
    Vocabulary = {8, 9}
    MaxNew = 3
    Slot = {1}
    None = None
CHECK_DEADLOCK FALSE
INVARIANTS
    SampledFromOwnHistory
    CacheSpellsSequence
    SnapshotsFrozen
