SPECIFICATION FairSpec
CONSTANTS
    r1 = r1
    r2 = r2
    Stream = {r1, r2}
    MaxConcurrentRequests = 2
    MaxSequences = 1
    MaxTokens = 1
    Orphans = TRUE
CHECK_DEADLOCK FALSE
INVARIANTS
    StreamInv
    EndedIsRecorded
PROPERTIES
    StreamsEnd
