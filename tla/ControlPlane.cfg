SPECIFICATION Spec
CONSTANTS
    p1 = p1
    p2 = p2
    r1 = r1
    r2 = r2
    w1 = w1
    w2 = w2
    Process = {p1, p2}
    Request = {r1, r2}
    Worker = {w1, w2}
    NoWorker = NoWorker
    None = None
    MaxAttempts = 2
    MaxRecords = 4
    MaxTries = 2
    Setups <- AllSetups
CHECK_DEADLOCK FALSE
INVARIANTS
    PlaneInv
    RunsOnceUnlessRequeued
    NoRequestLost
PROPERTIES
    CancelledNeverCompletes
    
    LeaseLeftByOwnerOrExpiry
