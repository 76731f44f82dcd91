SPECIFICATION FairSpec
CONSTANTS
    r1 = r1
    r2 = r2
    r3 = r3
    NoItem = NoItem
    Request = {r1, r2, r3}
    Impatient = {r1}
    Setups <- MCSetups
    max_batch_size = 2
    max_total_batch_tokens = 2
    max_queue_size = 2
    max_concurrent_requests = 3
    ModelMayFail = TRUE
    GraceMayExpire = TRUE
CHECK_DEADLOCK FALSE
INVARIANTS
    SchedulerInv
PROPERTIES
    CancelledNeverCompletes
    EveryHandlerEnds
