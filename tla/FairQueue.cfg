SPECIFICATION FairSpec
CONSTANTS
    t1 = t1
    t2 = t2
    t3 = t3
    N = 6
    Tenant = {t1, t2, t3}
    Request = {1, 2, 3, 4, 5, 6}
    TenantOf <- MixedTenantOf
    Cost <- MixedCost
    Priority <- MixedPriority
    Weight <- MixedWeight
    CreatedAt <- ByNumber
    ArrivalOrder <- InOrder
    base_quantum_tokens = 1
    priority_aging_seconds = 1
    MaxTime = 1
    Cancellable = {2, 3}
    Retriable = {1, 3}
CHECK_DEADLOCK FALSE
INVARIANTS
    
    BoundedBypass
PROPERTIES
    AgingBoundsOvertaking
    EveryRequestLeaves
