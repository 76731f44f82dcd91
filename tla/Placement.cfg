SPECIFICATION Spec
CONSTANTS
    r1 = r1
    r2 = r2
    r3 = r3
    a = a
    b = b
    None = None
    Worker = {1, 2}
    Request = {r1, r2, r3}
    Model = {a, b}
    Tokens <- MCTokens
    Memory <- MCMemory
    MaxContext <- MCMaxContext
    Compatible <- EveryPair
    Total = 4
    SafetyReserve = 0
    MaxConcurrency = 2
    Speed <- MCSpeed
    SpeedUnit = 2
    LoadSeconds = 2
    Slack = 6
    RequestsPerReplica = 1
    ColdLoadPenalty = 2
    MaxEvents = 1
    Setups <- MCSetups
CHECK_DEADLOCK FALSE
INVARIANTS
    
    NoOvercommit
    RoundRobinRotates
