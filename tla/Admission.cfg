SPECIFICATION Spec
CONSTANTS
    r1 = r1
    r2 = r2
    r3 = r3
    r4 = r4
    t1 = t1
    t2 = t2
    Request = {r1, r2, r3, r4}
    Tenant = {t1, t2}
    TenantOf <- MCTenantOf
    Tokens <- MCTokens
    MaxQueued <- MCMaxQueued
    MaxConcurrent <- MCMaxConcurrent
    TokenQuota <- MCTokenQuota
    GlobalCapacity = 2
INVARIANTS
    AccountingInv
PROPERTIES
    ImplementsLedger
