CONSTANTS
    r1 = r1
    r2 = r2
    j1 = j1
    q1 = q1
    q2 = q2
    TenantRequests <- TwoRequests
    Jobs <- OneJob
    RunnersOf <- TwoRunners
    Queries <- OneQuery
    PoolSize = 4
SPECIFICATION FairSpec
CHECK_DEADLOCK FALSE
INVARIANTS
    ExhaustionNeedsLoad
PROPERTIES
    ExhaustedForEver
    ServedUnlessExhausted
