CONSTANTS
    r1 = r1
    r2 = r2
    j1 = j1
    q1 = q1
    q2 = q2
    TenantRequests <- OneRequest
    Jobs = {}
    RunnersOf <- OneRunner
    Queries = {}
    PoolSize = 3
SPECIFICATION FairSpec
CHECK_DEADLOCK FALSE
PROPERTIES
    WaitingEnds
