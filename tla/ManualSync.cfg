SPECIFICATION FairSpec
CONSTANTS
    q1 = q1
    q2 = q2
    p1 = p1
    p2 = p2
    t1 = t1
    Free = Free
    NoTenant = NoTenant
    Processes <- OneProcess
    Requests <- TwoRequests
    ProcessOf <- Together
    Tenants <- OneTenant
    Interval = 6
    Second = 3
    Round = 1
    MaxClock = 10
INVARIANTS
    NoInsertConflict
PROPERTIES
    OnePerInterval
    HonestRetry
    EveryRequestAnswered
