SPECIFICATION Spec
CONSTANTS
    q1 = q1
    q2 = q2
    p1 = p1
    p2 = p2
    t1 = t1
    Free = Free
    NoTenant = NoTenant
    Processes <- TwoProcesses
    Requests <- TwoRequests
    ProcessOf <- Apart
    Tenants <- OneTenant
    Interval = 6
    Second = 3
    Round = 1
    MaxClock = 10
PROPERTIES
    OnePerInterval
