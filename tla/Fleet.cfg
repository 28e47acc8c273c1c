SPECIFICATION FairSpec
CONSTANTS
    t1 = t1
    t2 = t2
    t3 = t3
    k1 = k1
    k2 = k2
    NoKey = NoKey
    Keys <- TwoKeys
    Tenants <- ThreeTenants
    Slots = 2
    Store = "database"
INVARIANTS
    SlotsBalanced
    LocksMatchTasks
PROPERTIES
    NoTakeover
    NothingBegunAfterShutdown
    TicksEnd
    ReadableAttempted
