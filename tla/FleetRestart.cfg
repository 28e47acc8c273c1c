SPECIFICATION FairSpec
CONSTANTS
    t1 = t1
    t2 = t2
    t3 = t3
    k1 = k1
    k2 = k2
    NoKey = NoKey
    Keys <- OneKey
    Tenants <- TwoTenants
    Slots = 1
    Store = "database"
PROPERTIES
    ConnectedAttempted
