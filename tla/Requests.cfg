SPECIFICATION FairSpec
CONSTANTS
    u1 = u1
    u2 = u2
    q1 = q1
    q2 = q2
    Users <- TwoUsers
    Reqs <- TwoReqs
    TenantIds <- TwoTenants
    Tokens <- TwoTokens
    Keys <- TwoKeys
    None = None
INVARIANTS
    TokenIsOwn
    SupersededStaysOut
    OneTenantPerUser
PROPERTIES
    ImplementsDirectory
    
    EveryRequestAnswered
