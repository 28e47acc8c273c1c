SPECIFICATION Spec
CONSTANTS
    Tenants = {"ana", "bob"}
    Assignments = {"essay", "quiz"}
    TenantOf <- MCTenantOf
    Texts = {"draft", "final"}
    Contents <- MCContents
    q1 = q1
    q2 = q2
    Askers <- TwoAskers
    None = None
    MaxRestarts = 1
INVARIANTS
    ContentIsIndexed
    EmbeddedOncePerProcess
    EvidenceIsOwn
    ClaimsAreTrue
SYMMETRY AskerSymmetry
