SPECIFICATION FairSpec
CONSTANTS
    Items <- MCItems
    Contents <- MCContents
    PageSize = 2
    MaxAttempts = 3
    MaxPages = 3
    MaxChanges = 2
INVARIANTS
    EveryItemOnce
    NothingSkipped
    NoPageTwice
PROPERTIES
    ListingEnds
