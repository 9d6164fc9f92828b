SPECIFICATION FairSpec
CONSTANTS
    Listings = {l1}
    Workers = {w1, w2}
    ClaimLimit = 1
    MaxAttempts = 2
    MaxRevision = 3
INVARIANTS
    CompletedIsCurrent
PROPERTIES
    WritesAreCurrent
    EverySettles
CHECK_DEADLOCK FALSE
