SPECIFICATION FairSpec
CONSTANTS
    w1 = w1
    w2 = w2
    w3 = w3
    None = None
    Worker = {w1, w2, w3}
    Row = {1, 2, 3}
    Postgres = TRUE
    MaxCrashes = 2
CHECK_DEADLOCK FALSE
INVARIANTS
    TypeOK
    ClaimIsForCaller
PROPERTIES
    OutcomeIsFinal
    PendingIsClaimed
