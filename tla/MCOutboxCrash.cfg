SPECIFICATION FairSpec
CONSTANTS
    w1 = w1
    w2 = w2
    w3 = w3
    None = None
    Worker = {w1, w2}
    Row = {1, 2}
    Postgres = TRUE
    MaxCrashes = 1
CHECK_DEADLOCK FALSE
PROPERTY
    ExecutedInTheEnd
