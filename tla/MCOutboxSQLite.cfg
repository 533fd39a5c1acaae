SPECIFICATION Spec
CONSTANTS
    w1 = w1
    w2 = w2
    w3 = w3
    None = None
    Worker = {w1, w2}
    Row = {1, 2}
    Postgres = FALSE
    MaxCrashes = 0
SYMMETRY WorkerSymmetry
CHECK_DEADLOCK FALSE
INVARIANT
    ClaimIsForCaller
