SPECIFICATION Spec
CONSTANTS
    c1 = c1
    c2 = c2
    o1 = o1
    None = None
    NoAction = NoAction
    Case = {c1, c2}
    Obligation = {o1}
    ObligationOf <- MCObligationOf
    Profiles <- MCSoftProfiles
    ConfidenceFloor = 55
    MaxDebitAttempts = 3
    MaxContacts = 2
    MaxTrail = 9
INVARIANT
    DetectedCaseReachesVerdict
