SPECIFICATION Spec
CONSTANTS
    c1 = c1
    c2 = c2
    o1 = o1
    None = None
    NoAction = NoAction
    Case = {c1, c2}
    Obligation = {o1}
    ObligationOf <- MCObligationOf
    Profiles <- MCProfiles
    ConfidenceFloor = 55
    MaxDebitAttempts = 3
    MaxContacts = 2
    MaxTrail = 12
INVARIANTS
    TypeOK
    ExternalActionsAudited
    NoOrphanedLiveCase
    ArmsKeepTheirContract
    ResolvedOnce
    DebitIsSafe
    ContactIsTrueUnderEveryCause
    HedgeIsOnTheTrail
