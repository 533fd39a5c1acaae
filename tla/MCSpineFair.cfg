SPECIFICATION FairSpec
CONSTANTS
    s1 = s1
    s2 = s2
    c1 = c1
    c2 = c2
    o1 = o1
    debit1 = debit1
    debit2 = debit2
    contact = contact
    None = None
    Session = {s1, s2}
    Case = {c1}
    Obligation = {o1}
    ControlArm = {}
    Envelope = {debit1, contact}
    ObligationOf <- MCObligationOf
    Coordinates <- MCCoordinates
    RequestedState = {"diagnosing"}
    FieldUpdates <- MCNoUpdate
    Swallowing = {s2}
    MaxCalls = 2
    MaxAudit = 2
PROPERTY
    EveryTransactionEnds
