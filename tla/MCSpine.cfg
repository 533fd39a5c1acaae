SPECIFICATION Spec
CONSTANTS
    s1 = s1
    s2 = s2
    c1 = c1
    c2 = c2
    o1 = o1
    debit1 = debit1
    debit2 = debit2
    contact = contact
    None = None
    Session = {s1, s2}
    Case = {c1, c2}
    Obligation = {o1}
    ControlArm = {c2}
    Envelope = {debit1, debit2}
    ObligationOf <- MCObligationOf
    Coordinates <- MCCoordinates
    RequestedState <- MCRequestedState
    FieldUpdates <- MCFieldUpdates
    Swallowing = {}
    MaxCalls = 2
    MaxAudit = 3
SYMMETRY SessionSymmetry
INVARIANTS
    TypeOK
    OneLiveCase
    NoDoubleDebit
    ChainIntact
    StoredCasesAreValid
PROPERTY
    ReplaysAudit
