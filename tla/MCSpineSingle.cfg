SPECIFICATION Spec
CONSTANTS
    s1 = s1
    s2 = s2
    c1 = c1
    c2 = c2
    o1 = o1
    debit1 = debit1
    debit2 = debit2
    contact = contact
    None = None
    Session = {s1}
    Case = {c1, c2}
    Obligation = {o1}
    ControlArm = {c2}
    Envelope = {}
    ObligationOf <- MCObligationOf
    Coordinates <- MCCoordinates
    RequestedState <- CaseState
    FieldUpdates <- MCFieldUpdates
    Swallowing = {}
    MaxCalls = 2
    MaxAudit = 6
INVARIANT
    TrailIsPath
PROPERTY
    TerminalIsFinal
