SPECIFICATION Spec
CONSTANTS
    b1 = b1
    b2 = b2
    Body <- MCBody
    None = None
    MaxRows = 3
    MaxDamage = 2
SYMMETRY BodySymmetry
INVARIANTS
    TypeOK
    VerifiedAgainstPinIsPinned
    NoFalseAlarm
    NothingIsForged
    DamageIsNamed
