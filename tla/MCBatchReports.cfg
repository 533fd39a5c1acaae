SPECIFICATION Spec
CONSTANTS
    c1 = c1
    c2 = c2
    k1 = k1
    k2 = k2
    o1 = o1
    o2 = o2
    attempt1 = attempt1
    attempt2 = attempt2
    None = None
    NoArm = NoArm
    Missing = Missing
    Malformed = Malformed
    PermilleTotal = 10
    Scale = 10
    PScale = 100
    Databases <- MCDatabases
    AllWeights <- MCAllWeights
    Blocks <- MCBlocks
    Assignments <- MCAssignments
    ArmPairs <- MCArmPairs
    StratumCalls <- MCStratumCalls
    Books <- MCBooks
CHECK_DEADLOCK FALSE
INVARIANTS
    VerdictIsRight
    SharesAreExact
    EveryBlockIsExact
    VerifiedBlockIsBalanced
    GuardrailIsExact
    NoLiftWithoutCounterfactual
    PerProtocolIsNeverLower
    EstimatesAreWithinTheBook
