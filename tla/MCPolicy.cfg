SPECIFICATION Spec
CONSTANTS
    whatsapp = whatsapp
    email = email
    voice = voice
    b2c = b2c
    NoChannel = NoChannel
    None = None
    Category <- PolicyCategory
    Fact <- PolicyFactKey
    Segment <- MCSegment
    Channel <- MCChannel
    RuleSetName <- MCRuleSetName
    RuleSets <- MCRuleSets
    Requests <- MCRequests
CHECK_DEADLOCK FALSE
INVARIANTS
    TypeOK
    ForbiddenIsNotPermitted
    PermittedInEveryCategory
    PermittedOnAllFacts
    HoldStopsEverything
    GovernedIsDecidedByRule
