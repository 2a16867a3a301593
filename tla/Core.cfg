SPECIFICATION Spec
CONSTANTS
    WILDCARD = WILDCARD
    TrustedIds <- KeysA1A2B1
    Sessions = {s1}
    SchemaOf <- AandOptionalB
    RuleList <- OnlyRule
    MaxResets = 0
    MaxRestarts = 0
    MaxVersion = 0
    Faults = {"loss", "offline", "reorder", "reject", "refuse", "undecodable", "corrupt"}
INVARIANTS
    TypeOK
    AggregateMatchesList
    OneOutcome
    SignedAfterAck
    Bookkeeping
PROPERTIES
    ResultFrozen
    ImplementsService
CHECK_DEADLOCK FALSE
