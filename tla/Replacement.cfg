SPECIFICATION Spec
CONSTANTS
    WILDCARD = WILDCARD
    TrustedIds <- KeysA1A2A3B1
    Sessions = {s1}
    SchemaOf <- Overlapping
    RuleList <- OnlyRule
    MaxResets = 0
    MaxRestarts = 1
    MaxVersion = 0
    Faults = {"offline"}
INVARIANTS
    RequiredCovered
    ListIsWorkedOn
    SuccessVerifies
CHECK_DEADLOCK FALSE
