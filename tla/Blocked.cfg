SPECIFICATION Spec
CONSTANTS
    WILDCARD = WILDCARD
    TrustedIds <- KeysA1A2
    Sessions = {s1}
    SchemaOf <- OneA
    RuleList <- OnlyRule
    MaxResets = 0
    MaxRestarts = 0
    MaxVersion = 0
    Faults = {"reorder"}
INVARIANTS
    NeverBlocked
CHECK_DEADLOCK FALSE
