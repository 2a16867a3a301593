SPECIFICATION Spec
CONSTANTS
    WILDCARD = WILDCARD
    TrustedIds <- KeysA1A2
    Sessions = {s1}
    SchemaOf <- OneA
    RuleList <- OnlyRule
    MaxResets = 0
    MaxRestarts = 1
    MaxVersion = 0
    Faults = {}
INVARIANTS
    PiecesVerified
CHECK_DEADLOCK FALSE
