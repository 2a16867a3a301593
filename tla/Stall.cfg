SPECIFICATION ReliableSpec
CONSTANTS
    WILDCARD = WILDCARD
    TrustedIds <- KeysA1A2
    Sessions = {s1}
    SchemaOf <- TwoOptional
    RuleList <- OnlyRule
    MaxResets = 0
    MaxRestarts = 0
    MaxVersion = 0
    Faults = {"offline"}
PROPERTIES
    SessionsEnd
CHECK_DEADLOCK FALSE
