SPECIFICATION ReliableSpec
CONSTANTS
    WILDCARD = WILDCARD
    TrustedIds <- KeysA1A2B1
    Sessions = {s1, s2}
    SchemaOf <- AandBbesideA
    RuleList <- OnlyRule
    MaxResets = 1
    MaxRestarts = 0
    MaxVersion = 0
    Faults = {"offline"}
PROPERTIES
    SessionsEnd
    RecruitsAreFresh
CHECK_DEADLOCK FALSE
