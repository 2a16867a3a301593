SPECIFICATION ReliableSpec
CONSTANTS
    WILDCARD = WILDCARD
    TrustedIds <- KeysA1A2
    Sessions = {s1}
    SchemaOf <- OneA
    RuleList <- OnlyRule
    MaxResets = 0
    MaxRestarts = 0
    MaxVersion = 0
    Faults = {"reject"}
PROPERTIES
    RejectionHandled
CHECK_DEADLOCK FALSE
