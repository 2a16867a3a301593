SPECIFICATION FairSpec
CONSTANTS
    WILDCARD = WILDCARD
    TrustedIds <- KeysA1A2
    Sessions = {s1}
    SchemaOf <- OneA
    RuleList <- OnlyRule
    MaxResets = 0
    MaxRestarts = 1
    MaxVersion = 1
    Faults = {"loss", "offline", "reorder", "reject", "refuse", "undecodable"}
PROPERTIES
    RPCsEnd
CHECK_DEADLOCK FALSE
