SPECIFICATION Spec
CONSTANTS
    WILDCARD = WILDCARD
    TrustedIds <- Keys
    Requests = {r1, r2}
    DataPackets <- AllData
    InfoPackets <- AllInfos
    Rules <- AllRules
    MaxRules = 2
INVARIANTS
    AcceptedIsSigned
PROPERTIES
    AcceptanceStable
    VerdictComes
CHECK_DEADLOCK FALSE
