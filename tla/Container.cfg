SPECIFICATION Spec
CONSTANTS
    WILDCARD = WILDCARD
    STAR = STAR
    PrintedWildcard = 10
    IntMax = 127
    SizeLimit = 256
    TrustedIds <- Keys
    Inputs <- AllInputs
    MaxResets = 1
    MaxPrints = 1
    MaxEntries = 4
INVARIANTS
    AvailableIsLoop
    ReplaceIsLoop
    ListBounded
    SavedRuleIsStricter
PROPERTY
    FirstListPasses
CHECK_DEADLOCK FALSE
