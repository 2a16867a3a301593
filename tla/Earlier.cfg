SPECIFICATION Spec
CONSTANTS
    s1 = s1
    s2 = s2
    k1 = k1
    k2 = k2
    Sessions = {s1, s2}
    Keys = {k1, k2}
    Faulty = {k1}
    Quorums <- BothOrFirst
INVARIANTS
    OneCallback
    SuccessIsGenuine
    OpenCanSucceed
PROPERTIES
    EarlierSessionsEnd
CHECK_DEADLOCK FALSE
