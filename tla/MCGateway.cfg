SPECIFICATION FairSpec
CONSTANTS
    r1 = r1
    r2 = r2
    r3 = r3
    c1 = c1
    none = none
    Requests = {r1, r2, r3}
    Connections = {c1}
    Loads <- MCLoads
    Capacity = 1
    MaxRetries = 1
CHECK_DEADLOCK FALSE
INVARIANTS
    TypeOK
    SlotsAccounted
    MutatingCallsOnce
PROPERTIES
    RequestEnds
