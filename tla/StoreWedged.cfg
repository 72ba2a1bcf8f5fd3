SPECIFICATION StoreFairSpec
CONSTANTS
    r1 = r1
    k1 = k1
    None = None
    Runs = {r1}
    Sessions = {}
    Started = {r1}
    Keys = {k1}
    ReplayOf <- OneKey
    Ceilings = {2}
    Limit = 4
    LeaseTerm = 1
    Deadline = 4
    MaxClock = 2
    MaxRevision = 4
    ReleasePrecedesExpiry = TRUE
CHECK_DEADLOCK FALSE
PROPERTIES
    ReclaimResolves
