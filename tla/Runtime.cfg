SPECIFICATION InstanceSpec
CONSTANTS
    r1 = r1
    r2 = r2
    k1 = k1
    w1 = w1
    w2 = w2
    None = None
    Keys = {k1}
    Ceilings = {2}
    Limit = 4
    Runs = {r1, r2}
    Workers = {w1, w2}
    Sessions = {r2}
    Started = {r1}
    ReplayOf <- SharedKey
    LeaseTerm = 2
    Deadline = 1
    MaxClock = 1
    MaxRevision = 4
    ReleasePrecedesExpiry = TRUE
SYMMETRY WorkerSymmetry
CHECK_DEADLOCK FALSE
INVARIANTS
    EffectIsAccounted
    EffectOncePerKey
    ReplayIsReadable
