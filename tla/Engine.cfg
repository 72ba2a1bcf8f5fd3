SPECIFICATION FairSpec
CONSTANTS
    c1 = c1
    c2 = c2
    publish = publish
    order = order
    report = report
    legacy = legacy
    k1 = k1
    i1 = i1
    i2 = i2
    o1 = o1
    o2 = o2
    Unset = Unset
    Callers = {c1, c2}
    Operations <- MCOperations
    Keys = {k1}
    Inputs = {i1, i2}
    Outputs = {o1, o2}
    Registry <- MCRegistry
    Requests <- MCRequests
    MaxCalls = 3
    MaxFaults = 2
CHECK_DEADLOCK FALSE
INVARIANTS
    EffectStartsAtMostOnce
    OneAnswerPerKey
PROPERTIES
    ClaimSettles
    ImplementsLedger
