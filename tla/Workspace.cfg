SPECIFICATION WorkspaceSpec
CONSTANTS
    t1 = t1
    t2 = t2
    d1 = d1
    a1 = a1
    kb = kb
    kc = kc
    q1 = q1
    q2 = q2
    g1 = g1
    g2 = g2
    Own = Own
    Agent = Agent
    OwnKey = OwnKey
    ZeroKey = ZeroKey
    Absent = Absent
    Torn = Torn
    NoRow = NoRow
    Nobody = Nobody
    None = None
    Threads = {t1, t2}
    Digests = {d1}
    Artifacts = {a1}
    Operations = {"put", "reference", "unreference", "delete", "gc"}
    MaxCrashes = 1
    c1 = c1
    c2 = c2
    h1 = h1
    h2 = h2
    e1 = e1
    Blank = Blank
    Shells = {c1, c2}
    Approvers = {h1, h2}
    Delegations = {e1}
    MaxDeaths = 1
    MaxDrifts = 1
    MaxEvaluations = 1
CHECK_DEADLOCK FALSE
INVARIANTS
    OpenedWasInForce
    StoredProofsVerify
    OpenedOnce
    PreparationIsBacked
PROPERTIES
    CollectorSparesReferenced
