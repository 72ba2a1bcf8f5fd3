SPECIFICATION RequestsSpec
CONSTANTS
    k1 = k1
    k2 = k2
    s1 = s1
    s2 = s2
    r1 = r1
    r2 = r2
    NoRun = NoRun
    NoCursor = NoCursor
    None = None
    Keys = {k1, k2}
    Sessions = {s1}
    SessionEnd <- OneSession
    LeaseTerm = 2
    ApprovalTerm = 1
    MaxClock = 2
    MaxRevision = 7
    MaxSent = 2
    MaxAudit = 9
    ReleasePrecedesExpiry = FALSE
    CopiesDecision = TRUE
SYMMETRY KeySymmetry
CHECK_DEADLOCK FALSE
INVARIANTS
    ReceiptNamesItsEvent
    AnswersStand
    CancelIsFinal
    PagesAreOneSnapshot
