SPECIFICATION AccessSpec
CONSTANTS
    NoChallenge = NoChallenge
    NoSession = NoSession
    Nobody = Nobody
    NoCode = NoCode
    Exchangers = {"e1"}
    Posts = {"r1", "r2"}
    Codes = {"code"}
    Approvers = {"h1"}
    BootstrapTTL = 1
    AbsoluteTTL = 1
    IdleTTL = 1
    RequestExpiry = 1
    RequiredApprover = "h1"
    MayFail = FALSE
    MayPanic = TRUE
    MaxClock = 2
    MaxEdits = 1
CHECK_DEADLOCK FALSE
INVARIANTS
    AuditTellsSession
    RateHolds
PROPERTIES
    DecisionUnderSession
    HandlerHoldsSession
