SPECIFICATION LiveSpec
CONSTANTS
    None = None
    Runs = {r1}
    Ordinals = {1}
    Attempts = {1}
    Approvals = {r1}
    Processes = {p1}
    Setups = {s1}
    MaxDispatches = 3
    MaxTurns = 3
    MaxTokens = 3
    Deadline = 2
    ApprovalTtl = 1
    AuthorityUntil = 2
    Answers = {"tool", "othertool", "report", "finish", "malformed", "no bytes", "lost"}
    Usages = {1}
    Signers = {"sealed", "other"}
    MaxEpoch = 4
    MaxNow = 2
    MaxCrashes = 2
CHECK_DEADLOCK FALSE
INVARIANTS
    NothingSentAfterDoubt
    SuccessIsBacked
PROPERTIES
    ResumeSettles
