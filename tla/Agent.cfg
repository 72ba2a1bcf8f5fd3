SPECIFICATION FairRuntimeSpec
CONSTANTS
    None = None
    Runs = {r1}
    Ordinals = {1, 2}
    Attempts = {1}
    Approvals <- StepApprovals
    Processes = {p1}
    MaxModelCalls = 3
    MaxTotalTokens = 3
    MaxSteps = 2
    Deadline = 2
    ApprovalTtl = 1
    Decisions = {"finish", "tool", "human", "unknown", "badinput"}
    Usages = {1}
    MaxNow = 3
    MaxCrashes = 1
CHECK_DEADLOCK FALSE
INVARIANTS
    ToolRunsOnce
    CompletedTraceIsWhole
PROPERTIES
    DecisionIsTakenUp
