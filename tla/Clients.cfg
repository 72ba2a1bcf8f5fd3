SPECIFICATION InstanceSpec
CONSTANTS
    None = None
    Runs = {r1}
    Ordinals = {1}
    Attempts = {1}
    Approvals = {a1}
    Clients = {c1, c2}
    Setups = {}
    Readinesses = {}
    MaxRevision = 2
    MaxStepRevision = 2
    MaxTrace = 1
SYMMETRY ClientSymmetry
CHECK_DEADLOCK FALSE
INVARIANTS
    TerminalEventIsLast
    AcknowledgedAppendStands
PROPERTIES
    SealedTraceStands
    MovesFromStoredRow
