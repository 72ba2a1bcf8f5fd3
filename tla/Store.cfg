SPECIFICATION StoreSpec
CONSTANTS
    r1 = r1
    k1 = k1
    None = None
    Runs = {r1}
    Sessions = {r1}
    Started = {r1}
    Keys = {}
    ReplayOf <- NoKey
    Ceilings = {2, 3}
    Limit = 4
    LeaseTerm = 1
    Deadline = 4
    MaxClock = 4
    MaxRevision = 8
    ReleasePrecedesExpiry = FALSE
CHECK_DEADLOCK FALSE
INVARIANTS
    WithinLimit
    OneOwner
    LedgerBalances
PROPERTIES
    ReservationsSettleOnce
