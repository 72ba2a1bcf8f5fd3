SPECIFICATION DomainsSpec
CONSTANTS
    None = None
    a = a
    b = b
    c = c
    d = d
    Absent = Absent
    Torn = Torn
    Callers = {"c1", "c2"}
    Catalogs = {}
    Orders = {"o1"}
    Snapshots = {"s1"}
    Queries = {"q1"}
    Insights = {"i1", "i2"}
    Values = {"v1", "v2"}
    Averages = {"q1"}
    MaxCrashes = 1
CHECK_DEADLOCK FALSE
INVARIANTS
    FiledWorkInOrder
    RowsHaveParents
    StoredWorkInOrder
