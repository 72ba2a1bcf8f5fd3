SPECIFICATION RecordsSpec
CONSTANTS
    Nothing = Nothing
    p1 = p1
    p2 = p2
    c1 = c1
    c2 = c2
    Absent = Absent
    Torn = Torn
    Objects = {1, 2}
    Changesets = {"s1"}
    Plans <- FewLists
    Contents <- OneContent
    Fields <- TitleAndSize
    SchemaFiles = {"id-version"}
    Callers = {c1, c2}
    Exclusive = FALSE
    MaxStamp = 3
    MaxEditions = 1
    MaxCrashes = 1
SYMMETRY Symmetry
CHECK_DEADLOCK FALSE
INVARIANTS
    AnswerIsOnDisk
    DamageIsCaught
PROPERTIES
    CommitIsWhole
