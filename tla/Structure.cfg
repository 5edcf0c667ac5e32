SPECIFICATION Spec
CONSTANTS
    d1 = d1
    d2 = d2
    c1 = c1
    c2 = c2
    v = v
    x = x
    DBs = {d1, d2}
    Names = {c1, c2, v, x}
    AnyName = AnyName
    NoName = NoName
    ServerWide = ServerWide
    Entries <- AllEntries
    Defs = {"plain", "a", "b"}
    Plain = "plain"
    SkipDBs = {}
    Modes <- SomeModes
    InitialData <- SomeData
    MaxDisturbances = 1
    Changeable <- ChangedEntries
    Absent = Absent
    None = None
    UsersUnread = UsersUnread
INVARIANTS TypeOK  ErrorsAreDifferences OutOfScopeIsSilent
CHECK_DEADLOCK FALSE
