SPECIFICATION Spec
CONSTANTS
    u1 = u1
    u2 = u2
    x1 = x1
    c1 = c1
    c2 = c2
    Users = {u1, u2}
    Contexts = {x1}
    Callers = {c1, c2}
    MaxId = 2
    MaxMessage = 1
    Actors = {u1, u2}
    Calls = {"create", "getOrCreate", "add", "append", "read", "remove", "delete", "deleteMessage"}
    Requests <- Both
    EarlyIds = FALSE
    Faults = {"store"}
SYMMETRY Symmetry
INVARIANTS NoOrphans OnlyMembersSpeak OnlyMembersRead
PROPERTY OnlyCreatorManages
CHECK_DEADLOCK FALSE
