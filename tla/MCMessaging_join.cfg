SPECIFICATION Spec
CONSTANTS
    u1 = u1
    u2 = u2
    x1 = x1
    c1 = c1
    c2 = c2
    Users = {u1, u2}
    Contexts = {x1}
    Callers = {c1, c2}
    MaxId = 2
    MaxMessage = 1
    Actors = {u1}
    Calls = {"getOrCreate"}
    Requests <- OneOrAll
    EarlyIds = FALSE
    Faults = {}
SYMMETRY RequestSymmetry
INVARIANT RequestedParticipantsJoin
CHECK_DEADLOCK FALSE
