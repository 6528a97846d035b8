SPECIFICATION Spec
CONSTANTS
    Jobs = {j1}
    Callers = {c1, c2, c3}
    InitialStatuses = {"queued"}
    DirectPatches = {}
    Faults = {}
INVARIANT CancelTakesEffect
CHECK_DEADLOCK FALSE
