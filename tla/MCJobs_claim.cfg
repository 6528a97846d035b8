SPECIFICATION Spec
CONSTANTS
    Jobs = {j1}
    Callers = {c1, c2, c3}
    InitialStatuses = {"queued"}
    DirectPatches = {}
    Faults = {"publish"}
INVARIANT ClaimIsCompletedOrFailed
CHECK_DEADLOCK FALSE
