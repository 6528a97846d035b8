SPECIFICATION FairReplySpec
CONSTANTS
    Jobs = {j1}
    Callers = {c1, c2, c3}
    Dispatchers = {c1}
    InitialStatuses = {"queued"}
    DirectPatches = {}
    Faults = {"publish", "create", "callback"}
INVARIANTS ExecutionSettles DispatchFailureRecorded LifecycleRecorded WorkIsDoneOnce RecordedAsSent
PROPERTIES EnteredIsSettled EndedCostsNothing
CHECK_DEADLOCK FALSE
