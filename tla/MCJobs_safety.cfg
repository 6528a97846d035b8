SPECIFICATION Spec
CONSTANTS
    Jobs = {j1}
    Callers = {c1, c2, c3}
    InitialStatuses = {"queued", "running"}
    DirectPatches <- MCDirectPatches
    Faults <- MCAllFaults
SYMMETRY CallerSymmetry
INVARIANTS
    TypeOK
    AtMostOneClaim
    ResolvedMeansSucceeded
PROPERTIES
    TerminalIsFinal
    ImplementsLifecycle
CHECK_DEADLOCK FALSE
