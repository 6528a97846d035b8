SPECIFICATION FairSpec
CONSTANTS
    Jobs = {j1, j2}
    Watched = j1
    Hooks = {"list", "detail"}
    Final = 1
    Writers = {"request", "page"}
    Handled = {"request", "page"}
    MaxReads = 2
    None = None
INVARIANT ListIsCurrent
PROPERTY ListCatchesUp
CHECK_DEADLOCK FALSE
