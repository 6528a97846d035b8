SPECIFICATION FairSpec
CONSTANTS
    Jobs = {j1}
    Watched = j1
    Hooks = {"list", "detail"}
    Final = 2
    Writers = {"request", "page"}
    Handled = {"request", "page"}
    MaxReads = 2
    None = None
PROPERTY DetailCatchesUp
CHECK_DEADLOCK FALSE
