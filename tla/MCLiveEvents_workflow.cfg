SPECIFICATION Spec
CONSTANTS
    Jobs = {j1}
    Watched = j1
    Hooks = {"list", "detail"}
    Final = 2
    Writers = {"request", "workflow"}
    Handled = {"request"}
    MaxReads = 2
    None = None
PROPERTY EveryChangeIsEmitted
CHECK_DEADLOCK FALSE
