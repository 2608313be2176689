\* Beside the suite: the thread and the client can go on whenever their guards say so.
SPECIFICATION Spec
CONSTANTS
    MaxOrders = 2
    MaxNotices = 1
    MaxTimeouts = 2
    Splits = TRUE
    None = None
INVARIANT GuardsEnabled
CHECK_DEADLOCK FALSE
