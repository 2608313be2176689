\* No time out and no message in pieces: a notification is enough.
SPECIFICATION Spec
CONSTANTS
    MaxOrders = 3
    MaxNotices = 1
    MaxTimeouts = 0
    Splits = FALSE
    None = None
INVARIANT
    EveryOrderHandled
CHECK_DEADLOCK FALSE
