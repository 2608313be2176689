\* A registration and two orders, cut anywhere.
SPECIFICATION Spec
CONSTANTS
    MaxOrders = 2
    MaxNotices = 1
    MaxTimeouts = 2
    Splits = TRUE
    None = None
INVARIANTS
    HandledAsSent
    OrderlyClientServed
PROPERTY
    OrderlyClientAnswered
CHECK_DEADLOCK FALSE
