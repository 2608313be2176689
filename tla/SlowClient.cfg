\* Three clients of which one does not read, with room for one message each.
CONSTANTS
    Clients = {c1, c2, c3}
    Readers = {c1, c2}
    Capacity = 1
    MaxOrders = 2
    None = None
SPECIFICATION Spec
PROPERTY
    ReadersAnswered
CHECK_DEADLOCK FALSE
