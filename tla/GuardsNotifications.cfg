\* Beside the suite: threads and clients can go on whenever their guards say so.
CONSTANTS
    Clients = {c1, c2, c3}
    Readers = {c1, c2, c3}
    Capacity = 1
    MaxOrders = 2
    None = None
SPECIFICATION Spec
INVARIANT GuardsEnabled
CHECK_DEADLOCK FALSE
