\* Beside the suite: three connections, two named traders and the empty id.
CONSTANTS
    Connections = {c1, c2, c3}
    Descriptors = {d1, d2}
    Traders = {alice, bob, empty}
    EmptyId = empty
    None = None
SPECIFICATION Spec
INVARIANTS
    GuardsEnabled
    TypeOK
    RecordedSocketIsOwn
    NotificationsReachOwner
    SoleConnectionRecorded
CHECK_DEADLOCK FALSE
