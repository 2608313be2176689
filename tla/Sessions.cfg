\* Three connections of a trader and of the empty id, on two descriptors: a
\* descriptor is reused, a trader connects twice, and one connection waits for
\* socketsMutex_ while two others take it again and again.
CONSTANTS
    Connections = {c1, c2, c3}
    Descriptors = {d1, d2}
    Traders = {alice, empty}
    EmptyId = empty
    None = None
SPECIFICATION FairSpec
INVARIANTS
    TypeOK
    RecordedSocketIsOwn
    NotificationsReachOwner
    SoleConnectionRecorded
PROPERTY DescriptorReleased
CHECK_DEADLOCK FALSE
