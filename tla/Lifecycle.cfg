SPECIFICATION CalmSpec
CONSTANTS
    Connections = {c1, c2}
    Descriptors = {d1, d2, d3}
    None = None
INVARIANTS
    TypeOK
    NoDescriptorLost
    EndsByExit
PROPERTIES
    NothingAcceptedOnceStopped
    ShutdownEnds
    ConnectionsTaken
CHECK_DEADLOCK FALSE
