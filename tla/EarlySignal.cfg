SPECIFICATION Spec
CONSTANTS
    Connections = {c1}
    Descriptors = {d1, d2, d3}
    None = None
PROPERTY
    ShutdownEnds
CHECK_DEADLOCK FALSE
