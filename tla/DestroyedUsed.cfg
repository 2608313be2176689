SPECIFICATION CalmSpec
CONSTANTS
    Connections = {c1}
    Descriptors = {d1, d2, d3}
    None = None
INVARIANT
    DestroyedServerUnused
CHECK_DEADLOCK FALSE
