SPECIFICATION CalmSpec
CONSTANTS
    Connections = {c1}
    Descriptors = {d1, d2, d3}
    None = None
INVARIANT
    StartFailureReported
CHECK_DEADLOCK FALSE
