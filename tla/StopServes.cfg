SPECIFICATION CalmSpec
CONSTANTS
    Connections = {c1}
    Descriptors = {d1, d2, d3}
    None = None
PROPERTY
    StoppedServerServesNobody
CHECK_DEADLOCK FALSE
