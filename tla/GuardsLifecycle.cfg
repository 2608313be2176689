\* Beside the suite: the threads can go on whenever their guards say so.
SPECIFICATION CalmSpec
CONSTANTS
    Connections = {c1, c2}
    Descriptors = {d1, d2, d3}
    None = None
INVARIANT GuardsEnabled
CHECK_DEADLOCK FALSE
