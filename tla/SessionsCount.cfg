\* Two connections of one trader.
CONSTANTS
    Connections = {c1, c2}
    Descriptors = {d1, d2}
    Traders = {alice}
    EmptyId = empty
    None = None
SPECIFICATION Spec
INVARIANT ConnectedTradersCounted
CHECK_DEADLOCK FALSE
