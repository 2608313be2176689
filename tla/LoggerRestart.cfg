\* One client thread; the process is restarted.
CONSTANTS
    Threads = {t1}
    Orders = {o1, o2, o3, o4}
    None = None
    MaxRuns = 2
    MaxTrades = 1
SPECIFICATION Spec
INVARIANTS
    TradesLogged
CHECK_DEADLOCK FALSE
