\* Two client threads, four orders, two runs of the process: each run can trade.
CONSTANTS
    Threads = {t1, t2}
    Orders = {o1, o2, o3, o4}
    None = None
    MaxRuns = 2
    MaxTrades = 1
SPECIFICATION Spec
INVARIANTS
    TypeOK
    TradesReferToLoggedOrders
SYMMETRY ThreadOrderSymmetry
CHECK_DEADLOCK FALSE
