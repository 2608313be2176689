\* Two client threads and a database that answers in the end.
CONSTANTS
    Threads = {t1, t2}
    Orders = {o1, o2, o3}
    None = None
    MaxRuns = 1
    MaxTrades = 1
SPECIFICATION DatabaseAnswers
PROPERTY
    EveryOrderReturns
CHECK_DEADLOCK FALSE
