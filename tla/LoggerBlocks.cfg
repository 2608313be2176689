\* Two client threads and a database that need not answer.
CONSTANTS
    Threads = {t1, t2}
    Orders = {o1, o2, o3}
    None = None
    MaxRuns = 1
    MaxTrades = 1
SPECIFICATION ThreadsRun
PROPERTY
    MatchedWithoutAnswer
CHECK_DEADLOCK FALSE
