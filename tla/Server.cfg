\* Two client threads, two traders, three orders of one symbol: two that trade
\* want the accounts at once.
CONSTANTS
    Threads = {t1, t2}
    Traders = {alice, bob}
    Symbols = {s1}
    None = None
    MaxOrders = 3
SPECIFICATION FairSpec
INVARIANTS
    TypeOK
    OneBookPerSymbol
    AccountsComplete
    NoDeadlock
PROPERTIES
    OneAccountPerTrader
    MutexesGranted
    EveryMessageAnswered
CHECK_DEADLOCK FALSE
