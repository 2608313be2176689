\* Beside the suite, on two symbols: Continue can be done whenever its guards say so.
CONSTANTS
    Threads = {t1, t2}
    Traders = {alice, bob}
    Symbols = {s1, s2}
    None = None
    MaxOrders = 3
SPECIFICATION Spec
INVARIANTS
    GuardsEnabled
    TypeOK
    OneBookPerSymbol
    AccountsComplete
    NoDeadlock
PROPERTY OneAccountPerTrader
CHECK_DEADLOCK FALSE
