\* One client thread, three traders that can pay for one trade each.
CONSTANTS
    Threads = {t1}
    Traders = {alice, bob, carol}
    Symbols = {s1}
    Cash = Cash
    None = None
    Prices <- MCPrices
    Quantities <- MCQuantities
    InitialBalance = 2
    MaxBatch = 2
    MaxCalls = 1
SPECIFICATION SerialSpec
INVARIANTS
    TradesFunded
CHECK_DEADLOCK FALSE
