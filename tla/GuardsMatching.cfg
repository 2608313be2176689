\* Beside the suite: two threads on two symbols, an order of quantity 0 among them.
\* A thread in submitOrder can go on whenever its guards say so.
CONSTANTS
    Threads = {t1, t2}
    Symbols = {s1, s2}
    Prices <- MCPrices
    Quantities <- ZeroOrOne
    MaxOrders = 3
SPECIFICATION SerialSpec
INVARIANT GuardsEnabled
PROPERTY ImplementsExchange
CHECK_DEADLOCK FALSE
