\* The page reads the book of a symbol while a client thread matches orders.
CONSTANTS
    Threads = {t1}
    Symbols = {s1}
    Prices <- MCPrices
    Quantities <- MCQuantities
    MaxOrders = 3
SPECIFICATION ViewSpec
INVARIANT
    SpreadPositive
CHECK_DEADLOCK FALSE
