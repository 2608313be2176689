\* The page reads the book of a symbol while a client thread matches orders.
\* stod takes a sign, and a REJECTED order has quantity 0.
CONSTANTS
    Threads = {t1}
    Symbols = {s1}
    Prices <- MCPrices
    Quantities <- AnySign
    MaxOrders = 3
SPECIFICATION ViewSpec
INVARIANTS
    QuietViewAgrees
    CrossedBidsFilled
    BookMatchesTrades
CHECK_DEADLOCK FALSE
