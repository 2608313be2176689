\* Beside the suite: every sequence of three orders, as in MatchOne.cfg.
CONSTANTS
    Threads = {t1}
    Symbols = {s1}
    Prices <- MCPrices
    Quantities <- Negative
    MaxOrders = 3
SPECIFICATION SerialSpec
PROPERTY
    MatchingEnds
CHECK_DEADLOCK FALSE
