\* Two client threads whose orders are of different symbols.
CONSTANTS
    Threads = {t1, t2}
    Symbols = {s1, s2}
    Prices = {1}
    Quantities = {1}
    MaxOrders = 4
SPECIFICATION SerialSpec
INVARIANT
    TradeIdsUnique
CHECK_DEADLOCK FALSE
