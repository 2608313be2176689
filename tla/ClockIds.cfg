\* One symbol, one price: two of the orders may have one id.
CONSTANTS
    Threads = {t1}
    Symbols = {s1}
    Prices = {1}
    Quantities = {1}
    MaxOrders = 4
SPECIFICATION ClockSpec
INVARIANT
    NotCrossed
CHECK_DEADLOCK FALSE
