\* Two client threads in one book, as the server lets them.
CONSTANTS
    Threads = {t1, t2}
    Symbols = {s1}
    Prices <- MCPrices
    Quantities <- MCQuantities
    MaxOrders = 4
SPECIFICATION Spec
PROPERTIES
    PriceTimePriority
CHECK_DEADLOCK FALSE
