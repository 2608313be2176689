\* One client thread, one symbol: every sequence of four orders.
CONSTANTS
    Threads = {t1}
    Symbols = {s1}
    Prices <- MCPrices
    Quantities <- Negative
    MaxOrders = 4
SPECIFICATION SerialSpec
INVARIANTS
    TypeOK
    BookConsistent
    BookMatchesTrades
    NotCrossed
    LimitsRespected
    AnnouncedAsTraded
PROPERTIES
    PriceTimePriority
    ImplementsExchange
CHECK_DEADLOCK FALSE
