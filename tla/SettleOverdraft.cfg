\* Two client threads whose settlements may have the buyer in common: both pass
\* withdraw's test before either subtracts.
CONSTANTS
    Threads = {t1, t2}
    Traders = {alice, bob}
    Symbols = {s1}
    Cash = Cash
    None = None
    Prices <- PositivePrices
    Quantities <- MCQuantities
    InitialBalance = 3
    MaxBatch = 1
    MaxCalls = 2
SPECIFICATION Spec
INVARIANTS
    NoOverdraft
CHECK_DEADLOCK FALSE
