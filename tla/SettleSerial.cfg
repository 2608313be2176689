\* Two client threads and four accounts: calls overlap when their accounts
\* differ.  A price of -1 makes withdraw throw, one of 2 exhausts 3 in two trades.
CONSTANTS
    Threads = {t1, t2}
    Traders = {alice, bob, carol, dave}
    Symbols = {s1}
    Cash = Cash
    None = None
    Prices <- SettlePrices
    Quantities <- MCQuantities
    InitialBalance = 3
    MaxBatch = 2
    MaxCalls = 2
SPECIFICATION SerialSpec
INVARIANTS
    TypeOK
    NothingLost
    NoOverdraft
PROPERTIES
    ImplementsLedger
SYMMETRY TraderSymmetry
CHECK_DEADLOCK FALSE
