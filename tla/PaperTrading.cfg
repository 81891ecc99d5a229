SPECIFICATION Spec
CONSTANTS
    Symbol = {aapl, msft}
    Quantity = {1, 2}
    MarketPrice = 100
    StartingCash = 350
    MaxOrders = 5
SYMMETRY Symmetry
INVARIANTS
    TypeOK
    LedgerReplay
    ValueConserved
    ExecutionsMatchOrders
