SPECIFICATION Spec
CONSTANTS
    N = 3
    StockOnly = {1}
    Symbols = 2
    Interval = 2
    Faults = {"market", "data", "account", "cash", "order"}
    Answers = {TRUE, FALSE}
    MaxContracts = 2
    MaxCrashes = 1
INVARIANTS SlotsComeBack TrailIsTrue
PROPERTIES StocksWaitForTheMarket SlotsTakeTurns
