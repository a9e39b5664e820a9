CONSTANTS
    t1 = t1
    t2 = t2
    AAPL = AAPL
    MSFT = MSFT
    NoTrade = NoTrade
    TradeId <- TwoTrades
    Syms <- OneSym
    Sides <- Long
    MaxPositions = 1
    MaxOrders = 1
    SweepPeriod = 2
    TradeStream = FALSE
    DryRuns = {FALSE}
    Simulate = FALSE
    Operator = FALSE
    MaxCrashes = 1
    MaxHeld = 1
SPECIFICATION Spec
INVARIANT IntentBeforeOrder
