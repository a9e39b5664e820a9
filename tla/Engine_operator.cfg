CONSTANTS
    t1 = t1
    t2 = t2
    AAPL = AAPL
    MSFT = MSFT
    NoTrade = NoTrade
    TradeId <- OneTrade
    Syms <- OneSym
    Sides <- Long
    MaxPositions = 1
    MaxOrders = 2
    SweepPeriod = 2
    TradeStream = TRUE
    DryRuns = {TRUE, FALSE}
    Simulate = TRUE
    Operator = TRUE
    MaxCrashes = 1
    MaxHeld = 1
SPECIFICATION Spec
INVARIANTS PositionTradesHaveOrders PipelineOwnsTrade
PROPERTY ErrorsAreNotPositions
