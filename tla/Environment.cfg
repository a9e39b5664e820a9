SPECIFICATION EnvSpec
CONSTANTS
    Symbols = {btc, aapl}
    Stocks = {aapl}
    MaxSwitches = 2
    MaxOrders = 1
INVARIANTS ModesAgree DrainedUnlessRefused
PROPERTIES SwitchIsAllOrNothing SwitchReturns
CHECK_DEADLOCK FALSE
