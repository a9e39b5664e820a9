SPECIFICATION EnvSpec
CONSTANTS
    Symbols = {btc}
    Stocks = {}
    MaxSwitches = 1
    MaxOrders = 1
\* SettingsNameTheBroker, in the place of this one, is refuted as well.
INVARIANT ShutdownCancelsOrders
CHECK_DEADLOCK FALSE
