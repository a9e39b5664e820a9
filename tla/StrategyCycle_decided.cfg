SPECIFICATION Spec
CONSTANTS
    N = 3
    StockOnly = {1}
    Symbols = 2
    Interval = 2
    Faults = {}
    Answers = {FALSE}
    MaxContracts = 2
    MaxCrashes = 0
PROPERTIES EverySignalIsDecided
