SPECIFICATION StreamSpec
CONSTANTS
    Fills = {f1, f2, f3}
    MaxSeen = 2
    MaxReconnects = 4
    MaxBackoff = 4
    MaxDeliveries = 5
INVARIANT FillsApart
PROPERTIES StreamReturns StopEnds
CHECK_DEADLOCK FALSE
