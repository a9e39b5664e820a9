SPECIFICATION Spec
CONSTANTS
    Trades = {t1}
    ReplayLimit = 2
    MaxDeliveries = 1
    MaxRestarts = 1
    MaxRecovers = 1
    MaxFailures = 1
INVARIANT OneSamplePerTrade
\* CountedOnce, in the place of this one, is refuted as well.
CHECK_DEADLOCK FALSE
