SPECIFICATION Spec
CONSTANTS
    Trades = {t1}
    ReplayLimit = 2
    MaxDeliveries = 1
    MaxRestarts = 1
    MaxRecovers = 1
    MaxFailures = 1
INVARIANTS SnapshotResumes ViewFollowsSession LearnedOncePerRun
PROPERTIES LedgerSpec NothingVanishes
CHECK_DEADLOCK FALSE
