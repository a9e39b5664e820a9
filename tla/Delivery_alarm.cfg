SPECIFICATION Spec
CONSTANTS
    Signals = {s1}
    Timeout = 1
    SignalTTL = 2
    DedupTTL = 3
    QueueCap = 1
    MaxSendRetries = 2
    MaxRestarts = 1
    MaxRecovers = 1
PROPERTY NoWarningAfterVerdict
CHECK_DEADLOCK FALSE
