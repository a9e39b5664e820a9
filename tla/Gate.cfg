CONSTANTS
    Equities <- SomeEquities
    Results <- LossOrNothing
    DailyLosses <- TwoLimits
    OrderLimit = 1
    AccountDaily = 3
    AccountWeekly = 7
    Drawdown = 15
    KillDrawdown = 25
    Slots = 2
    MaxTrades = 1
    MaxLoss = 1
SPECIFICATION Spec
INVARIANTS PauseHonoured HaltHonoured NoEntryBelowDrawdown
