CONSTANTS
    Equities <- SomeEquities
    Results <- LossOrNothing
    DailyLosses <- OneLimit
    OrderLimit = 1
    AccountDaily = 3
    AccountWeekly = 7
    Drawdown = 15
    KillDrawdown = 25
    Slots = 1
    MaxTrades = 1
    MaxLoss = 1
SPECIFICATION Spec
PROPERTY ResumeClearsHalt
