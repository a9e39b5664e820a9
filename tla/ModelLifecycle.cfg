SPECIFICATION Spec
CONSTANTS
    MaxModels = 3
    MaxRuns = 2
    MaxCommands = 1
    MaxRedeploys = 1
INVARIANTS
    OnlyChosenModelsServe
    PredictorMeansTheRegistry
    RunsNumberedApart
PROPERTIES
    PredictorFollows
CHECK_DEADLOCK FALSE
