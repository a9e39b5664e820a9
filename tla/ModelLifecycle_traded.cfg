SPECIFICATION Spec
CONSTANTS
    MaxModels = 2
    MaxRuns = 1
    MaxCommands = 2
    MaxRedeploys = 0
PROPERTIES
    RollbackIsTraded
CHECK_DEADLOCK FALSE
