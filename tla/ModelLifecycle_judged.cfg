SPECIFICATION Spec
CONSTANTS
    MaxModels = 2
    MaxRuns = 2
    MaxCommands = 1
    MaxRedeploys = 1
INVARIANTS
    DeployedWasJudged
CHECK_DEADLOCK FALSE
