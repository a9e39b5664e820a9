SPECIFICATION Spec
CONSTANTS
    MaxModels = 3
    MaxRuns = 2
    MaxCommands = 1
    MaxRedeploys = 1
\* OnlyActivatedModelsServe, in the place of this one, is refuted as well.
INVARIANT ServesTheActiveModel
CHECK_DEADLOCK FALSE
