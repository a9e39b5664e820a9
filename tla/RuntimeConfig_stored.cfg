SPECIFICATION Spec
CONSTANTS
    MaxCommands = 3
    MaxCrashes = 1
    Strategies = {s1}
PROPERTY StoredSurvives
CHECK_DEADLOCK FALSE
