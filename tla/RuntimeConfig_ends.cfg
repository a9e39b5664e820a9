SPECIFICATION Spec
CONSTANTS
    MaxCommands = 3
    MaxCrashes = 1
    Strategies = {s1}
PROPERTY CommandsDoNotEndIt
CHECK_DEADLOCK FALSE
