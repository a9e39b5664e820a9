SPECIFICATION Spec
CONSTANTS
    MaxCommands = 3
    MaxCrashes = 1
    Strategies = {s1}
INVARIANT CredentialsMatch
CHECK_DEADLOCK FALSE
