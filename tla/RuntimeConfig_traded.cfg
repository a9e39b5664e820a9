SPECIFICATION Spec
CONSTANTS
    MaxCommands = 3
    MaxCrashes = 1
    Strategies = {s1}
\* EveryParameterFollows, in the place of this one, is refuted as well.
INVARIANT TradedAsSet
CHECK_DEADLOCK FALSE
