SPECIFICATION Spec
CONSTANTS
    MaxCommands = 2
    MaxCrashes = 2
    Strategies = {s1}
INVARIANTS CacheFollowsStore SettingsArePersisted StrategyFollowsSettings
PROPERTY ChangesReachTheLoop
CHECK_DEADLOCK FALSE
