\* A dog carries loot when the server is stopped.
SPECIFICATION Spec
CONSTANTS
    Maps = {map1}
    SessionIds = {0}
    TestingMode = TRUE
    SavePeriodSet = FALSE
    FileExists = TRUE
    Retires = FALSE
    Bags = TRUE
    SignalsRace = FALSE
    MaxPlayers = 1
    MaxLoot = 1
    MaxRuns = 2
PROPERTY SavedStateIsResumed
CHECK_DEADLOCK FALSE
