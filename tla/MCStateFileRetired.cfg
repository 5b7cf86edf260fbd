\* A player retires before the server is started again, another one joins after it.
SPECIFICATION Spec
CONSTANTS
    Maps = {map1}
    SessionIds = {0}
    TestingMode = TRUE
    SavePeriodSet = FALSE
    FileExists = TRUE
    Retires = TRUE
    Bags = FALSE
    SignalsRace = FALSE
    MaxPlayers = 3
    MaxLoot = 0
    MaxRuns = 3
PROPERTY SavedStateIsResumed
CHECK_DEADLOCK FALSE
