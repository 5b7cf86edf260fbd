\* Ticks on a strand of their own: joins and signals fall between the steps of a save.
SPECIFICATION FairSpec
CONSTANTS
    Maps = {map1}
    SessionIds = {0}
    TestingMode = FALSE
    SavePeriodSet = TRUE
    FileExists = TRUE
    Retires = TRUE
    Bags = FALSE
    SignalsRace = TRUE
    MaxPlayers = 2
    MaxLoot = 1
    MaxRuns = 2
INVARIANTS
    PlayersPlayWithTheirDogs
PROPERTY SaveCycleContinues
CHECK_DEADLOCK FALSE
