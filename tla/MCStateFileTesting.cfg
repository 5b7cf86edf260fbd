\* Ticks are requests, signals find an idle server: with loot, retirements, crashes
\* anywhere and two restarts, what is saved is resumed unless ids are in doubt.
SPECIFICATION Spec
CONSTANTS
    Maps = {map1, map2}
    SessionIds = {0, 1}
    TestingMode = TRUE
    SavePeriodSet = FALSE
    FileExists = TRUE
    Retires = TRUE
    Bags = TRUE
    SignalsRace = FALSE
    MaxPlayers = 3
    MaxLoot = 1
    MaxRuns = 3
INVARIANTS
    TypeOK
    DogIdsUnique
PROPERTY ResumedUnlessInDoubt
CHECK_DEADLOCK FALSE
