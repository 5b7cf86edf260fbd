\* Server started with a tick period: Update runs on the ticker strand.
SPECIFICATION FairSpec
CONSTANTS
    Maps = {map1, map2}
    DIRECTION = {"UP", "NONE"}
    Deltas = {1, 2}
    MaxDelta = 2
    DogRetirementTime = 3
    TestingMode = FALSE
    DatabaseFails = TRUE
    MaxDogs = 2
    MaxPlayTime = 4
INVARIANTS
    PlayersOwnTheirDogs
    RowsCoverRetirementTime
PROPERTIES
    RowsAreFinal
    IdleDogRetires
CHECK_DEADLOCK FALSE
