\* Two players, ticks as requests: the second one is retired first.
SPECIFICATION FairSpec
CONSTANTS
    Maps = {map1}
    DIRECTION = {"UP", "NONE"}
    Deltas = {1}
    MaxDelta = 1
    DogRetirementTime = 1
    TestingMode = TRUE
    DatabaseFails = FALSE
    MaxDogs = 2
    MaxPlayTime = 2
    map1 = map1
PROPERTY RemovalCompletes
CHECK_DEADLOCK FALSE
