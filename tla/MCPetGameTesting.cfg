\* Server started without a tick period: ticks are requests of the API strand.
SPECIFICATION Spec
CONSTANTS
    Maps = {map1, map2}
    DIRECTION = {"UP", "NONE"}
    Deltas = {1, 2}
    MaxDelta = 2
    DogRetirementTime = 2
    TestingMode = TRUE
    DatabaseFails = FALSE
    MaxDogs = 3
    MaxPlayTime = 3
SYMMETRY MapSymmetry
INVARIANTS
    TypeOK
    RetiredDogIsReal
    PlayersOwnTheirDogs
    RetiredDogsAreGone
CHECK_DEADLOCK FALSE
