\* A map to walk on and a map to collect loot on.
SPECIFICATION Spec
CONSTANTS
    Scenarios <- MCScenarios
    Probability <- MCProbability
INVARIANTS
    TypeOK
    NearRoads
    LootIsConserved
PROPERTIES
    WalksOnRoads
    NothingLeftBehind
    OfficesEmptyBags
    LootNeverExceedsLooters
