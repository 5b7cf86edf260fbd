\* Two players, one loot, up to two polls of a kind at a time.
SPECIFICATION FairSpec
CONSTANTS
    Me = me
    Players = {me, other}
    Loots = {l1}
    LootTypes = 1
    Keys = {"U", "R"}
    PosUpdateInterval = 2
    PlayersUpdateInterval = 2
    Objects = {1, 2, 3, 4}
    Refs = {1, 2, 3}
    Scenarios <- MCScenarios
    NoData = NoData
    NoState = NoState
    me = me
    other = other
    l1 = l1
INVARIANTS
    TypeOK
    TablesShareBags
    ObjectsHeldOnce
    SceneMatchesTables
    DirectionFollowsKeys
PROPERTIES
    RetiredSeesRecords
    ScreenConverges
CHECK_DEADLOCK FALSE
