------------------------------ MODULE MCWorld -------------------------------
(* Maps for checking World.                                                *)
EXTENDS World

From(x0, y0, x1, y1) == [x0 |-> x0, y0 |-> y0, x1 |-> x1, y1 |-> y1]
At(x, y) == [x |-> Unit * x, y |-> Unit * y]

\* One dog; a crossroads, a bend, two parallel roads a gap apart, and a road with a gap.
Walking ==
    [roads |-> <<From(0, 0, 2, 0), From(1, 2, 1, 0), From(0, 1, 0, 0), From(4, 0, 5, 0)>>,
     offices |-> {}, dogSpeed |-> 4, bagCapacity |-> 0, randomizeSpawnPoints |-> TRUE,
     ticks |-> {100, 125, 1000}, directions |-> {"U", "D", "L", "R"}, dogs |-> 1, loots |-> 0]

\* Two dogs on one road, which an office is near to.
Gathering ==
    [roads |-> <<From(0, 0, 2, 0)>>,
     offices |-> {At(1, 1)}, dogSpeed |-> 4, bagCapacity |-> 1, randomizeSpawnPoints |-> FALSE,
     ticks |-> {200, 500}, directions |-> {"L", "R", ""}, dogs |-> 2, loots |-> 2]

\* Two dogs on two roads that meet.
Crowd ==
    [roads |-> <<From(0, 0, 2, 0), From(2, -1, 2, 1)>>,
     offices |-> {}, dogSpeed |-> 4, bagCapacity |-> 1, randomizeSpawnPoints |-> TRUE,
     ticks |-> {100, 500}, directions |-> {"R", "D"}, dogs |-> 2, loots |-> 1]

MCScenarios == {Walking, Gathering}
MCCrowd == {Crowd}
MCProbability == 100 :> 30 @@ 125 :> 0 @@ 200 :> 40 @@ 500 :> 100 @@ 1000 :> 100
=============================================================================
