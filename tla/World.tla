------------------------------- MODULE World --------------------------------
(***************************************************************************)
(* One session of the game: dogs that walk on the roads of its map,        *)
(* collect loot and bring it to offices.  A tick is the part of            *)
(* Game::Update that PetGame leaves open: UpdatePositionAndBag with the    *)
(* collision detector, and UpdateLoot with the loot generator.             *)
(*                                                                         *)
(* Every loot has the value 1.  Timers, players and strands are PetGame's. *)
(***************************************************************************)
EXTENDS Roads

CONSTANTS
    Scenarios,      \* maps, each with bounds of a behaviour on it
    Probability     \* of each tick length, in percent: what the generator multiplies by

ASSUME WorldAssumption ==
    /\ \A s \in Scenarios :
        /\ s.roads \in Seq(Road) \ {<<>>}
        /\ s.offices \subseteq Points /\ IsFiniteSet(s.offices)
        /\ s.dogSpeed \in Nat \ {0}         \* units per second
        /\ s.bagCapacity \in Nat
        /\ s.ticks \subseteq DOMAIN Probability \* bound: lengths of ticks, in ms
        /\ s.directions \subseteq {"U", "D", "L", "R", ""}
        /\ s.dogs \in Nat                   \* bound: dogs of a behaviour
        /\ s.loots \in Nat                  \* bound: loots of a behaviour, none after that
    /\ DOMAIN Probability \subseteq Nat
    /\ \A dt \in DOMAIN Probability : Probability[dt] \in 0 .. 100

VARIABLES
    map,            \* the scenario
    dogs,           \* dogs of the session, by id
    loots,          \* positions of the loot on the map, by id
    dogCounter,     \* Dog::dog_counter
    lootCounter,    \* Loot::loot_counter
    lost            \* how many loots have left with dogs, in their bags or as their scores

vars == <<map, dogs, loots, dogCounter, lootCounter, lost>>

Vector(dir) ==
    CASE dir = "L" -> [x |-> -1, y |-> 0] [] dir = "R" -> [x |-> 1, y |-> 0]
      [] dir = "U" -> [x |-> 0, y |-> -1] [] dir = "D" -> [x |-> 0, y |-> 1]
      [] dir = "" -> [x |-> 0, y |-> 0]

Ids(n) == 0 .. n - 1
BagsOf(s) == {bag \in SUBSET Ids(lootCounter) : Cardinality(bag) <= s.bagCapacity}

TypeOK ==
    /\ map \in Scenarios
    /\ dogCounter \in 0 .. map.dogs
    /\ lootCounter \in 0 .. map.loots
    /\ lost \in 0 .. lootCounter
    /\ DOMAIN dogs \subseteq Ids(dogCounter)
    /\ \A d \in DOMAIN dogs :
        dogs[d] \in [pos : Points, dir : {"U", "D", "L", "R", ""}, moving : BOOLEAN,
                     bag : BagsOf(map), score : 0 .. lootCounter]
    /\ DOMAIN loots \subseteq Ids(lootCounter)
    /\ \A l \in DOMAIN loots : loots[l] \in SpawnPoints(map.roads)

Init ==
    /\ map \in Scenarios
    /\ dogs = <<>>
    /\ loots = <<>>
    /\ dogCounter = 0
    /\ lootCounter = 0
    /\ lost = 0

\* A dog enters where the first road starts or, with randomized spawn points, anywhere.
AddDogToSession ==
    /\ dogCounter < map.dogs
    /\ \E p \in IF map.randomizeSpawnPoints THEN SpawnPoints(map.roads)
                ELSE {[x |-> Unit * map.roads[1].x0, y |-> Unit * map.roads[1].y0]} :
        dogs' = [d \in DOMAIN dogs \cup {dogCounter} |->
                    IF d \in DOMAIN dogs THEN dogs[d]
                    ELSE [pos |-> p, dir |-> "U", moving |-> FALSE, bag |-> {}, score |-> 0]]
    /\ dogCounter' = dogCounter + 1
    /\ UNCHANGED <<map, loots, lootCounter, lost>>

DoAction(d, dir) ==
    /\ dogs' = [dogs EXCEPT ![d].dir = dir, ![d].moving = (dir # "")]
    /\ UNCHANGED <<map, loots, dogCounter, lootCounter, lost>>

\* Only a dog that stands is retired.
RemoveDog(d) ==
    /\ dogs[d].dir = "" \/ ~dogs[d].moving
    /\ dogs' = [c \in DOMAIN dogs \ {d} |-> dogs[c]]
    /\ lost' = lost + Cardinality(dogs[d].bag) + dogs[d].score
    /\ UNCHANGED <<map, loots, dogCounter, lootCounter>>

-----------------------------------------------------------------------------
(* UpdatePositionAndBag, first part.                                       *)

\* A dog that does not get where it heads for stops.
Moved(dog, dt, nearest) ==
    LET goal == Ahead(dog.pos, Vector(dog.dir), map.dogSpeed * dt)
        end == Reached(map.roads, dog.pos, goal, nearest)
    IN  IF dog.moving THEN [dog EXCEPT !.pos = end, !.moving = (end = goal)]
        ELSE dog

-----------------------------------------------------------------------------
(* The collision detector.                                                 *)

\* How far along the way from p to q the point c lies, and how far off it.
Along(p, q, c) ==
    IF p.x # q.x THEN (c.x - p.x) * Toward(p.x, q.x, 1) ELSE (c.y - p.y) * Toward(p.y, q.y, 1)
Off(p, q, c) == IF p.x # q.x THEN Abs(c.y - p.y) ELSE Abs(c.x - p.x)

GathererWidth == 600
OfficeWidth == 500
Office == -1            \* offices have item ids that no loot has

\* TryCollectPoint and IsCollected.
IsCollected(p, q, c, radius) ==
    Along(p, q, c) \in 0 .. Distance(p, q) /\ Off(p, q, c) <= radius

\* The event of dog d, who has walked from p to q, meeting an item at c.
Event(d, item, p, q, c) ==
    [dog |-> d, item |-> item, along |-> Along(p, q, c), length |-> Distance(p, q)]

\* FindGatherEvents; an office is an item too.
GatherEvents(before, after) ==
    LET walkers == {d \in DOMAIN before : before[d].pos # after[d].pos}
        start(d) == before[d].pos
        end(d) == after[d].pos
    IN  UNION {
            {Event(d, l, start(d), end(d), loots[l]) : l \in {m \in DOMAIN loots :
                IsCollected(start(d), end(d), loots[m], GathererWidth)}}
            \cup
            {Event(d, Office, start(d), end(d), o) : o \in {c \in map.offices :
                IsCollected(start(d), end(d), c, GathererWidth + OfficeWidth)}}
          : d \in walkers}

\* Mutant: the last event of a way comes first.
NotEarlier(e, f) == e.along * f.length >= f.along * e.length

\* Events come in the order of their share of the way; those with equal shares in any.
NotLater(e, f) == e.along * f.length <= f.along * e.length
Orders(events) ==
    LET orders[rest \in SUBSET events] ==
            IF rest = {} THEN {<<>>}
            ELSE UNION {{<<e>> \o order : order \in orders[rest \ {e}]} :
                        e \in {f \in rest : \A g \in rest : NotLater(f, g)}}
    IN  orders[events]

-----------------------------------------------------------------------------
(* UpdatePositionAndBag, second part.  What is handled event by event are  *)
(* the dogs, the loot on the map and already_collected_loot.               *)

\* Mutant: the loot of the bag is scored, and stays.
ReleaseNothing(dog) == [dog EXCEPT !.score = @ + Cardinality(dog.bag)]

ReleaseLootBag(dog) == [dog EXCEPT !.score = @ + Cardinality(dog.bag), !.bag = {}]

\* Mutants: one more fits into the bag, or one less.
IsOverfull(dog) == Cardinality(dog.bag) > map.bagCapacity
IsNearlyFull(dog) == Cardinality(dog.bag) + 1 >= map.bagCapacity

IsFull(dog) == Cardinality(dog.bag) >= map.bagCapacity

Handle(state, event) ==
    LET d == event.dog
        dog == state.dogs[d]
        l == event.item
    IN  IF l = Office
        THEN [state EXCEPT !.dogs[d] = ReleaseLootBag(dog)]
        ELSE IF l \in state.collected \/ IsFull(dog)
        THEN state
        ELSE [dogs |-> [state.dogs EXCEPT ![d].bag = @ \cup {l}],
              loots |-> [m \in DOMAIN state.loots \ {l} |-> state.loots[m]],
              collected |-> state.collected \cup {l}]

HandleAll(moved, order) ==
    LET after[n \in 0 .. Len(order)] ==
            IF n = 0 THEN [dogs |-> moved, loots |-> loots, collected |-> {}]
            ELSE Handle(after[n - 1], order[n])
    IN  after[Len(order)]

-----------------------------------------------------------------------------
(* UpdateLoot.  The generator is made anew in every tick, so the time      *)
(* without loot is the time of the tick.                                   *)

Shortage(lootCount, looterCount) ==
    IF lootCount > looterCount THEN 0 ELSE looterCount - lootCount

\* Mutant: loot on the map is not counted.
GenerateForAll(dt, lootCount, looterCount) ==
    Round((Shortage(0, looterCount) * Probability[dt]) \div 10)

Generate(dt, lootCount, looterCount) ==
    Round((Shortage(lootCount, looterCount) * Probability[dt]) \div 10)

Tick(dt) ==
    \E nearest \in BOOLEAN :
        LET moved == [d \in DOMAIN dogs |-> Moved(dogs[d], dt, nearest)]
        IN  \E order \in Orders(GatherEvents(dogs, moved)) :
                LET end == HandleAll(moved, order)
                    due == Generate(dt, Cardinality(DOMAIN end.loots),
                                    Cardinality(DOMAIN dogs))
                    count == Min({due, map.loots - lootCounter})
                IN  /\ dogs' = end.dogs
                    /\ \E new \in [lootCounter .. lootCounter + count - 1 ->
                                    SpawnPoints(map.roads)] :
                        loots' = [l \in DOMAIN end.loots \cup DOMAIN new |->
                                    IF l \in DOMAIN new THEN new[l] ELSE end.loots[l]]
                    /\ lootCounter' = lootCounter + count
                    /\ UNCHANGED <<map, dogCounter, lost>>

Next ==
    \/ AddDogToSession
    \/ \E d \in DOMAIN dogs :
        \/ \E dir \in map.directions : DoAction(d, dir)
        \/ RemoveDog(d)
    \/ \E dt \in map.ticks : Tick(dt)

Spec == Init /\ [][Next]_vars

-----------------------------------------------------------------------------
(* Properties.                                                             *)

\* The code samples the way every 0.1001 units, but for the last piece, so a dog may come
\* to stand beside the road.  It is never farther off than that, however many ticks and
\* turns it takes, and never in the gap between two roads that is wider.
Unsampled == 100
IsNearRoad(road, p) ==
    LET area == Area(road)
    IN  /\ p.x \in area.left - Unsampled .. area.right + Unsampled
        /\ p.y \in area.top - Unsampled .. area.bottom + Unsampled
NearRoads == \A d \in DOMAIN dogs : \E i \in DOMAIN map.roads :
    IsNearRoad(map.roads[i], dogs[d].pos)

Stays(d) == d \in DOMAIN dogs /\ d \in DOMAIN dogs'
Walked(d) == Distance(dogs[d].pos, dogs'[d].pos)

\* A dog that has road before it walks no farther than the roads go (up to the piece that
\* is not sampled), whichever borders and crossroads lie on its way, and it is stopped
\* only where they end.
WalksOnRoads == [][
    \A d \in DOMAIN dogs :
        LET far == Walk(map.roads, dogs[d].pos, Vector(dogs[d].dir))
        IN  Stays(d) /\ dogs[d].moving /\ dogs'[d].dir = dogs[d].dir /\ far > 0 =>
                /\ Walked(d) <= far + Unsampled
                /\ ~dogs'[d].moving => Walked(d) = far ]_vars

\* What the dogs below n own in sum: what they carry and what they have scored.
Owned(pack, d) ==
    IF d \in DOMAIN pack THEN Cardinality(pack[d].bag) + pack[d].score ELSE 0
OwnedBelow(pack, n) ==
    LET sum[k \in 0 .. n] == IF k = 0 THEN 0 ELSE sum[k - 1] + Owned(pack, k - 1)
    IN  sum[n]

\* Every loot is on the map, in one bag, scored once, or gone with a retired dog: none is
\* lost or counted twice, though several dogs may meet it in a tick, at the same share of
\* their ways, with full bags and offices on the way.
LootIsConserved ==
    /\ \A d \in DOMAIN dogs :
        /\ dogs[d].bag \cap DOMAIN loots = {}
        /\ \A c \in DOMAIN dogs \ {d} : dogs[c].bag \cap dogs[d].bag = {}
    /\ lootCounter = Cardinality(DOMAIN loots) + lost + OwnedBelow(dogs, dogCounter)

\* The dog meets what lies at c on its way.
Meets(d, c, radius) ==
    Stays(d) /\ Walked(d) > 0 /\ IsCollected(dogs[d].pos, dogs'[d].pos, c, radius)

\* Loot that dogs meet and leave on the map did not fit: each of them has had as many
\* loots as a bag holds, in its bag or delivered in the same tick.
NothingLeftBehind == [][
    \A l \in DOMAIN loots : l \in DOMAIN loots' =>
        \A d \in DOMAIN dogs : Meets(d, loots[l], GathererWidth) =>
            Cardinality(dogs'[d].bag) + dogs'[d].score - dogs[d].score >= map.bagCapacity ]_vars

\* After an office, a bag holds only what the dog met not before the office.
OfficesEmptyBags == [][
    \A d \in DOMAIN dogs, o \in map.offices : Meets(d, o, GathererWidth + OfficeWidth) =>
        \A l \in dogs'[d].bag :
            /\ l \in DOMAIN loots
            /\ Along(dogs[d].pos, dogs'[d].pos, loots[l]) >=
                    Along(dogs[d].pos, dogs'[d].pos, o) ]_vars

\* When loot is generated, there is not more of it afterwards than there are dogs, as
\* loot_generator.h promises of Generate.
LootNeverExceedsLooters == [][
    (DOMAIN loots') \subseteq DOMAIN loots \/
    Cardinality(DOMAIN loots') <= Cardinality(DOMAIN dogs) ]_vars

\* What model.cpp says of several dogs that meet one loot: the closer dog captures it.
\* If a dog has captured a loot, no dog with room in its bag was nearer to it.
CloserDogCaptures == [][
    \A l \in DOMAIN loots : \A c, d \in DOMAIN dogs :
        LET radius == GathererWidth
            nearer == /\ Along(dogs[c].pos, dogs'[c].pos, loots[l]) <
                             Along(dogs[d].pos, dogs'[d].pos, loots[l])
                      /\ Off(dogs[c].pos, dogs'[c].pos, loots[l]) <=
                             Off(dogs[d].pos, dogs'[d].pos, loots[l])
        IN  /\ Meets(c, loots[l], radius) /\ Meets(d, loots[l], radius)
            /\ l \in dogs'[d].bag
            /\ dogs'[c].bag = {} /\ dogs'[c].score = dogs[c].score
            => ~nearer ]_vars
=============================================================================
