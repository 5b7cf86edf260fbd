------------------------------ MODULE PetGame ------------------------------
(***************************************************************************)
(* The core of the game server: who plays, where, for how long, and how a  *)
(* player is retired.  Two activities share the state of model::Game and   *)
(* of app::Players:                                                        *)
(*                                                                         *)
(*   - the API strand, which executes "join" and "action" requests;        *)
(*   - Game::Update, which the ticker strand runs every tick_period ms, or *)
(*     which the API strand runs for POST /api/v1/game/tick when the       *)
(*     server was started without a tick period (TestingMode).             *)
(*                                                                         *)
(* The two strands are different (main.cpp: ticker_strand, api_strand) and *)
(* the io_context runs on several threads, so outside TestingMode a step   *)
(* of a request may fall between any two phases of one Update.             *)
(*                                                                         *)
(* Left out, because nothing here reads it: loot, bags and scores,         *)
(* coordinates (a dog either changed its position in a tick or did not),   *)
(* and the state file.                                                     *)
(***************************************************************************)
EXTENDS Naturals, Sequences

CONSTANTS
    Maps,               \* ids of the maps of the config file
    DIRECTION,          \* enum DIRECTION; "UP" and "NONE" are told apart
    Deltas,             \* the durations of a tick
    MaxDelta,           \* the longest of them
    DogRetirementTime,  \* dog_retirement_time_
    TestingMode,        \* GetTickPeriod() == TICK_TESTING_MODE
    DatabaseFails,      \* may SaveRecord throw
    MaxDogs,            \* bound: number of dogs ever created
    MaxPlayTime         \* bound: the clocks of a dog saturate here

ASSUME ConstantsAssumption ==
    /\ {"UP", "NONE"} \subseteq DIRECTION
    /\ MaxDelta \in Nat
    /\ Deltas \subseteq 0 .. MaxDelta
    /\ DogRetirementTime \in Nat
    /\ TestingMode \in BOOLEAN
    /\ DatabaseFails \in BOOLEAN
    /\ MaxDogs \in Nat
    /\ MaxPlayTime \in Nat
    /\ DogRetirementTime <= MaxPlayTime

DogId == 0 .. (MaxDogs - 1)

\* A Player owns a dog and plays in the session of a map.
Player == [dog : DogId, session : Maps]

VARIABLES
    dog_counter,        \* Dog::dog_counter, the next id
    dog,                \* the Dog objects: direction, non-zero speed, number of moves
    sessions,           \* the maps that have a GameSession
    dogs,               \* GameSession::dogs of each session
    players,            \* Players::players
    joining,            \* the dog of a join between AddDogToSession and push_back
    not_active_dogs,    \* Game::not_active_dogs_, a partial function
    dog_in_game_time,   \* Game::dog_in_game_time_, a partial function
    retired_players,    \* the database table, dog |-> play_time_ms
    update,             \* where Game::Update is
    timeDelta,          \* its parameter
    pending,            \* sessions its first loop has not visited
    session,            \* the session it is visiting
    dogPos,             \* dogs whose position was noted before the move
    moved,              \* those whose position the move changed
    dog_id_to_delete,   \* dogs its last loop has still to retire
    dog_id              \* the dog that loop is retiring

apiVars    == <<dog_counter, sessions, dogs, players, joining>>
timerVars  == <<not_active_dogs, dog_in_game_time>>
updateVars == <<timeDelta, pending, session, dogPos, moved, dog_id_to_delete, dog_id>>
vars == <<apiVars, dog, timerVars, retired_players, update, updateVars>>

-----------------------------------------------------------------------------

LiveDogs == UNION {dogs[m] : m \in Maps}

\* The partial functions over dog ids that std::map<uint64_t, uint64_t> holds.
Timers == UNION {[D -> 0 .. MaxPlayTime] : D \in SUBSET DogId}

NoTimers == [d \in {} |-> 0]
Clock(timers, d) == IF d \in DOMAIN timers THEN timers[d] ELSE 0
Tick(t, delta)   == IF t + delta > MaxPlayTime THEN MaxPlayTime ELSE t + delta

\* timers[d] += delta for d in D; operator[] creates a missing entry with 0.
Advance(timers, D, delta) ==
    [d \in (DOMAIN timers) \cup D |->
        IF d \in D THEN Tick(Clock(timers, d), delta) ELSE timers[d]]

\* Mutant: the entries are never erased.
KeepTimers(timers, D) == timers

\* timers.erase(d) for d in D.
Without(timers, D) == [d \in (DOMAIN timers) \ D |-> timers[d]]

UpdatePhases == {"idle", "sessions", "position", "activity",
                 "retire", "remove", "erase", "spin", "halted", "down"}

TypeOK ==
    /\ dog_counter \in 0 .. MaxDogs
    /\ dog \in [DogId -> [dir : DIRECTION, speed : BOOLEAN, moves : 0 .. 3]]
    /\ sessions \in SUBSET Maps
    /\ dogs \in [Maps -> SUBSET DogId]
    /\ players \in Seq(Player)
    /\ joining \in SUBSET Player
    /\ not_active_dogs \in Timers
    /\ dog_in_game_time \in Timers
    /\ retired_players \in Timers
    /\ update \in UpdatePhases
    /\ timeDelta \in 0 .. MaxDelta
    /\ pending \in SUBSET Maps
    /\ session \in SUBSET Maps
    /\ dogPos \in SUBSET DogId
    /\ moved \in SUBSET DogId
    /\ dog_id_to_delete \in SUBSET DogId
    /\ dog_id \in Nat

\* Dog::Dog(name): facing UP, standing, never moved.
NewDog == [dir |-> "UP", speed |-> FALSE, moves |-> 0]

Init ==
    /\ dog_counter = 0
    /\ dog = [d \in DogId |-> NewDog]
    /\ sessions = {}
    /\ dogs = [m \in Maps |-> {}]
    /\ players = <<>>
    /\ joining = {}
    /\ not_active_dogs = NoTimers
    /\ dog_in_game_time = NoTimers
    /\ retired_players = NoTimers
    /\ update = "idle"
    /\ timeDelta = 0
    /\ pending = {}
    /\ session = {}
    /\ dogPos = {}
    /\ moved = {}
    /\ dog_id_to_delete = {}
    /\ dog_id = 0

-----------------------------------------------------------------------------
(* Requests.  In TestingMode an Update is itself a request of the strand,  *)
(* so no other request runs before it has returned.                        *)

ApiRuns == update # "down" /\ (TestingMode => update = "idle")

\* Mutant: the id is read after the counter was increased.
DogIdFromOne == dog_counter + 1

\* Mutant: ids are the number of players, not a counter of their own.
DogIdByCount == Len(players)

\* dog_counter++ in the constructor of Dog.
NewDogId == dog_counter

\* The first half of Players::AddPlayer: the dog is created and put into the
\* session of its map, which is created for its first dog.  A session created
\* while Update iterates over the sessions may or may not be visited.
AddDogToSession(m) ==
    /\ ApiRuns
    /\ joining = {}
    /\ dog_counter < MaxDogs
    /\ dog_counter' = dog_counter + 1
    /\ sessions' = sessions \cup {m}
    /\ dogs' = [dogs EXCEPT ![m] = @ \cup {NewDogId}]
    /\ joining' = {[dog |-> NewDogId, session |-> m]}
    /\ pending' \in IF update \in {"sessions", "position", "activity"} /\ m \notin sessions
                    THEN {pending, pending \cup {m}}
                    ELSE {pending}
    /\ UNCHANGED <<dog, players, timerVars, retired_players, update, timeDelta,
                   session, dogPos, moved, dog_id_to_delete, dog_id>>

\* The second half: the player of the new dog is appended to the registry.
PushPlayer ==
    /\ ApiRuns
    /\ \E p \in joining : players' = Append(players, p)
    /\ joining' = {}
    /\ UNCHANGED <<dog_counter, sessions, dogs, dog, timerVars, retired_players,
                   update, updateVars>>

\* A join that writes the vectors while Update reads them is a data race, and so
\* is a request that reads them while Update erases from them; when it does not go
\* unnoticed, the process dies.
DataRace ==
    /\ ~TestingMode
    /\ joining # {} \/ update = "remove"
    /\ update \notin {"idle", "halted", "down"}
    /\ update' = "down"
    /\ UNCHANGED <<apiVars, dog, timerVars, retired_players, updateVars>>

\* POST /api/v1/game/player/action with the token of a registered player.
DoAction(p, direction) ==
    /\ ApiRuns
    /\ joining = {}
    /\ dog' = [dog EXCEPT ![p.dog] =
                 [@ EXCEPT !.dir = direction, !.speed = (direction # "NONE")]]
    /\ UNCHANGED <<apiVars, timerVars, retired_players, update, updateVars>>

-----------------------------------------------------------------------------
(* Game::Update, first loop: every session.                                *)

StartUpdate(delta) ==
    /\ update = "idle"
    /\ TestingMode => joining = {}
    /\ timeDelta' = delta
    /\ pending' = sessions
    /\ update' = "sessions"
    /\ UNCHANGED <<apiVars, dog, timerVars, retired_players, session, dogPos, moved,
                   dog_id_to_delete, dog_id>>

\* Note the positions of the dogs of session m and count their time in the game.
CountGameTime(m) ==
    /\ update = "sessions"
    /\ m \in pending
    /\ pending' = pending \ {m}
    /\ session' = {m}
    /\ dogPos' = dogs[m]
    /\ moved' = {}
    /\ dog_in_game_time' = Advance(dog_in_game_time, dogs[m], timeDelta)
    /\ update' = "position"
    /\ UNCHANGED <<apiVars, dog, not_active_dogs, retired_players, timeDelta,
                   dog_id_to_delete, dog_id>>

\* Of the dogs that have a speed, some change position and some meet the border
\* of their road and stop.
UpdatePositionAndBag ==
    /\ update = "position"
    /\ LET running == {d \in DogId : \E m \in session : d \in dogs[m] /\ dog[d].speed}
       IN  \E stopped \in SUBSET running :
             /\ moved' \in SUBSET running
             /\ dog' = [d \in DogId |->
                          IF d \in stopped THEN [dog[d] EXCEPT !.speed = FALSE] ELSE dog[d]]
    /\ update' = "activity"
    /\ UNCHANGED <<apiVars, timerVars, retired_players, timeDelta, pending, session,
                   dogPos, dog_id_to_delete, dog_id>>

\* ++number_of_dog_moves_; only "at most two" is ever asked of it.
Moves(d) == IF dog[d].moves = 3 THEN 3 ELSE dog[d].moves + 1

\* Mutant: the dog that was told to stand is not idle.
IsIdleWhenNew(d, unmoved) == Moves(d) <= 2 /\ d \in unmoved

IsIdle(d, unmoved) ==
    \/ Moves(d) <= 2 /\ d \in unmoved
    \/ dog[d].dir = "NONE"

\* A dog without a noted position is compared with MapPoint(), which may or may
\* not be where it is.
UpdateActivity ==
    /\ update = "activity"
    /\ LET here == UNION {dogs[m] : m \in session}
       IN  \E alike \in SUBSET (here \ dogPos) :
             LET unmoved == (dogPos \ moved) \cup alike
                 idle == {d \in here : IsIdle(d, unmoved)}
             IN  not_active_dogs' =
                   Advance(Without(not_active_dogs, here \ idle), idle, timeDelta)
    /\ dog' = [d \in DogId |->
                 IF \E m \in session : d \in dogs[m]
                 THEN [dog[d] EXCEPT !.moves = Moves(d)] ELSE dog[d]]
    /\ session' = {}
    /\ dogPos' = {}
    /\ moved' = {}
    /\ update' = "sessions"
    /\ UNCHANGED <<apiVars, dog_in_game_time, retired_players, timeDelta, pending,
                   dog_id_to_delete, dog_id>>

-----------------------------------------------------------------------------
(* Game::Update, second loop: the dogs that were idle for too long.        *)

\* Mutant: the tick in progress is counted twice.
IsOverdueSoon(d) == not_active_dogs[d] + timeDelta >= DogRetirementTime

IsOverdue(d) == not_active_dogs[d] >= DogRetirementTime

SelectRetired ==
    /\ update = "sessions"
    /\ pending = {}
    /\ dog_id_to_delete' = {d \in DOMAIN not_active_dogs : IsOverdue(d)}
    /\ update' = "retire"
    /\ UNCHANGED <<apiVars, dog, timerVars, retired_players, timeDelta, pending,
                   session, dogPos, moved, dog_id>>

IsNext(d) == d \in dog_id_to_delete /\ \A e \in dog_id_to_delete : d <= e

\* INSERT ... ON CONFLICT (id) DO UPDATE, with the play time of dog d.
WithRecord(d) ==
    [e \in (DOMAIN retired_players) \cup {d} |->
        IF e = d THEN Clock(dog_in_game_time, d) ELSE retired_players[e]]

\* An exception leaves Update and io_context::run, also when it was thrown on the
\* stack of RequestHandler (module HttpServer).  The process dies on a worker thread
\* ("down"); on the main thread the others serve requests while main waits for them.
\* In testing mode these may be ticks; the ticker was not re-armed, so without it no
\* tick follows ("halted").
LeaveByException ==
    /\ dog_id_to_delete' = {}
    /\ timeDelta' = 0
    /\ update' \in IF TestingMode THEN {"idle", "down"} ELSE {"halted", "down"}

\* GetDogByID, then the row of the dog is written.  An id of no dog throws a
\* logic_error; reading the time in the game creates a missing entry.
SaveRecord(d) ==
    /\ update = "retire"
    /\ IsNext(d)
    /\ dog_id' = d
    /\ IF d \in LiveDogs
       THEN /\ dog_in_game_time' = Advance(dog_in_game_time, {d}, 0)
            /\ retired_players' = WithRecord(d)
            /\ update' = "remove"
            /\ UNCHANGED <<timeDelta, dog_id_to_delete>>
       ELSE /\ LeaveByException
            /\ UNCHANGED <<dog_in_game_time, retired_players>>
    /\ UNCHANGED <<apiVars, dog, not_active_dogs, pending, session, dogPos, moved>>

\* The database throws, before or after the row is committed.
SaveRecordThrows(d) ==
    /\ DatabaseFails
    /\ update = "retire"
    /\ IsNext(d)
    /\ d \in LiveDogs
    /\ retired_players' \in {retired_players, WithRecord(d)}
    /\ dog_in_game_time' = Advance(dog_in_game_time, {d}, 0)
    /\ LeaveByException
    /\ UNCHANGED <<apiVars, dog, not_active_dogs, pending, session, dogPos, moved,
                   dog_id>>

\* Mutant: the player goes, its dog stays in the session.
RemovePlayerOnly ==
    /\ update = "remove"
    /\ players # <<>>
    /\ Head(players).dog = dog_id
    /\ players' = Tail(players)
    /\ update' = "erase"
    /\ UNCHANGED <<dog_counter, sessions, dogs, joining, dog, timerVars,
                   retired_players, updateVars>>

\* Players::RemovePlayerFromGameByDogId.  Its iterator never advances: the loop
\* ends when there is no player, or when the first player owns the dog.
RemoveFirstPlayer ==
    /\ update = "remove"
    /\ players # <<>>
    /\ Head(players).dog = dog_id
    /\ dogs' = [dogs EXCEPT ![Head(players).session] = @ \ {dog_id}]
    /\ players' = Tail(players)
    /\ update' = "erase"
    /\ UNCHANGED <<dog_counter, sessions, joining, dog, timerVars, retired_players,
                   updateVars>>

NoPlayerToRemove ==
    /\ update = "remove"
    /\ players = <<>>
    /\ update' = "erase"
    /\ UNCHANGED <<apiVars, dog, timerVars, retired_players, updateVars>>

Spin ==
    /\ update = "remove"
    /\ players # <<>>
    /\ Head(players).dog # dog_id
    /\ update' = "spin"
    /\ UNCHANGED <<apiVars, dog, timerVars, retired_players, updateVars>>

EraseTimers ==
    /\ update = "erase"
    /\ not_active_dogs' = Without(not_active_dogs, {dog_id})
    /\ dog_in_game_time' = Without(dog_in_game_time, {dog_id})
    /\ dog_id_to_delete' = dog_id_to_delete \ {dog_id}
    /\ dog_id' = 0
    /\ update' = "retire"
    /\ UNCHANGED <<apiVars, dog, retired_players, timeDelta, pending, session, dogPos,
                   moved>>

FinishUpdate ==
    /\ update = "retire"
    /\ dog_id_to_delete = {}
    /\ timeDelta' = 0
    /\ update' = "idle"
    /\ UNCHANGED <<apiVars, dog, timerVars, retired_players, pending, session, dogPos,
                   moved, dog_id_to_delete, dog_id>>

-----------------------------------------------------------------------------

Request ==
    \/ \E m \in Maps : AddDogToSession(m)
    \/ PushPlayer
    \/ \E i \in DOMAIN players, direction \in DIRECTION : DoAction(players[i], direction)

UpdateStep ==
    \/ \E m \in Maps : CountGameTime(m)
    \/ UpdatePositionAndBag
    \/ UpdateActivity
    \/ SelectRetired
    \/ \E d \in DogId : SaveRecord(d)
    \/ \E d \in DogId : SaveRecordThrows(d)
    \/ RemoveFirstPlayer
    \/ NoPlayerToRemove
    \/ Spin
    \/ EraseTimers
    \/ FinishUpdate

Next ==
    \/ Request
    \/ \E delta \in Deltas : StartUpdate(delta)
    \/ UpdateStep
    \/ DataRace

Spec == Init /\ [][Next]_vars

\* A thread that entered Update runs on, and the ticker re-arms its timer at the
\* end of every tick; nobody has to join or to move.
Fairness ==
    /\ WF_vars(UpdateStep)
    /\ WF_vars(\E delta \in Deltas : StartUpdate(delta))
    /\ WF_vars(PushPlayer)

FairSpec == Spec /\ Fairness

-----------------------------------------------------------------------------
(* Safety.                                                                 *)

\* The dog Update is about to retire is a dog of some session: the branch that
\* throws "dog must be real instance to update it score." is never taken, since
\* whatever removes a dog from its session also erases its timers.
RetiredDogIsReal == update = "retire" => dog_id_to_delete \subseteq LiveDogs

\* Every player owns a dog of the session it plays in, no dog has two players,
\* and every dog of a session has a player unless its join is still under way.
PlayersOwnTheirDogs ==
    /\ \A i \in DOMAIN players : players[i].dog \in dogs[players[i].session]
    /\ \A i, j \in DOMAIN players : players[i].dog = players[j].dog => i = j
    /\ \A m \in Maps : \A d \in dogs[m] :
         \/ \E i \in DOMAIN players : players[i] = [dog |-> d, session |-> m]
         \/ [dog |-> d, session |-> m] \in joining

\* A row of the leaderboard never shows less play time than it takes to retire.
\* A dog that joins in the middle of a tick of the other strand misses the count
\* of that tick, so there the row may be short by one tick.
Slack == IF TestingMode THEN 0 ELSE MaxDelta
RowsCoverRetirementTime ==
    \A d \in DOMAIN retired_players : retired_players[d] + Slack >= DogRetirementTime

\* When the database does not fail and requests do not overlap an Update, a dog
\* with a row in the table has left the game, except for the one Update is
\* removing at this moment.
RetiredDogsAreGone ==
    (TestingMode /\ ~DatabaseFails) =>
        \A d \in (DOMAIN retired_players) \cap LiveDogs :
            d = dog_id /\ update \in {"remove", "spin"}

\* A retired dog never comes back, and its row in the table is final.
RowsAreFinal ==
    [][\A d \in DOMAIN retired_players :
          d \notin LiveDogs =>
             /\ d \notin LiveDogs'
             /\ d \in DOMAIN retired_players'
             /\ retired_players'[d] = retired_players[d]]_vars

-----------------------------------------------------------------------------
(* The inductive invariant: what the five properties rest on.              *)

InFirstLoop  == update \in {"sessions", "position", "activity"}
InSecondLoop == update \in {"retire", "remove", "erase", "spin"}
InRemoval    == update \in {"remove", "erase", "spin"}

\* Ids come from the counter, and a dog is in one session only.
DogIdsUnique ==
    /\ \A d \in LiveDogs \cup (DOMAIN retired_players) \cup dogPos : d < dog_counter
    /\ \A m, n \in Maps : \A d \in dogs[m] \cap dogs[n] : m = n

\* The registry is in join order, and its newest entry is the one under way.
RegistryInJoinOrder ==
    /\ \A i \in DOMAIN players : players[i].dog \in dogs[players[i].session]
    /\ \A i, j \in DOMAIN players : i < j => players[i].dog < players[j].dog
    /\ \A p \in joining :
         /\ p.dog \in dogs[p.session]
         /\ \A i \in DOMAIN players : players[i].dog < p.dog
         /\ \A q \in joining : p = q
    /\ \A m \in Maps : \A d \in dogs[m] :
         \/ \E i \in DOMAIN players : players[i] = [dog |-> d, session |-> m]
         \/ [dog |-> d, session |-> m] \in joining
    /\ (TestingMode /\ update # "idle") => joining = {}

\* Idle timers belong to live dogs, but for the one whose removal is not yet
\* followed by the erasure of its timers.
TimersFollowDogs ==
    /\ \A d \in DOMAIN not_active_dogs :
         d \in LiveDogs \/ (update = "erase" /\ d = dog_id) \/ update = "down"
    /\ dog_id_to_delete \subseteq DOMAIN not_active_dogs
    /\ InRemoval => dog_id \in dog_id_to_delete
    /\ update \in {"idle", "halted", "sessions", "position", "activity"}
         => dog_id_to_delete = {}

\* A dog has been idle no longer than it has been playing, up to Slack; between
\* the count of a session and the end of its visit the play time is ahead.
PlayTimeCoversIdleTime ==
    /\ \A d \in DogId :
         Clock(not_active_dogs, d) <= Clock(dog_in_game_time, d) + Slack
    /\ update \in {"position", "activity"} =>
         \A m \in session : \A d \in dogs[m] :
             IF d \in dogPos
             THEN Tick(Clock(not_active_dogs, d), timeDelta)
                    <= Clock(dog_in_game_time, d) + Slack
             ELSE ~TestingMode /\ Clock(not_active_dogs, d) = 0
    /\ \A d \in dog_id_to_delete : Clock(not_active_dogs, d) >= DogRetirementTime

-----------------------------------------------------------------------------
(* Liveness.                                                               *)

\* A dog that stands with no direction is retired in the end, unless it moves
\* again, the process dies, the ticks have stopped, or the removal of a player
\* spins on a registry whose first player owns another dog.
IdleDogRetires ==
    \A d \in DogId :
        (d \in LiveDogs /\ dog[d].dir = "NONE")
            ~> (\/ d \notin LiveDogs
                \/ dog[d].dir # "NONE"
                \/ update \in {"spin", "halted", "down"})

\* RemovePlayerFromGameByDogId removes the player from the game.
RemovalCompletes ==
    \A d \in DogId : (update = "remove" /\ dog_id = d) ~> (d \notin LiveDogs)
=============================================================================
