# A TLA+ model of the pet game server

The program is the server of a browser game, written in C++ on Boost.Asio. Players own
dogs that run along the roads of a map, collect loot and carry it to offices. A dog that
stands still for too long is retired: its row is written into a PostgreSQL table, the
leaderboard, and its player leaves the game. The state of the game can be saved to a file
and resumed by the next process.

This directory holds a TLA+ model of the parts of that server in which many steps of
several actors have to fit together, the configurations that check it with TLC, and
proofs checked with TLAPS. File names without a directory are those of `src/src/`; `PROJECT.json`
maps every definition to the lines of code it stands for.

Contents: 1 the system, 2 the modules, 3 the runs, 4 fairness, 5 the proofs,
6 what the model says about the code, 7 what is not modelled, 8 the plan.

## 1. The system

### Processes and threads

`main` makes an `io_context` and runs it on as many threads as the machine has. Work is
divided among

- the **API strand**: every `/api/` request is dispatched to it, one at a time;
- the **ticker strand**: a timer runs `Game::Update` every tick period, and another
  timer, the save timer, sets a flag. Without a tick period (*testing mode*) there is no
  ticker, and `POST /api/v1/game/tick` runs `Game::Update` on the API strand;
- the **signal handler** for SIGINT and SIGTERM, which any thread may run;
- everything else (sockets, static files), on any thread.

The two strands are different strands, so outside testing mode a request and an update
run at the same time on the same unlocked data. That is the first source of the hard
behaviours here; the second is that a save and a load are long walks over data that
something else changes, and that may be cut off anywhere.

### Components

| component | state | operations | properties that make it correct |
|---|---|---|---|
| game core (`model.cpp`, `application.cpp`) | sessions and their dogs, the registry of players, the id counter, idle and play timers of dogs, the leaderboard | join, action, tick (move, count, retire) | the registry and the sessions agree; a retired dog is real, gone for good, and its row final and plausible; an idle dog is retired in the end; a removal comes to an end |
| connection pool (`postgres.h`) | slots, counter, leases, sleeping threads | get, return, notify | exclusive leases; nothing lost; no lost wakeup; nobody starves as a group; with a connection per thread nobody sleeps |
| state file (`model.cpp`, `model_serialization.h`, `main.cpp`) | the file, id counters, the save timer, the walk of a save | save on tick, save on signal, load, crash, restart | what a completed save wrote is resumed; ids stay unique; players keep their dogs; the save cycle goes on |
| movement on roads (`UpdatePositionAndBag`) | positions and speeds | move | a dog stays on the roads and walks as far as they go; it is stopped only where they end |
| gathering (`UpdatePositionAndBag`, `collision_detector.cpp`) | loot on the map, bags, scores | collect, deliver | no loot is lost or counted twice; what fits is taken, by whom the rule says; an office empties the bag |
| loot generator (`loot_generator.cpp`) | time without loot | generate | never more loot than looters |
| request API (`request_api.h`) | none | dispatch on target, method, token, body | every request gets the answer of the first check it fails; a wrong request changes nothing |
| HTTP server (`http_server.cpp`, `request_handler.h`) | sockets, one request in flight, timeout | read, handle, write, close | one answer for every request, in order |
| configuration loader (`json_loader.cpp`, `extra_data.cpp`) | none after the start | parse | defaults; a wrong file stops the start |
| static files (`request_file.cpp`, `response_utils.cpp`) | none | decode, look up, send | a path is decoded and stays below the root |
| browser client (`static/js/game.js`) | state and list of the last polls, the players' data and bags, lost and disappearing loot, the scene, keys down | load, poll, apply an answer, draw, press and release keys | tables, bags and scene agree whatever order answers come in; the dog runs the way of the last key; the page shows the game in the end; a retired player sees the records |
| vendored JavaScript (`static/js/three.js`, `loaders/`, `controls/`, `utils/`) | third-party | | |
| logger, deployment, monitoring | none of the game | | |

### Interactions

- A *join* creates a dog in the session of its map (`Game::AddDogToSession`, which also
  creates the session for the first dog) and then appends a player to the registry
  (`Players::AddPlayer`). Between the two, the dog exists and its player does not.
- A *tick* visits the sessions one after the other: it notes the dogs' positions and
  counts their play time, moves them, and then advances or erases their idle time. It
  then selects the dogs that were idle for too long, and for each of them writes its
  row, removes its player and its dog, and erases its timers. Last, it saves the state.
- *SaveRecord* leases a connection from the pool; it may throw, in the middle of the
  retirements. Where the exception ends depends on who runs the tick.
- The *page* polls the state every few frames and the list of players every few more, on several connections
  and without waiting for answers; a key that goes down or up is posted the same way. Two tables, of the last
  state and of the last list, share the data of each player.
- A *save* truncates the file and walks the game four times: loot, dogs, sessions,
  players. *LoadState* counts what it reads and throws when the numbers do not fit, and
  then the server does not start.

### Hard behaviours

Interleavings of the two strands inside one tick; a database that fails in the middle of
the retirements; a join, a removal or a signal inside a save; a crash between any two steps; ids
that outlive their process; a loop whose end depends on the order of the players; lost
wakeups; several dogs, loots and offices on crossing ways in one tick, with bags that are full; answers to polls
that overtake one another or are lost. `PROJECT.json` lists each at its line under "hazards".

## 2. The modules

| module | models |
|---|---|
| `PetGame` | game core: joins, actions, the phases of `Game::Update`, retirement |
| `PetGameProofs` | its theorems |
| `ConnectionPool` | `postgres::ConnectionPool` with its mutex and condition variable |
| `ConnectionLease` | what the pool promises: exclusive leases (abstract) |
| `ConnectionPoolProofs` | the pool's theorems, refinement included |
| `Roads` | how far a dog gets in one tick: borders, crossings, samples, as operators; and how far it ought to get |
| `World` | one session of dogs that walk, collect and deliver, with the collision detector and the loot generator |
| `WorldProofs` | theorems about `Roads` and the loot generator |
| `WorldSafetyProofs` | the theorems about `World`: its invariants and what a tick does |
| `GameClient` | the page: polls, answers, keys, tables and scene |
| `GameClientProofs` | its theorems |
| `StateFile` | save, load, the save timer, signals, crash and restart |
| `StateFileProofs` | its theorems |
| `HttpServer` | listener, sessions, the API strand, deadlines, exceptions, signals |
| `RequestApi` | the reply to every request, as operators; used by `HttpServer` |
| `HttpConversation` | what the server promises to a connection (abstract) |
| `HttpServerProofs` | the server's theorems, refinement included |
| `InductionLemmas` | induction on numbers as a fact about sets; used by the proofs about recursive functions |
| `MCPetGame`, `MCConnectionPool`, `MCStateFile`, `MCHttpServer`, `MCWorld`, `MCGameClient` | model values, maps and scenarios; extended by TLC's configurations |

### PetGame

The variables carry the names of the code: `sessions` and `dogs` are `Game::sessions` and
the dogs of each session, `players` is `Players::players`, `not_active_dogs` and
`dog_in_game_time` are the two `std::map`s of `Game` as partial functions, `retired_players`
is the table. `update` is the program counter of `Game::Update`; `pending`, `session`, `dogPos`,
`moved`, `dog_id_to_delete`, `dog_id` are its local variables; `joining` is the local
variable of a join.

One action is one stretch of code that another strand can observe as a whole:
`AddDogToSession` and `PushPlayer` are the halves of a join, `DoAction` is an action request;
`StartUpdate`, `CountGameTime`, `UpdatePositionAndBag`, `UpdateActivity`, `SelectRetired`, `SaveRecord` (or
`SaveRecordThrows`), `RemoveFirstPlayer` (or `NoPlayerToRemove`, or `Spin`), `EraseTimers` and
`FinishUpdate` are the phases of a tick, in that order. In testing mode an update
is itself a request, so `ApiRuns` keeps requests out while one runs; otherwise they fall between
any two phases.

What the abstraction does:

- A position is reduced to whether it changed in this tick; a dog with a speed may move,
  stop, do both or neither. A dog that joined after positions were noted is compared with a
  default point and may or may not be equal to it.
- A number of moves above two is the same as three (the code only asks "at most two").
- Times are small numbers; clocks saturate at `MaxPlayTime`, which is not less than the
  retirement time, so no comparison the code makes is changed.
- A data race on a vector (a join writes it, an update reads it) is undefined behaviour. It either goes
  unnoticed, which is the interleaving of the model, or ends the process (`DataRace`,
  `update = "down"`).
- An exception out of `Update` leaves `io_context::run` (see `HttpServer`): on a worker thread that ends
  the process; on the main thread the remaining threads go on serving requests, in testing mode ticks too,
  but the ticker was not armed again (`"halted"`). That the main thread can be lost only once is not
  tracked here.
- `RemovePlayerFromGameByDogId` is what the code is: a loop that looks at the first player again and
  again. When that is not the player of the dog, it never ends (`"spin"`).
- The dog and the player are removed in one step (`RemoveFirstPlayer`). Between the two (`application.cpp:122`) the registry still has the
  player of a dog that is gone; requests look players up in the registry only, so they find what they find before the removal. `PlayersOwnTheirDogs`
  is therefore about whole removals. A save of the signal handler does see the difference, so `StateFile` has two steps there.

### Roads and World

`World` is what `PetGame` leaves open in a tick: `UpdatePositionAndBag` and `UpdateLoot` for one session. `dogs` and `loots` are the
session's, by id; `lost` counts the loot and the scores that left with retired dogs and is there for `LootIsConserved`. The
actions are `AddDogToSession`, `DoAction`, `RemoveDog` and `Tick`, whose parts have the order of the code: `Moved`
for every dog, `GatherEvents` of all ways, `HandleAll` in one of the orders the sort may give, `Generate`.

Lengths are whole thousandths of a unit, which is what the code rounds positions to, and the arithmetic is exact:
that of doubles is not modelled. `Reached` has the three cases of the code: no border crossed, one, several.
When a dog walks along a border, the crossing has two ends and the code takes the one that `boost::geometry` returns first,
which is not fixed: `nearest` is either, for all dogs of a tick at once.
`AllPointsOnRoad` samples the way every 0.1001 units as the loops of the code do. A walk has an exact reference, `Walk`,
which does not sample and knows no borders: the first end of a road after which there is no road.

Loot has the value 1. The generator's power function is `Probability`, a table over the lengths of ticks in
percent, since `UpdateLoot` makes a new generator in every tick and only the length of the tick enters.

### GameClient

The variables are the fields of `GameState`, `KeyState` and the scene; `life`, `place` and `dir` are the game on the server as
far as answers show it. Names (`Refs`, `Objects`) stand for the objects of JavaScript, so that two tables can share one. `requests`,
`answers`, `actions` and `acks` are messages under way; an answer is taken from any place
of its queue, and what was passed over is marked `late`.

One action is one callback or one frame: `Tick`, `StateArrives`, `PlayersArrive`, `Refused` (401), `KeyDown`, `KeyUp`,
`ActionDone`. `ApplyDesiredState` is the whole of `_applyDesiredState`: new players get data and an empty bag,
loot gets an object when it is first seen, moves between `lostObjects` and bags, and goes through
`disappearing` out of the scene. `Listed` and `SceneAfterList` are `_updatePlayersList`. JavaScript runs one callback at a
time, so there is nothing smaller.

`disagreed` and `actionOvertaken` record that answers or actions came out of order; two properties are stated for the other case only,
and `ScreenConverges` says that the harm does not last.

### ConnectionPool and ConnectionLease

The critical sections are the actions: `Take` and `Wait` are `GetConnection`, `PutBack` is
`ReturnConnection` up to the unlock and `NotifyOne` the call behind it; a sleeping thread may
also wake spuriously. `pc` is where a thread is. The abstract
`ConnectionLease` has only `conn_`, the connection each thread holds, and the rule that a leased
connection is not leased again; the pool implements it with the identity as refinement
mapping (hidden: slots, counter, program counters).

### StateFile

The process (`off`, `up`, `failed`), its memory (`dog_counter`, `loot_counter`, `sessions`, `players`,
`bags`, `joining`), the timer of the save cycle, two writers (the save of an update and that
of the signal handler), and the file. A save has four steps per writer, `Open`, `WriteDogs`, `WriteSessions`,
`WritePlayers`, and the file is torn from the first to the last of them. `Crash` may happen
between any two steps and forgets the memory; `Start` loads the file or fails.

`update` is the program counter of `Game::Update`, coarser than in `PetGame` but for one place. `Update` is its first loop, which may create loot or
fill or empty a bag. A retirement has the two steps of `RemovePlayerFromGameByDogId`: `RemoveDog` takes the first player's dog from
its session (`application.cpp:122`), `ErasePlayer` the player from the registry (line 123), and a save of the signal handler may take any of its
own steps in between. `RemovalSpins` is the removal of another player, which does not come back (`"spin"`); `RecordThrows` is an exception of the
database, which ends the request in testing mode and leaves the ticker unarmed otherwise (`"halted"`; where it ends the process it is a `Crash`).
`FinishUpdate` calls `SaveState` or does not. In testing mode all of this is part of a request, so no join falls into it.

`LoadState` models every check the
code makes: `Reads` is true when none of the counts it compares differ, and `RestoredCounter`,
`RestoredLootCounter`, `RestoredDogs` and `RestoredPlayers` say what the new process has afterwards.
The order in which an `unordered_map` of sessions is walked is any order. `GameSession::id`
is never initialized; its values are the constant `SessionIds`.

Four things are added for the properties. `who` and `token`, the number of the join, say which
dog and which player an object is, across restarts. `promise` holds the facts (token, dog,
map) that a completed save must give back: those true when it began and those true when
it ended. It is withdrawn when a save opens the file, since a crash then leaves
a torn file. `doubts` says what the ids of the saves loaded so far have left open: `"dogs"` when the dogs of one were not
numbered 0, 1, 2 and so on, since some had retired, so that an id may be given again (section 6); `"sessions"` when two sessions of
one had the same id, so that a player may be put into either; `"loots"` when one had loot, whose ids are given again.
`parted` has the tokens of the players whose dog was removed when some save had written the dogs and not yet the sessions: the only players
that a save can part from their dogs.

When ids are in doubt, the first player's session may be without a dog of that id while a dog of another session has it. Then
`GameSession::RemoveDog` erases the end of a vector (`model.cpp:899`), which is undefined behaviour; the model has no step for it,
and the properties say nothing about ids in doubt.

### HttpServer, RequestApi and HttpConversation

`at` says what the session of a connection waits for: `OnRead` (`"reading"`), its handler (`"handling"`) or
`OnWrite` (`"writing"`). `DispatchRequest` and `ServeFile` are `OnRead` together with
`RequestHandler::operator()` for the two kinds of targets, `Handle` is the handler on the API strand up to the start
of the write. `api_strand` holds the handlers that wait, with the request each of them captured.
`ran` and `told` list the requests executed and answered and are there for the properties. `EndSession` is
the destruction of a session, with or without `Close` before it; a client cannot tell them apart here.

The deadline is a flag, `overdue`. `expires_after` is set by `Read` only and stays in force during the handling and
the write; it is noticed by an operation under way. So a reply that waited too long for the strand is executed and
may not be written.

Boost.Asio is modelled as the version in `conanfile.txt` (1.78) behaves: an executor that runs
a function on the caller's stack keeps its exception and rethrows it from `io_context::run` when the caller's handler is
done. The `catch` in `RequestHandler::operator()` therefore sees exceptions of files only. An exception
on a worker thread ends the process (`std::terminate`); on the main thread `ExecuteThreaded` unwinds and waits in
the destructors of the workers.

`RequestApi` says which reply a request gets, in the order of the code's checks. A request is the record of
the answers to the code's questions (which target, is the body the JSON the target asks for, is the token
well formed and known, are the values accepted), so JSON, URL decoding and headers are not spelled out.
`AlwaysThrows` is the body that is JSON but no object, `MayThrow` the database and `Update`.

`HttpConversation` has the counts of a connection only: taken, run, told, in order, until it ends. A
connection is ended when its session is gone, which is the only mapped variable.

## 3. The runs

| run | question | result |
|---|---|---|
| `core_testing` | testing mode, two maps, three dogs: do registry, sessions, timers and table agree after every step? | holds |
| `core_ticker` | the same with ticks on their own strand and a failing database, two dogs; is an idle dog retired in the end? | holds, with rows short by at most one tick |
| `core_removal` | does a removal come to an end with two players? | violated (section 6) |
| `pool` | four threads, two connections: counter, slots, wakeups, sleepers; is somebody served; does the pool implement the lease? | holds |
| `state_testing` | ticks as requests, two maps, loot, retirements, signals on an idle server, crashes anywhere, two restarts: is the saved state resumed, do ids stay unique, as long as no id is in doubt? | holds |
| `state_ticker` | ticks, joins, retirements, signals and crashes in any order: does a loaded state ever part a player from its dog, as long as no id can be given twice, and does the save cycle go on? | only one whose own removal the save saw in the middle; it does, until a removal spins or an exception leaves the ticker unarmed (section 6) |
| `state_bags` | loot is taken up: is the saved state still resumed? | violated (section 6) |
| `state_retired` | a player retires before the server is started again, another joins after it: is the saved state still resumed? | violated (section 6) |
| `world` | dogs on crossing, bending and broken roads; two dogs, two loots and an office: do dogs keep to the roads, and is every loot where it should be? | holds, with samples of 0.1 beside the road |
| `closer_dog` | does the nearer of two dogs get a loot? | violated (section 6) |
| `client` | polls, losses, joins, retirements, loot and keys: do tables, bags and scene agree, and does the page catch up? | holds |
| `http` | two connections, three requests: answers in order, joins told, nobody left waiting | holds |

The properties, in short:

- `RetiredDogIsReal`: the branch of `Update` that throws `logic_error` is never taken.
- `PlayersOwnTheirDogs`: players and dogs correspond one to one but for a join under way.
- `RowsCoverRetirementTime`: a row's play time is at least the retirement time. With two strands a dog can join
  between the count of its play time and the test of its activity, so a tick of idle time
  may be counted that was not counted as play time: there the row may be short by one tick (`Slack`).
- `RetiredDogsAreGone`: in testing mode with a working database a dog with a row is out of the game.
  Not stated for a failing database: there the row can be committed and the dog play on.
- `RowsAreFinal`: a retired dog never returns and its row is never written again.
- `IdleDogRetires`: a dog told to stand is retired, unless it moves again, the process dies, the ticks have stopped after an exception, or a
  removal spins (section 6). `RemovalCompletes`, `PoolNeverStalls`: liveness.
- `SaveCycleContinues`: while the process is up and has a save period, an update saves again and again, until a removal spins or an exception
  leaves the ticker unarmed. Both happen in this run, and from then on only the signal handler saves.
- `CounterCountsUsers`, `NoConnectionLost`, `NoLostWakeup`, `ImplementsLease`: the pool. `SleepersBounded`: with sleepers, sleepers and
  connections together are no more than the threads; so with a connection per thread nobody sleeps.
- `SavedStateIsResumed`: a start after a completed save succeeds, with all players the save began with
  and none it did not end with. This is what the program promises, and it fails in several ways (section 6).
- `ResumedUnlessInDoubt`: what is left of it. A start after a completed save succeeds, with exactly the players of the
  save, if no dog carried loot then, no earlier start left an id in doubt and the sessions of the save have different ids.
  It covers retirements and loot before the save, crashes at any step of an earlier run, and saves that left ids in doubt themselves.
- `DogIdsUnique`: over restarts, no two dogs have one id, as long as no save was loaded whose dogs were not numbered one by one
  (after that `state_retired` shows what happens). `PlayersPlayWithTheirDogs`: over restarts, from saves that were written while players joined
  and retired, every player's dog is in the player's session, as long as the ids of the saves left no doubt. It excepts the player whose dog was
  removed a moment ago and who is about to follow, and a player whose removal a save saw in its middle (`parted`, section 6); it says that nobody else can be parted,
  whatever the steps of joins, removals and saves fall between.
- `ImplementsConversation`: one request at a time, run at most once, answered at most once and in order, nothing after the end,
  whatever throws, spins, expires or goes away.
- `JoinsAreTold`: the only players nobody can move are those whose connection ended before they got their token.
- `AllowedMethodsAreNotRefused`: a 405 names only methods that do not get a 405. It does not say that all of them are named:
  for the action, POST is not.
- `NearRoads`, `WalksOnRoads`: a dog is on a road or at most 0.1 beside one, over any number of ticks and turns; a dog that has road before
  it walks no farther than the roads go and is stopped only where they end. Not stated for a dog with no road before it (section 6).
- `LootIsConserved`: every loot is on the map, in one bag, scored once, or gone with its dog. `NothingLeftBehind`: loot that was met and
  left did not fit. `OfficesEmptyBags`: after an office a bag holds only what was met not before it.
- `LootNeverExceedsLooters`: when loot is made, there is not more of it than dogs.
- `TablesShareBags`, `ObjectsHeldOnce`, `SceneMatchesTables`: the page's two tables agree on a player's data, no object is in two places, and, while
  the answers tell one story, no object stays in the scene that nothing will remove.
- `DirectionFollowsKeys`: when presses and releases have arrived in order, the dog runs the way of the last key that is down.
- `RetiredSeesRecords`, `ScreenConverges`: a retired player gets to the records, and a game that stands still is shown as it is, unless
  one of the first two polls was lost (`StuckAtStart`, section 6).
- `RequestsEnd`, `SilentClientsAreDropped`: a request that was read is answered or its connection ends, unless an update spins on the strand; a
  silent client is dropped, after the first answer too.

### Bounds

| bound | values | why enough |
|---|---|---|
| `MaxDogs` | 3, 2 | a removal looks at the first player only, so one before and one after the retiring one is every case; with two strands two dogs give a join inside a tick beside an older dog. |
| `Maps` | 2, 1 | two sessions are visited one after the other, a join can create the second during the first. They are symmetric |
| `Deltas`, retirement time | {1,2}; 2 or 3 | a tick shorter than the retirement time, equal to it, and several that add up. In `core_ticker` the time is more than `Slack`, so that a row can be too short |
| `MaxPlayTime` | 3, 4, 2 | above the retirement time by a tick; clocks saturate |
| `DIRECTION` | `UP`, `NONE` | the code tells only `NONE` from the rest, once coordinates are left out |
| `Threads`, `Capacity` | 4, 2 | two users and two sleepers, a returned connection taken by a third thread before the woken one looks. What `main` does, a connection per thread, is a theorem |
| `MaxPlayers`, `MaxLoot`, `MaxRuns` | up to 4, 1, 3 | a save, a restart, a join with a possibly repeated id, a second save and a second restart; `state_testing` has three players and two maps, `state_ticker` one restart and two players, one of whom makes the removal of the other spin. `ResumedUnlessInDoubt` also holds with four players and three loots on one map |
| `MaxRequests` | 2 and 1 | a request behind another on its connection, while the strand is busy for the other connection; two requests suffice to swap answers |
| `Requests` | seven | one for each way of handling: join, refusal that closes, token checked, reply without length, tick (retires, throws, spins), body that throws, file |
| `Workers` | 1 | the worker and the main thread are lost in different ways; more workers behave as one |
| `MCScenarios` of `MCWorld` | two maps | `Walking`: one dog, every integer position, ticks of one crossing, of several and beyond the map, on a crossroads, a bend, two parallel roads with a gap and a road with a gap. `Gathering`: two dogs on one road, two loots, bags for one, an office within reach. `Crowd`: two dogs with ways of different lengths, one loot |
| `MCProbability` | 0, 30, 40, 100 % | rounding up, rounding down, nothing, everything |
| `MCScenarios` of `MCGameClient` | four | two players and a loot that come and go, with two polls of the state under way; both players come and go, with two polls of the list and a lost answer; two keys, two actions under way; one key, a lost message and the end of the player. All at once would multiply cases that do not touch each other |
| `Objects`, `Refs` | 4, 3 | more than are in use at a time in these scenarios. An answer that needs more names than are free is not applied, a bound in the guard that is never reached with these values |
| `PosUpdateInterval`, `PlayersUpdateInterval` | 2, 2 | a frame with and one without a poll; the intervals of the page count frames between polls, and how many does not matter to what arrives when |
| `SessionIds` | {0}, {0, 1} | with one map, the value does not matter; with two, equal and different ids |

`CHECK_DEADLOCK FALSE` is set where the model may stop: a process that died, a spinning
removal, a server that was started `MaxRuns` times, clients that have left, a page that has gone to the records. The runs of the pool and of
the world check deadlock.

`SavedStateIsResumed` holds in `MCStateFileRetired.cfg` with `Retires = FALSE`: ticks as requests, a file that exists, one map, no loot, no
retirement, signals while no strand is at work. `state_bags` and `state_retired` drop one of these conditions each; with any other one dropped
(`FileExists = FALSE`, `MaxLoot = 1`, `SignalsRace = TRUE`, two maps with one session id) TLC finds it violated as well (section 6). `ResumedUnlessInDoubt` puts into its
condition what can be said of a save and of the starts before it, so that `state_testing` has two maps, loot and retirements. What remains are two conditions on
the server: with `SignalsRace = TRUE`, or with ticks on a strand of their own and a save period, TLC finds it violated too, because joins fall between the walks of a save.

`PlayersPlayWithTheirDogs` needs its condition (no doubts but about loot): without it three players and three starts, with retirements and signals
that race, part a player from its dog, a consequence of the repeated ids of section 6. With it TLC has found nothing with four players
and three starts either, nor with two maps and sessions that may have one id; those instances take too long for a run. Neither of its exceptions
can be left out: without `parted`, a signal whose save writes the dogs, then `RemoveDog`, then the sessions and the players, a crash and a start
violate it in 13 states.

`state_ticker` has no loot in bags (`Bags = FALSE`): a save with such loot is torn for the reader (section 6) and could only hide the other saves.
With it the run holds too, in five and a half minutes instead of one; `state_testing` and `state_bags` have it.

## 4. Fairness

- `PetGame`: weak fairness of `UpdateStep` (a thread that entered `Update` runs on), of `StartUpdate` (the ticker
  arms its timer again at the end of each tick, `ticker.h`), of `PushPlayer` (a join runs to its
  end). None for `AddDogToSession` or `DoAction`: nobody must play.
- `ConnectionPool`: weak fairness of `ThreadStep(t)` for each thread: a thread that is not blocked runs on, and queries
  come to an end. None for `Call` and for spurious wakeups. Neither `std::mutex` nor
  `std::condition_variable` promises an order, so "every thread is served" is not claimed;
  `PoolNeverStalls` says that when threads want a connection somebody gets one.
- `StateFile`: weak fairness of `Update`, which is enabled only while the ticker is armed (`update = "idle"`): a tick that comes back arms it
  again, one that spins or throws does not. Weak fairness of `UpdateStep`: a thread in `Update` runs on, into whichever of its
  outcomes. Strong fairness of `TimerFires`: its handler waits on the ticker's strand, which is free between two ticks only, but it waits in a queue, where no later tick gets ahead
  of it. Weak fairness of each writer's steps, of `PushPlayer`
  and of `Stop` (after `io_context::stop` the handlers end and `main` returns). None for joins, retirements, signals, crashes
  and starts.

- `HttpServer`: weak fairness of each session's steps and of the strand (threads run the handlers that are ready), of
  `Expire` (timers fire) and of `OnAccept`. None for clients, failing accepts and signals. Whether a handler throws, answers or
  spins is free.

- `GameClient`: weak fairness of the loading of assets, of frames while the page is open, of requests reaching the server and
  of the callback of the oldest answer under way. None for the players of the game, for keys and for losses, which the scenario bounds.
- `World` has no liveness properties: what it says is about single ticks and their sum.

Without fairness no liveness is claimed. `core_removal` states fairness too, so its
counterexample is a removal that runs and never ends, not one that is never scheduled.

## 5. The proofs

For every value of the constants that satisfies `ConstantsAssumption` (`PetGame`), `PoolAssumption` (`ConnectionPool`),
`HttpAssumption` (`HttpServer`), `ClientAssumption` (`GameClient`), `WorldAssumption` (`World`) or `StateFileAssumption` (`StateFile`):

| theorem | says |
|---|---|
| `TypeCorrect` (six modules) | `Spec => []TypeOK` of `PetGame`, `ConnectionPool`, `HttpServer`, `World`, `GameClient` and `StateFile` |
| `RetiredDogIsRealHolds`, `PlayersOwnTheirDogsHolds`, `RowsCoverRetirementTimeHolds`, `RetiredDogsAreGoneHolds`, `RowsAreFinalHolds` | the safety properties of `core_testing` and `core_ticker`, for any number of maps and dogs, any ticks, both modes, with and without database failures |
| `CounterCountsUsersHolds`, `NoConnectionLostHolds`, `NoLostWakeupHolds`, `SleepersBoundedHolds` | the safety properties of the pool for any finite set of threads and any capacity |
| `NobodySleeps` | with a connection for every thread, as `main` creates the pool, nobody ever sleeps in `GetConnection` |
| `PoolImplementsLease` | the pool refines `ConnectionLease` |
| `JoinsAreToldHolds`, `AllowedMethodsAreNotRefusedHolds` | the safety properties of `http`, for any connections, any requests and any number of them |
| `ServerImplementsConversation` | the server refines `HttpConversation` |
| `TablesShareBagsHolds`, `DirectionFollowsKeysHolds`, `ObjectsHeldOnceHolds`, `SceneMatchesTablesHolds` | the safety properties of `client`, for any players, loots, keys, scenarios and numbers of messages under way |
| `LootIsConservedHolds`, `NothingLeftBehindHolds`, `OfficesEmptyBagsHolds`, `LootNeverExceedsLootersHolds`, `NearRoadsHolds` | the safety properties of `world` but `WalksOnRoads`, for any roads, offices, dogs, bags and ticks |
| `DogIdsUniqueHolds`, `PlayersPlayWithTheirDogsHolds` | two invariants of `state_testing` and `state_ticker`, for any maps, players, loots and starts, both modes, with and without signals that race. The second with the exceptions it names: the player that is being removed, and players whose removal a save saw in its middle |
| `ResumedUnlessInDoubtHolds` | the action property of `state_testing`, for any maps, session ids, players, loots and starts, with and without a file, retirements and loot in bags, if `SavesAlone`: signals find an idle server, and an update that saves is a request or there is none |
| `GeneratesWithinShortage` | a tick makes between no loot and the shortage of it, for any probability |
| `OneBorderStopsAtTheRoad` | a dog on the roads that crosses at most one border in a tick ends it on the roads, for any roads and any way: what may leave a dog beside the road is the sampling of ways with several borders only |

The assumptions on the constants only say what the code's types and the configuration say: ticks and
the retirement time are natural numbers, ticks have a longest one, clocks saturate not
below the retirement time; threads are finitely many and the pool is not empty
(`main` passes `max(1, num_threads)`); maps are finitely many.

**PetGame.** None of the five properties is inductive. The invariant `IInv` is `TypeOK` and
four named parts:

- `DogIdsUnique`: every dog ever seen has an id below the counter, and is in one session. Hence a new dog has never been seen.
- `RegistryInJoinOrder`: the registry is sorted by dog id, its entries and the pending join are exactly the dogs of the
  sessions. Removing the *first* player removes the player of the dog, and of no other.
- `TimersFollowDogs`: whoever has an idle timer is alive, except the dog between its removal and the erasure
  of its timers. This is why the exception of `Update` is unreachable, and it needs the order of the
  code: row, player, timers.
- `PlayTimeCoversIdleTime`: idle time never exceeds play time, up to `Slack`. Between the count and the test of activity
  the play time is ahead by exactly the tick; a dog that was not there at the count has no idle time.

Each part has one lemma with one step per action. `RowsAreFinal` follows from `IInv` and the lemma
`LiveAndRows`, that live dogs and rows change only by a join (a new id), a removal (of a dog with a
row) or a record (of a live dog).
`RetiredDogsAreGone` adds an invariant of its own on top of `IInv`.

**ConnectionPool.** `IInv` is the types, the counter and the slots; every step either takes, puts back,
or only changes places, so there are three lemmas. `NoLostWakeup` is inductive relative to it: a step that
frees a connection adds a thread to `Awakening`, and a thread leaves `Awakening` only by taking a
connection, by waking another, or when nobody sleeps or nothing is free. `SleepersBounded` rests on the counter: whoever goes to sleep sees all connections with other threads, which do not sleep. The refinement maps `Take` to `Acquire`, `PutBack` to `Release`
and everything else to a stuttering step.

**HttpServer.** `IInv` is the types, three facts about every connection and two about the whole. `Counted`: the requests told are those taken, up to the one
in work. `Accepted`: a connection that was not accepted has no session. `RefusalWorks`: a 405 in the making names methods that are allowed. `StrandServesSessions`: every handler on the
strand serves the last request of a session that waits for it, and no two serve the same. The second is `JoinsAreTold` itself. Only the strand couples connections, so a
step of one connection leaves the facts of the others alone; what breaks in each is one lemma per action. The refinement maps a session that is gone to the end
of the conversation and reads the counts off `ran` and `told`.

**GameClient.** `TablesShareBags` is inductive by itself: `Listed` copies the data of the current state, and
`ApplyDesiredState` gives new data to both tables at once. `DirectionFollowsKeys` needs `KeysInv`: unless something was overtaken or lost, the last action under way, or
the direction of the dog when there is none, is that of the last key (`LastActionCounts`).

For the objects, `ClientInv` is the types of everything on the page and under way, and `DrawnInv`: every object that a table holds is held once, and is one of those ever
named. What makes it inductive is `WhereObjectsComeFrom`: after a state was applied, an object of a table was in one of the tables before, at one place that lost it, or is new.
`SceneMatchesTables` is about answers that tell one story, so its invariant has to say what a story is (`AnswersInv`): in the answers under way, oldest first, players that have left stay
away, and a loot goes from the map to a player and then out of the game, and never back. `SceneInv` then says of each object of the scene which table holds it or which later answer
will take it away, and of each loot and player of the last answers where its object is.

**World.** `IInv` is `TypeOK` and `LootIsConserved`. The work of a tick is a fold over events, which is a recursive function; `HandleAllUnfolds` unfolds it, and
`AllHandled` carries through it, by induction on the number of events handled (`InductionLemmas`), that every loot has one owner and that what lies untaken was met by a dog
that had no room. `OrdersAreSorted` says of the order of the events what the two properties about single ticks need: an event that comes later is not nearer.
`NearRoads` needs nothing but that the point a way ends at is a border, the way's end, or one sample away from a sample that is on a road (`ReachesAPoint`, `LastSampleIsNear`).
`OneBorderStopsAtTheRoad`: a crossing lies on the border, the border in the area of its road, and of the two or four ends of a crossing there is a nearest and a farthest.

**StateFile.** `DogIdsUnique` is not inductive, since ids go through the file: `DogsInv` adds that ids are below the counter, and that a save that is being written, or has been, lists an
id once. A load then needs three facts about what it computes: `RestoredCounterCounts`, the counter after a load is not below the number of dogs loaded; `NumberedOneByOne`, so many dogs numbered
from 0 on have ids below that and all different; `FlattenSeqProperties`, flat lists have the members of their parts, and each once if the parts have it once.
`PlayersPlayWithTheirDogs` needs `PlayersInv` on top: nobody shares a dog, and everyone has one but the player that is being removed and those of `parted` (`InGame`). In a save whose dogs are written, a player whose
dog is among them has it still, or is in `parted` (`HasNamed`): whoever joins later has an id that the save does not name, and a dog that is removed now puts its player there. When the sessions are written, the dog is therefore listed by the player's session
(`InText`, `InSaves`), and a removal after that does no harm, since the player is then either written together with its dog or not at all. So it is in the file (`InFile`), and a load that finds every player's dog among the dogs thereby finds it in
the session of the player. `RemovalTyped` says when there is a first player to erase.

`ResumedUnlessInDoubt` says that a file can be read, so everything `LoadState` compares has to be known of it. `AloneInv`: while a save is under way nobody joins, no update is under way, the other writer
rests, and nobody was ever parted; this is where `SavesAlone` is needed. `LootsInv`: no two loots have one id, and all are below the counter. `TextInv`: what has been written so far is the game as it still is, every loot and dog once
(`FlatSessionsApart`). `FileInv`: the file of a completed save can be read, and tells of exactly the promised players. `SaveReads` shows that every count agrees, by a bijection between the ids of a list and the pairs
that `Restore` counts (`MatchesOnce`); `LoadResumes` that the players who are restored are those the file tells of. That a dog's id comes once is `DogsInv`, and that a player's dog is in its session is
`PlayersInv`: the theorem rests on the two before it.

**Only model-checked.** All liveness properties (proofs under fairness and `ENABLED` are out of the prover's
reach). `WalksOnRoads`: the exact walks of dogs that cross several borders are compared with a walk that knows no borders, and the sampling between them is
arithmetic with products of unknowns.

## 6. What the model says about the code

- **A removal that never ends** (`core_removal`, `application.cpp:119`). The loop never advances its iterator. If the
  player to remove is not the first of the registry, `Update` never returns: no ticks and no saves but that of the signal handler any more, and in testing mode no requests.
- **A state file that must exist already** (`FileExists = FALSE`, `model.cpp:171`). If it does not, saves go to the temporary directory and are never read.
- **Loot in a bag** (`state_bags`, `model.cpp:198`). Its number is written, the loot is not: the file cannot be read.
- **The id counter after a restart** (`state_retired`, `model.cpp:1040`). It continues at the greatest id, which repeats an id if ids have gaps; the
  next file cannot be read. Without gaps the constructors' counting makes up for it, so the doubt `"dogs"` is about gaps only.
- **The loot counter after a restart** (`MaxLoot = 1`, `model_serialization.h:64`). It starts at 0; ids repeat and the next file cannot be read.
- **A join inside a save** (`SignalsRace = TRUE`, `main.cpp:198`). The sessions name a dog that the walk over the dogs did not see; the file cannot be read.

- **A removal inside a save** (`SignalsRace = TRUE`, `application.cpp:122`). The handler of a signal saves while a strand removes a player: it writes the dogs, the strand takes the dog
  out of its session, the handler writes the sessions and the players, and only then the player would be erased. Every check of `LoadState` passes, and the player is resumed with a dog that is in no session: it is listed and can be told to
  move, but no tick moves it or retires it. It is the first of the registry, so every later removal spins; and the next save names
  the player and not its dog, so the start after that fails. This is the exception `parted` in `PlayersPlayWithTheirDogs`.

All six disagreements about the file are with what `main.cpp:103` says of the option: "Server state will be saved at SIGINT and SIGTERM".

- **The nearer dog may not get the loot** (`closer_dog`, `collision_detector.cpp:53`). Events are ordered by the share of each dog's own way, so a
  dog with a long way that passes a loot at a third of it comes before a dog with a short way that passes it, nearer, at a half. The comment at
  `model.cpp:639` says that the closer dog captures.

Not violated properties but limits the properties had to be given, or facts a reader of the code may not expect:

- **A stop beside the road** (`model.cpp:506`). The way to each candidate is sampled every 0.1001 units and its end is not a sample, so with two or more borders
  crossed a dog may come to stand up to 0.1 beside the road. `NearRoads` allows it that much; with at most one border it cannot happen
  (`OneBorderStopsAtTheRoad`).
- **A jump over a gap** (`model.cpp:489`). A crossing where the dog stands does not count, so a dog at the very end of a road that crosses no or one other border
  and heads for a point on another road gets there, over whatever lies between. `WalksOnRoads` is stated for dogs with road before them.
- **The time without loot** (`model.cpp:792`). `UpdateLoot` makes a generator for every tick, so the time without loot that `tests/loot_generator_tests.cpp`
  adds up over calls is always that of one tick; and the period of the configuration, 5.0, is used as 5 milliseconds (`json_loader.cpp:79`).
- **The first polls of the page** (`game.js`). The game starts when both have been answered, and neither is repeated: a page that loses one shows nothing until it is loaded again (`StuckAtStart`).
- **401** is noticed in the answer to the list of players only; between the two polls a retired player is shown the last state.

## 7. What is not modelled

In the modelled parts: wording and framing of answers (an error reply to HEAD carries its body, which a client takes for the next answer), names, positions, directions and scores where no property reads
them; allocation failures; a full disk; the archive's format (a wrong count is a stream that throws; that a wrong
count happens to be readable as something else is not modelled); a state file given without a directory. `StateFile` and
`PetGame` are not composed: that a restored dog is retired a second time under another
key (neither its uuid nor its timers are saved) is in neither.

In `World` and `Roads`: the arithmetic of doubles, and loot of different values. In `GameClient`: coordinates, interpolation,
rotation and animation, which are computed from the last two states and forgotten; names and scores. `World`, `PetGame` and `GameClient`
are not composed: a tick of the one is a step that moves or does not move a dog in the other, and an answer to a poll is a snapshot.

Other components:

- The **vendored JavaScript** (three.js, its loaders, controls and utilities) is most of the repository's JavaScript by lines. It is third-party code kept
  unchanged; the page uses a scene, loaders and cloning of it, which `GameClient` takes as given. Modelling a renderer and
  file formats would say nothing about this program.
- The **configuration loader** runs once before the server starts and has no state that changes afterwards; the **logger**, the **deployment** and
  the **monitoring** have none of the game. They will stay out.
- **Static files and URL decoding** are pure input and output. The lookup and its answer are an action of `HttpServer` (`ServeFile`); the decoding of the path is not modelled.

## 8. The plan

Done so far: the core with retirement, the pool, the state file, the server with its API, the world of one session, the page; theorems for the types and the safety
invariants of all of them. Left, in this order:

1. A composition of retirement, state file and table, with the abstract promise that a player is retired once. It would
   state the hazard that a restored player is retired again under another key.
2. `UrlDecoding` as operators against a reference definition.
