----------------------------- MODULE StateFile -----------------------------
(***************************************************************************)
(* The state file: what SaveState writes, when, and what LoadState makes   *)
(* of it when the server is started again.                                 *)
(*                                                                         *)
(* SaveState runs at the end of Game::Update (after every tick in          *)
(* TestingMode, else when the save timer has fired) and in the handler of  *)
(* SIGINT and SIGTERM.  It walks the game four times, for the loot, the    *)
(* dogs, the sessions and the players, and truncates the file before the   *)
(* first walk; no lock keeps the other strand or the signal handler out.   *)
(* An update is several steps, for this reason: it changes the game, then  *)
(* removes the players that retire, each in two steps, then may save.      *)
(*                                                                         *)
(* Left out: names, positions, directions and scores, which the archive    *)
(* carries unchanged, and the timers of Game::Update, which it does not    *)
(* carry at all.                                                           *)
(***************************************************************************)
EXTENDS Naturals, FiniteSets, Sequences, SequencesExt

CONSTANTS
    Maps,           \* ids of the maps
    SessionIds,     \* what GameSession::id, never initialized, may hold
    TestingMode,    \* GetTickPeriod() == TICK_TESTING_MODE
    SavePeriodSet,  \* GetSaveStatePeriod() is a period
    FileExists,     \* is there a file at --state-file when it is first needed
    Retires,        \* do players retire
    Bags,           \* do dogs pick up loot
    SignalsRace,    \* may a signal arrive while a strand is at work
    MaxPlayers,     \* bound: joins
    MaxLoot,        \* bound: loot created by one process
    MaxRuns         \* bound: starts of the server

ASSUME StateFileAssumption ==
    /\ IsFiniteSet(Maps) /\ SessionIds # {}
    /\ {TestingMode, SavePeriodSet, FileExists, Retires, Bags, SignalsRace} \subseteq BOOLEAN
    /\ {MaxPlayers, MaxLoot, MaxRuns} \subseteq Nat

Writers == {"update", "signal"}

VARIABLES
    process,                \* "off", "up", or "failed": EXIT_FAILURE at start
    runs,                   \* how often it was started
    doubts,                 \* what the ids of the saves it was started from left open
    joined,                 \* how many players ever joined
    dog_counter,            \* Dog::dog_counter
    loot_counter,           \* Loot::loot_counter
    sessions,               \* Game::sessions, map |-> [id, dogs, loots]
    players,                \* Players::players
    bags,                   \* the dogs whose bag is not empty
    joining,                \* the player whose dog is in its session already
    save_timer,             \* is ticker_save_state_ armed
    need_to_save_state_,
    writer,                 \* the SaveState of the update and of the signal handler
    file,                   \* what is at path_to_state_file_
    promise,                \* the players of the last save that was completed
    update,                 \* where Game::Update is, "spin" and "halted" for ever
    parted                  \* observed only: the tokens of the players whose dog was
                            \* removed between two walks of a save, see RemoveDog

memory == <<dog_counter, loot_counter, sessions, players, bags, joining>>
timer  == <<save_timer, need_to_save_state_>>
disk   == <<file, promise>>
removal == <<update, parted>>
vars   == <<process, runs, doubts, joined, memory, timer, writer, disk, removal>>

-----------------------------------------------------------------------------

\* An archive: the loot_count and the loots that follow it, the dogs, the
\* sessions and the players.
Blank == [loot_count |-> 0, loots |-> <<>>, dogs |-> <<>>, sessions |-> <<>>,
          players |-> <<>>]

NoFile  == [kind |-> "missing", text |-> Blank]
Torn    == [kind |-> "torn", text |-> Blank]
Written(text) == [kind |-> "text", text |-> text]

Idle == [at |-> "no", text |-> Blank, alone |-> TRUE, from |-> {}]
NoPromise == [given |-> FALSE, from |-> {}, to |-> {}]

\* What a player must find again: its token, its dog and the map it plays on.
Facts == {[token |-> p.token, dog |-> p.dog.id, map |-> p.session] :
             p \in ToSet(players)}

ForgetMemory ==
    /\ dog_counter' = 0
    /\ loot_counter' = 0
    /\ sessions' = <<>>
    /\ players' = <<>>
    /\ bags' = {}
    /\ joining' = {}

Init ==
    /\ process = "off"
    /\ runs = 0
    /\ doubts = {}
    /\ joined = 0
    /\ dog_counter = 0
    /\ loot_counter = 0
    /\ sessions = <<>>
    /\ players = <<>>
    /\ bags = {}
    /\ joining = {}
    /\ save_timer = FALSE
    /\ need_to_save_state_ = FALSE
    /\ writer = [w \in Writers |-> Idle]
    /\ file = IF FileExists THEN Written(Blank) ELSE NoFile
    /\ promise = NoPromise
    /\ update = "idle"
    /\ parted = {}

-----------------------------------------------------------------------------
(* Requests and ticks.                                                     *)

Stopping == writer["signal"].at # "no" /\ (writer["signal"].at = "done" \/ ~SignalsRace)

\* No update is under way; an exception may have left the ticker unarmed.
Resting == update \in {"idle", "halted"}

\* The API strand is free to run a request; in TestingMode an update and its
\* save are part of a request.
ApiRuns ==
    /\ process = "up"
    /\ ~Stopping
    /\ TestingMode => update = "idle" /\ writer["update"].at = "no"

\* The first half of AddPlayer: the new dog enters the session of its map.
AddDogToSession(m, id) ==
    /\ ApiRuns
    /\ joining = {}
    /\ joined < MaxPlayers
    /\ joined' = joined + 1
    /\ dog_counter' = dog_counter + 1
    /\ LET dog == [id |-> dog_counter, who |-> joined]
       IN  /\ sessions' =
                IF m \in DOMAIN sessions
                THEN [sessions EXCEPT ![m].dogs = Append(@, dog)]
                ELSE [n \in (DOMAIN sessions) \cup {m} |->
                        IF n = m THEN [id |-> id, dogs |-> <<dog>>, loots |-> <<>>]
                        ELSE sessions[n]]
           /\ joining' = {[token |-> joined, dog |-> dog, session |-> m]}
    /\ UNCHANGED <<process, runs, doubts, loot_counter, players, bags, timer, writer, disk, removal>>

\* The second half: its player enters the registry.
PushPlayer ==
    /\ process = "up"
    /\ \E p \in joining : players' = Append(players, p)
    /\ joining' = {}
    /\ UNCHANGED <<process, runs, doubts, joined, dog_counter, loot_counter, sessions, bags,
                   timer, writer, disk, removal>>

\* What a tick may do to the state the file holds.
NoEffect == UNCHANGED memory

NewLoot(m) ==
    /\ Len(sessions[m].loots) < Len(sessions[m].dogs)
    /\ loot_counter < MaxLoot
    /\ loot_counter' = loot_counter + 1
    /\ sessions' = [sessions EXCEPT ![m].loots = Append(@, loot_counter)]
    /\ UNCHANGED <<dog_counter, players, bags, joining>>

PickUp(m, d) ==
    /\ Bags
    /\ sessions[m].loots # <<>>
    /\ bags' = bags \cup {d.who}
    /\ sessions' = [sessions EXCEPT ![m].loots = Tail(@)]
    /\ UNCHANGED <<dog_counter, loot_counter, players, joining>>

Deliver(d) ==
    /\ bags' = bags \ {d.who}
    /\ UNCHANGED <<dog_counter, loot_counter, sessions, players, joining>>

TickEffect ==
    \/ NoEffect
    \/ \E m \in DOMAIN sessions :
          \/ NewLoot(m)
          \/ \E d \in ToSet(sessions[m].dogs) : PickUp(m, d) \/ Deliver(d)

\* Game::Update up to its second loop, over the dogs that retire.
Update ==
    /\ process = "up"
    /\ ~Stopping
    /\ update = "idle"
    /\ writer["update"].at = "no"
    /\ TestingMode => joining = {}
    /\ TickEffect
    /\ update' = "tick"
    /\ UNCHANGED <<process, runs, doubts, joined, timer, writer, disk, parted>>

\* The first player retires: the session loses the first dog with its dog's id.
\* When this falls between two walks of a save, the dog is written and its session
\* does not name it.
RemoveDog ==
    /\ process = "up"
    /\ update = "tick"
    /\ Retires
    /\ players # <<>>
    /\ LET p == Head(players)
           i == SelectInSeq(sessions[p.session].dogs, LAMBDA d : d.id = p.dog.id)
       IN  /\ i # 0
           /\ sessions' = [sessions EXCEPT ![p.session].dogs = RemoveAt(@, i)]
           /\ bags' = bags \ {p.dog.who}
           /\ parted' = IF \E w \in Writers : writer[w].at = "sessions"
                        THEN parted \cup {p.token} ELSE parted
    /\ update' = "remove"
    /\ UNCHANGED <<process, runs, doubts, joined, dog_counter, loot_counter, players, joining,
                   timer, writer, disk>>

\* Then the registry loses the player.
ErasePlayer ==
    /\ process = "up"
    /\ update = "remove"
    /\ players' = Tail(players)
    /\ update' = "tick"
    /\ UNCHANGED <<process, runs, doubts, joined, dog_counter, loot_counter, sessions, bags,
                   joining, timer, writer, disk, parted>>

\* A dog retires that is not the first player's: the search never moves on.
RemovalSpins ==
    /\ process = "up"
    /\ update = "tick"
    /\ Retires
    /\ players # <<>>
    /\ \E m \in DOMAIN sessions : \E d \in ToSet(sessions[m].dogs) :
          d.id # Head(players).dog.id
    /\ update' = "spin"
    /\ UNCHANGED <<process, runs, doubts, joined, memory, timer, writer, disk, parted>>

\* A dog retires and its record cannot be written: the exception leaves Update.  It
\* ends the request, or it leaves the ticker unarmed; where it ends the process
\* it is a Crash.
RecordThrows ==
    /\ process = "up"
    /\ update = "tick"
    /\ Retires
    /\ \E m \in DOMAIN sessions : sessions[m].dogs # <<>>
    /\ update' = IF TestingMode THEN "idle" ELSE "halted"
    /\ UNCHANGED <<process, runs, doubts, joined, memory, timer, writer, disk, parted>>

\* Nobody else retires: Game::Update up to the call of SaveState, if there is one.
FinishUpdate ==
    /\ process = "up"
    /\ update = "tick"
    /\ update' = "idle"
    /\ IF TestingMode \/ need_to_save_state_
       THEN /\ writer' = [writer EXCEPT !["update"].at = "open"]
            /\ need_to_save_state_' = (TestingMode /\ need_to_save_state_)
       ELSE UNCHANGED <<writer, need_to_save_state_>>
    /\ UNCHANGED <<process, runs, doubts, joined, memory, save_timer, disk, parted>>

UpdateStep == RemoveDog \/ ErasePlayer \/ RemovalSpins \/ RecordThrows \/ FinishUpdate

\* The save timer fires on the strand of the ticker.
TimerFires ==
    /\ process = "up"
    /\ ~Stopping
    /\ save_timer
    /\ Resting
    /\ writer["update"].at = "no"
    /\ save_timer' = FALSE
    /\ need_to_save_state_' = TRUE
    /\ UNCHANGED <<process, runs, doubts, joined, memory, writer, disk, removal>>

-----------------------------------------------------------------------------
(* SaveState, by writer w.                                                 *)

Other(w) == CHOOSE v \in Writers : v # w
IsWriting(w) == writer[w].at \in {"dogs", "sessions", "players"}

\* The file is truncated and the loot is written: its number counts the loot in
\* the bags too, which is not written.  A path without a file is replaced by
\* a file in the directory for temporary files, which nothing ever reads.
Open(w) ==
    /\ process = "up"
    /\ writer[w].at = "open"
    /\ \E order \in SetToSeqs(DOMAIN sessions) :
         LET loots == FlattenSeq([i \in DOMAIN order |-> sessions[order[i]].loots])
             inBags == {d \in UNION {ToSet(sessions[m].dogs) : m \in DOMAIN sessions} :
                          d.who \in bags}
             text == [Blank EXCEPT !.loots = loots,
                                   !.loot_count = Len(loots) + Cardinality(inBags)]
         IN  writer' = [v \in Writers |->
                          IF v = w
                          THEN [at |-> "dogs", text |-> text, from |-> Facts,
                                alone |-> ~IsWriting(Other(w))]
                          ELSE [writer[v] EXCEPT !.alone = FALSE]]
    /\ file' = IF file = NoFile THEN NoFile ELSE Torn
    /\ promise' = NoPromise
    /\ UNCHANGED <<process, runs, doubts, joined, memory, timer, removal>>

WriteDogs(w) ==
    /\ process = "up"
    /\ writer[w].at = "dogs"
    /\ \E order \in SetToSeqs(DOMAIN sessions) :
         LET dogs == FlattenSeq([i \in DOMAIN order |-> sessions[order[i]].dogs])
         IN  writer' = [writer EXCEPT ![w].at = "sessions", ![w].text.dogs = dogs]
    /\ UNCHANGED <<process, runs, doubts, joined, memory, timer, disk, removal>>

\* Mutant: the ids of the dogs are forgotten.
SessionReprWithoutDogs(s) == [id |-> s.id, loots |-> s.loots, dogs |-> <<>>]

\* A session is written with its map and the ids of its loot and of its dogs.
SessionRepr(s) ==
    [id |-> s.id, loots |-> s.loots, dogs |-> [i \in DOMAIN s.dogs |-> s.dogs[i].id]]

WriteSessions(w) ==
    /\ process = "up"
    /\ writer[w].at = "sessions"
    /\ writer' = [writer EXCEPT
                    ![w].at = "players",
                    ![w].text.sessions = [m \in DOMAIN sessions |-> SessionRepr(sessions[m])]]
    /\ UNCHANGED <<process, runs, doubts, joined, memory, timer, disk, removal>>

\* A player is written with its token and the ids of its dog and of its session.
PlayerRepr(p) ==
    [token |-> p.token, dog |-> p.dog.id, session |-> sessions[p.session].id]

\* Mutant: the save timer is armed once.
WritePlayersOnce(w) ==
    /\ process = "up"
    /\ writer[w].at = "players"
    /\ LET text == [writer[w].text EXCEPT
                      !.players = [i \in DOMAIN players |-> PlayerRepr(players[i])]]
       IN  file' = IF file = NoFile THEN NoFile ELSE Written(text)
    /\ promise' = [given |-> TRUE, from |-> writer[w].from, to |-> Facts]
    /\ writer' = [writer EXCEPT ![w] = [Idle EXCEPT !.at = IF w = "signal" THEN "done" ELSE "no"]]
    /\ UNCHANGED <<process, runs, doubts, joined, memory, timer, removal>>

\* The players are written and the file is closed.  Two streams that wrote the
\* same file at the same time leave a mixture, or the text of either.  After the
\* save of an update the save timer is armed again.
WritePlayers(w) ==
    /\ process = "up"
    /\ writer[w].at = "players"
    /\ LET text == [writer[w].text EXCEPT
                      !.players = [i \in DOMAIN players |-> PlayerRepr(players[i])]]
       IN  file' \in CASE file = NoFile    -> {NoFile}
                       [] writer[w].alone -> {Written(text)}
                       [] OTHER           -> {Written(text), Torn}
    /\ promise' = [given |-> TRUE, from |-> writer[w].from, to |-> Facts]
    /\ writer' = [writer EXCEPT ![w] = [Idle EXCEPT !.at = IF w = "signal" THEN "done" ELSE "no"]]
    /\ save_timer' = (save_timer \/ (w = "update" /\ ~TestingMode))
    /\ UNCHANGED <<process, runs, doubts, joined, memory, need_to_save_state_, removal>>

\* SIGINT or SIGTERM: any thread of the io_context runs the handler.
Signal ==
    /\ process = "up"
    /\ writer["signal"].at = "no"
    /\ SignalsRace \/ (joining = {} /\ Resting /\ writer["update"].at = "no")
    /\ writer' = [writer EXCEPT !["signal"].at = "open"]
    /\ UNCHANGED <<process, runs, doubts, joined, memory, timer, disk, removal>>

\* ioc.stop(): the handlers that are running come to their end, then main does.
Stop ==
    /\ process = "up"
    /\ writer["signal"].at = "done"
    /\ writer["update"].at = "no"
    /\ joining = {}
    /\ Resting
    /\ process' = "off"
    /\ ForgetMemory
    /\ writer' = [w \in Writers |-> Idle]
    /\ save_timer' = FALSE
    /\ need_to_save_state_' = FALSE
    /\ update' = "idle"
    /\ UNCHANGED <<runs, doubts, joined, disk, parted>>

\* The process is killed, or an exception leaves a thread, between any two steps.
Crash ==
    /\ process = "up"
    /\ process' = "off"
    /\ ForgetMemory
    /\ writer' = [w \in Writers |-> Idle]
    /\ save_timer' = FALSE
    /\ need_to_save_state_' = FALSE
    /\ update' = "idle"
    /\ UNCHANGED <<runs, doubts, joined, disk, parted>>

-----------------------------------------------------------------------------
(* LoadState.                                                              *)

Copies(x, seq) == Cardinality({i \in DOMAIN seq : seq[i] = x})

\* How many pairs of a restored object and an id of the list are equal.
Matches(restored, ids) == Cardinality({p \in (DOMAIN restored) \X (DOMAIN ids) :
                                          restored[p[1]] = ids[p[2]]})

DogIds(text) == [i \in DOMAIN text.dogs |-> text.dogs[i].id]

\* No step of LoadState throws.  A loot_count that is not the number of loots
\* makes the reader take what follows for loot: the stream then throws.
Reads(text) ==
    /\ text.loot_count = Len(text.loots)
    /\ \A m \in DOMAIN text.sessions :
         /\ Matches(text.loots, text.sessions[m].loots) = Len(text.sessions[m].loots)
         /\ Matches(DogIds(text), text.sessions[m].dogs) = Len(text.sessions[m].dogs)
    /\ \A i \in DOMAIN text.players :
         /\ text.players[i].dog \in ToSet(DogIds(text))
         /\ \E m \in DOMAIN text.sessions : text.sessions[m].id = text.players[i].session

\* Mutant: only the greatest id is kept.
GreatestId(text) == FoldLeft(LAMBDA c, d : IF d.id > c THEN d.id ELSE c, 0, text.dogs)

\* The constructor of every restored dog counts, then UpdateDogCounter raises the
\* counter to the dog's id.
RestoredCounter(text) ==
    LET after[n \in 0 .. Len(text.dogs)] ==
            IF n = 0 THEN 0
            ELSE IF text.dogs[n].id > after[n - 1] + 1 THEN text.dogs[n].id
            ELSE after[n - 1] + 1
    IN  after[Len(text.dogs)]

\* Mutant: a restored loot counts twice, when it is created and when it gets its id.
LootCountedTwice(text) == 2 * Len(text.loots)

\* The default constructor of Loot does not count, and nothing calls
\* UpdateLootCounter: a restored loot leaves the counter where it is.
RestoredLootCounter(text) == 0

\* A restored session holds every restored dog once for every time it names its id.
RestoredDogs(text, m) ==
    FlattenSeq([i \in DOMAIN text.dogs |->
        [k \in 1 .. Copies(text.dogs[i].id, text.sessions[m].dogs) |-> text.dogs[i]]])

\* A restored player takes the first dog and the first session with the right id.
RestoredPlayers(text, order) ==
    [i \in DOMAIN text.players |->
        LET p == text.players[i]
        IN  [token   |-> p.token,
             dog     |-> text.dogs[SelectInSeq(text.dogs, LAMBDA d : d.id = p.dog)],
             session |-> order[SelectInSeq(order, LAMBDA m : text.sessions[m].id = p.session)]]]

\* What the ids of a save leave open: its dogs are not numbered from 0 on, one by
\* one, since some have retired, and the counter may continue at an id that one of
\* them has; two of its sessions have one id, and a player may be put into either;
\* or it has loot, whose ids the counter, which starts anew, will give again.
Doubts(text) ==
    {doubt \in {"dogs", "sessions", "loots"} :
        \/ doubt = "dogs" /\ ToSet(DogIds(text)) # {i - 1 : i \in DOMAIN text.dogs}
        \/ doubt = "sessions" /\ \E m, n \in DOMAIN text.sessions :
                m # n /\ text.sessions[m].id = text.sessions[n].id
        \/ doubt = "loots" /\ text.loots # <<>>}

LoadState(text) ==
    /\ dog_counter' = RestoredCounter(text)
    /\ sessions' = [m \in DOMAIN text.sessions |->
                      [id    |-> text.sessions[m].id,
                       loots |-> text.sessions[m].loots,
                       dogs  |-> RestoredDogs(text, m)]]
    /\ \E order \in SetToSeqs(DOMAIN text.sessions) :
         players' = RestoredPlayers(text, order)
    /\ bags' = {}
    /\ loot_counter' = RestoredLootCounter(text)
    /\ joining' = {}

\* main: a file at the path is loaded, and the server does not start if that fails.
Start ==
    /\ process = "off"
    /\ runs < MaxRuns
    /\ runs' = runs + 1
    /\ \/ /\ file = NoFile
          /\ process' = "up"
          /\ save_timer' = SavePeriodSet
          /\ ForgetMemory
          /\ UNCHANGED doubts
       \/ /\ file.kind = "text"
          /\ Reads(file.text)
          /\ process' = "up"
          /\ save_timer' = SavePeriodSet
          /\ LoadState(file.text)
          /\ doubts' = doubts \cup Doubts(file.text)
       \/ /\ file = Torn \/ (file.kind = "text" /\ ~Reads(file.text))
          /\ process' = "failed"
          /\ UNCHANGED <<memory, save_timer, doubts>>
    /\ UNCHANGED <<joined, need_to_save_state_, writer, disk, removal>>

-----------------------------------------------------------------------------

SaveStep(w) == Open(w) \/ WriteDogs(w) \/ WriteSessions(w) \/ WritePlayers(w)

Next ==
    \/ \E m \in Maps, id \in SessionIds : AddDogToSession(m, id)
    \/ PushPlayer
    \/ Update
    \/ UpdateStep
    \/ TimerFires
    \/ \E w \in Writers : SaveStep(w)
    \/ Signal
    \/ Stop
    \/ Crash
    \/ Start

Spec == Init /\ [][Next]_vars

\* The ticker re-arms its timer at the end of every tick that comes back; the save
\* timer has its handler queued on the strand, behind the ticks that were due
\* before it; and a thread in Update, in SaveState, in a join or on its way out of
\* main runs on.  Nobody has to join, to retire, to send a signal, to crash or to
\* start the server.
FairSpec ==
    /\ Spec
    /\ WF_vars(Update)
    /\ WF_vars(UpdateStep)
    /\ SF_vars(TimerFires)
    /\ \A w \in Writers : WF_vars(SaveStep(w))
    /\ WF_vars(PushPlayer)
    /\ WF_vars(Stop)

-----------------------------------------------------------------------------

TypeOK ==
    /\ process \in {"off", "up", "failed"}
    /\ runs \in 0 .. MaxRuns
    /\ doubts \subseteq {"dogs", "sessions", "loots"}
    /\ joined \in 0 .. MaxPlayers
    /\ dog_counter \in Nat
    /\ loot_counter \in 0 .. MaxLoot
    /\ DOMAIN sessions \subseteq Maps
    /\ \A m \in DOMAIN sessions :
         /\ sessions[m].id \in SessionIds
         /\ sessions[m].dogs \in Seq([id : Nat, who : 0 .. MaxPlayers])
         /\ sessions[m].loots \in Seq(Nat)
    /\ players \in Seq([token : 0 .. MaxPlayers, session : DOMAIN sessions,
                        dog : [id : Nat, who : 0 .. MaxPlayers]])
    /\ bags \subseteq 0 .. MaxPlayers
    /\ {save_timer, need_to_save_state_} \subseteq BOOLEAN
    /\ \A w \in Writers :
         writer[w].at \in {"no", "open", "dogs", "sessions", "players", "done"}
    /\ file.kind \in {"missing", "torn", "text"}
    /\ update \in {"idle", "tick", "remove", "spin", "halted"}
    /\ process # "up" => update = "idle"
    /\ parted \subseteq 0 .. MaxPlayers

\* A server that is started after a save was completed starts, and its players
\* find themselves again with their token, their dog and their map: all who were
\* there when the save began, and nobody who was not there when it ended.
SavedStateIsResumed ==
    [][(process = "off" /\ process' # "off" /\ promise.given) =>
          /\ process' = "up"
          /\ promise.from \subseteq Facts'
          /\ Facts' \subseteq promise.to]_vars

\* The same of a server whose earlier starts left no doubt about ids, if the file at
\* its path is the one that was saved, and no dog carried loot then: whatever has
\* retired, lies on the maps, and wherever the processes before it were cut off.
ResumedUnlessInDoubt ==
    [][(/\ process = "off" /\ process' # "off" /\ promise.given /\ file # NoFile
        /\ file.text.loot_count = Len(file.text.loots)
        /\ doubts = {} /\ "sessions" \notin doubts') =>
          /\ process' = "up"
          /\ Facts' = promise.from
          /\ Facts' = promise.to]_vars

\* No two dogs of the game have the same id, over all restarts, as long as no
\* save is loaded whose dogs are not numbered one by one.
AllDogs == UNION {{<<m, i>> : i \in DOMAIN sessions[m].dogs} : m \in DOMAIN sessions}
DogIdsUnique ==
    "dogs" \notin doubts => \A a, b \in AllDogs :
        sessions[a[1]].dogs[a[2]].id = sessions[b[1]].dogs[b[2]].id => a = b

\* Every player's dog is in the session the player plays in, whatever save the
\* server was started from and whatever overlapped that save, as long as its ids
\* left no doubt.  Only the player that is being removed, and one whose removal a
\* save saw in its middle, may be without.
PlayersPlayWithTheirDogs ==
    doubts \subseteq {"loots"} => \A i \in DOMAIN players :
        \/ players[i].dog \in ToSet(sessions[players[i].session].dogs)
        \/ players[i].token \in parted
        \/ update = "remove" /\ i = 1

\* While the server is up with a save period, the game is saved again and again,
\* until a removal does not come back or an exception leaves the ticker unarmed.
SaveCycleContinues ==
    (process = "up" /\ SavePeriodSet) ~>
        (IsWriting("update") \/ process # "up" \/ update \in {"spin", "halted"})
=============================================================================
