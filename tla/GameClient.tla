----------------------------- MODULE GameClient -----------------------------
(***************************************************************************)
(* The page of the game: static/js/game.js between the server it polls     *)
(* and the scene it draws.                                                 *)
(*                                                                         *)
(* Frames drive the page.  Every posUpdateInterval frames it asks for the  *)
(* state of the game, every playersUpdateInterval frames for the list of   *)
(* players.  It does not wait for the answers: updateInProgress and        *)
(* playersSuncInProgress are TRUE only inside a call, so no frame ever     *)
(* finds them set, and they are not variables here.  Requests travel on    *)
(* several connections of the browser; their answers come in any order.    *)
(*                                                                         *)
(* What is drawn of a loot is an object of the scene.  The page keeps it   *)
(* in lostObjects while the loot lies on the map, in the bag of a player's *)
(* data while it is carried, and in disappearingLoot for a second after    *)
(* it has gone.  The data of a player is one object that two tables share: *)
(* currentState.players, of the last state, and players, of the last list. *)
(*                                                                         *)
(* Left out: coordinates, interpolation, rotation, animation, names and    *)
(* scores, which are drawn and forgotten.                                  *)
(***************************************************************************)
EXTENDS Naturals, SequencesExt

CONSTANTS
    Me,                     \* the player of the page, Cookies.get("playerId")
    Players,                \* all players of the session
    Loots,                  \* ids of loot
    LootTypes,              \* how many types of loot the map has
    Keys,                   \* keys of keyMap
    PosUpdateInterval,      \* GameState.posUpdateInterval
    PlayersUpdateInterval,  \* GameState.playersUpdateInterval
    Objects,                \* bound: names for objects of the scene
    Refs,                   \* bound: names for data of players
    Scenarios,              \* bound: what may happen in one behaviour
    NoData, NoState         \* undefined

ASSUME ClientAssumption ==
    /\ Me \in Players
    /\ Players \cap {"none", "map", "gone"} = {}
    /\ {LootTypes, PosUpdateInterval, PlayersUpdateInterval} \subseteq Nat \ {0}
    /\ PlayersUpdateInterval % PosUpdateInterval = 0
    /\ NoData \notin Refs
    /\ \A s \in Scenarios :
        /\ s.joiners \subseteq Players \ {Me}
        /\ s.leavers \subseteq Players
        /\ s.loots \subseteq Loots
        /\ s.keys \subseteq Keys
        /\ s.failures \in Nat     \* answers that may be lost
        /\ s.polls \in [{"state", "players"} -> Nat \ {0}] \* polls not answered yet
        /\ s.presses \in Nat      \* actions not answered yet

VARIABLES
    bounds,             \* the scenario of this behaviour
    \* the server
    life,               \* of each player: "new", "in" the session, "left"
    place,              \* where each loot is
    dir,                \* the direction of the dog of Me
    \* between page and server
    requests,           \* polls on their way to the server, by kind
    answers,            \* answers to polls on their way back, by kind, in the order made
    actions, acks,      \* actions on their way to the server, answers to actions
    failures,           \* how many answers were lost
    \* the page
    page,               \* "loading", "game", or "records" after goToRecords
    loadedActor, objectsToLoad,
    ticks, requestInstantUpdate,
    stateLoaded, playersLoaded, started,
    pressedKeys,        \* KeyState.pressedKeys
    desired,            \* desiredState
    current,            \* currentState.players: the data of each player shown
    players,            \* players: the data of each player listed
    bags,               \* the bag of each data
    lostObjects, disappearing, scene,
    \* what has happened so far, for the properties
    disagreed,          \* the answers did not tell one story, see Disagrees
    actionOvertaken     \* the server got an action after a later one

world   == <<life, place, dir>>
network == <<requests, answers, actions, acks, failures>>
loading == <<loadedActor, objectsToLoad>>
polling == <<ticks, requestInstantUpdate>>
startup == <<stateLoaded, playersLoaded, started>>
drawn   == <<current, players, bags, lostObjects, disappearing, scene>>
history == <<disagreed, actionOvertaken>>
vars == <<bounds, world, network, page, loading, polling, startup, pressedKeys,
          desired, drawn, history>>

Kinds == {"state", "players"}
Places == {"none", "map", "gone"} \cup Players
NotListed == [l \in Loots |-> "none"]
Snapshots == [inGame : SUBSET Players, place : [Loots -> Places]]
Answers == [late : BOOLEAN, told : Snapshots]
Actions == [move : Keys \cup {""}, late : BOOLEAN]
Partial(S, T) == UNION {[D -> T] : D \in SUBSET S}
Empty == [x \in {} |-> x]

TypeOK ==
    /\ bounds \in Scenarios
    /\ life \in [Players -> {"new", "in", "left"}]
    /\ place \in [Loots -> Places]
    /\ dir \in Keys \cup {"", "spawn"}
    /\ requests \in [Kinds -> Nat]
    /\ \A kind \in Kinds : requests[kind] <= bounds.polls[kind]
    /\ answers \in [Kinds -> Seq(Answers)]
    /\ actions \in Seq(Actions)
    /\ acks \in 0 .. bounds.presses
    /\ failures \in 0 .. bounds.failures
    /\ page \in {"loading", "game", "records"}
    /\ loadedActor \in BOOLEAN
    /\ objectsToLoad \in 0 .. LootTypes
    /\ ticks \in 0 .. (PlayersUpdateInterval - 1)
    /\ {requestInstantUpdate, stateLoaded, playersLoaded, started,
        disagreed, actionOvertaken} \subseteq BOOLEAN
    /\ pressedKeys \in Seq(Keys)
    /\ desired \in Snapshots \cup {NoState}
    /\ current \in Partial(Players, Refs)
    /\ players \in Partial(Players, Refs \cup {NoData})
    /\ bags \in Partial(Refs, Partial(Loots, Objects))
    /\ lostObjects \in Partial(Loots, Objects)
    /\ disappearing \in Partial(Loots, Objects)
    /\ scene \subseteq Objects

Init ==
    /\ bounds \in Scenarios
    /\ life = [p \in Players |-> IF p = Me THEN "in" ELSE "new"]
    /\ place = NotListed
    /\ dir = "spawn"
    /\ requests = [k \in Kinds |-> 0]
    /\ answers = [k \in Kinds |-> <<>>]
    /\ actions = <<>>
    /\ acks = 0
    /\ failures = 0
    /\ page = "loading"
    /\ loadedActor = FALSE
    /\ objectsToLoad = LootTypes
    /\ ticks = 0
    /\ requestInstantUpdate = FALSE
    /\ stateLoaded = FALSE
    /\ playersLoaded = FALSE
    /\ started = FALSE
    /\ pressedKeys = <<>>
    /\ desired = NoState
    /\ current = Empty
    /\ players = Empty
    /\ bags = Empty
    /\ lostObjects = Empty
    /\ disappearing = Empty
    /\ scene = {}
    /\ disagreed = FALSE
    /\ actionOvertaken = FALSE

-----------------------------------------------------------------------------
(* The server, as far as its answers show it.                              *)

inGame == {p \in Players : life[p] = "in"}

UnchangedPage == UNCHANGED <<bounds, page, loading, polling, startup, pressedKeys,
                             desired, drawn>>

Join(p) ==
    /\ p \in bounds.joiners
    /\ life[p] = "new"
    /\ life' = [life EXCEPT ![p] = "in"]
    /\ UNCHANGED <<place, dir, network, history>>
    /\ UnchangedPage

\* What can become of a loot: generated, collected, brought to an office.
Goes(from, to) ==
    \/ from = "none" /\ to = "map"
    \/ from = "map" /\ to \in inGame
    \/ from \in inGame /\ to = "gone"

MoveLoot(l) ==
    /\ l \in bounds.loots
    /\ \E to \in Places :
        /\ Goes(place[l], to)
        /\ place' = [place EXCEPT ![l] = to]
    /\ UNCHANGED <<life, dir, network, history>>
    /\ UnchangedPage

\* The dog leaves with its bag.
Retire(p) ==
    /\ p \in inGame \cap bounds.leavers
    /\ life' = [life EXCEPT ![p] = "left"]
    /\ place' = [l \in Loots |-> IF place[l] = p THEN "gone" ELSE place[l]]
    /\ UNCHANGED <<dir, network, history>>
    /\ UnchangedPage

\* A poll is answered.  The answer to a player who is out of the game is 401, which an
\* answer without Me stands for.
Serve(kind) ==
    /\ requests[kind] > 0
    /\ requests' = [requests EXCEPT ![kind] = @ - 1]
    /\ answers' = [answers EXCEPT ![kind] = Append(@,
            [late |-> FALSE,
             told |-> [inGame |-> IF Me \in inGame THEN inGame ELSE {},
                       place |-> IF kind = "state" /\ Me \in inGame THEN place
                                 ELSE NotListed]])]
    /\ UNCHANGED <<world, actions, acks, failures, history>>
    /\ UnchangedPage

Unauthorized(answer) == Me \notin answer.told.inGame

\* The messages of s without the i-th; those before it come too late from now on.
Overtaken(s) == [k \in DOMAIN s |-> [s[k] EXCEPT !.late = TRUE]]
Without(s, i) == Overtaken(SubSeq(s, 1, i - 1)) \o SubSeq(s, i + 1, Len(s))

ServeAction(i) ==
    /\ i \in DOMAIN actions
    /\ actions' = Without(actions, i)
    /\ actionOvertaken' = (actionOvertaken \/ actions[i].late)
    /\ IF Me \in inGame
       THEN dir' = actions[i].move /\ acks' = acks + 1
       ELSE UNCHANGED <<dir, acks>>
    /\ UNCHANGED <<life, place, requests, answers, failures, disagreed>>
    /\ UnchangedPage

-----------------------------------------------------------------------------
(* The page is loaded.                                                     *)

LoadActor ==
    /\ ~loadedActor
    /\ loadedActor' = TRUE
    /\ UNCHANGED <<bounds, world, network, page, objectsToLoad, polling, startup,
                   pressedKeys, desired, drawn, history>>

\* Mutant: a file that is loaded twice is counted twice.
LoadLootTypeTwice ==
    /\ objectsToLoad' = objectsToLoad - 1
    /\ UNCHANGED <<bounds, world, network, page, loadedActor, polling, startup,
                   pressedKeys, desired, drawn, history>>

LoadLootType ==
    /\ objectsToLoad > 0
    /\ objectsToLoad' = objectsToLoad - 1
    /\ UNCHANGED <<bounds, world, network, page, loadedActor, polling, startup,
                   pressedKeys, desired, drawn, history>>

IsReady == loadedActor /\ objectsToLoad = 0

NextTick == (ticks + 1) % PlayersUpdateInterval

\* The first frame that finds the assets makes the GameState, whose constructor sends
\* both polls; the tick of that frame finds the game not started.
NewGameState ==
    /\ page = "loading"
    /\ IsReady
    /\ page' = "game"
    /\ requests' = [k \in Kinds |-> 1]
    /\ ticks' = NextTick
    /\ UNCHANGED <<bounds, world, answers, actions, acks, failures, loading,
                   requestInstantUpdate, startup, pressedKeys, desired, drawn, history>>

-----------------------------------------------------------------------------
(* Frames and keys.                                                        *)

InFlight(kind) == requests[kind] + Len(answers[kind])
IsDue(kind) ==
    \/ kind = "state" /\ (NextTick % PosUpdateInterval = 0 \/ requestInstantUpdate)
    \/ kind = "players" /\ NextTick = 0

\* Loot that has been disappearing for a second leaves the scene; the clock decides which.
ProcessDisappearingLoot ==
    \E over \in SUBSET DOMAIN disappearing :
        /\ disappearing' = Restrict(disappearing, DOMAIN disappearing \ over)
        /\ scene' = scene \ {disappearing[l] : l \in over}

\* Polls that are due are sent, and the frame is drawn.
Tick ==
    /\ page = "game"
    /\ ticks' = NextTick
    /\ IF ~started
       THEN UNCHANGED <<requests, requestInstantUpdate, disappearing, scene>>
       ELSE /\ \A kind \in Kinds : IsDue(kind) => InFlight(kind) < bounds.polls[kind]
            /\ requests' = [kind \in Kinds |->
                    IF IsDue(kind) THEN requests[kind] + 1 ELSE requests[kind]]
            /\ requestInstantUpdate' = FALSE
            /\ ProcessDisappearingLoot
    /\ UNCHANGED <<bounds, world, answers, actions, acks, failures, page, loading,
                   startup, pressedKeys, desired, current, players, bags,
                   lostObjects, history>>

GetLastKey(keys) == IF keys = <<>> THEN "" ELSE keys[Len(keys)]

\* _pressKey posts the last key that is still down.
PressKey(keys) ==
    /\ Len(actions) + acks < bounds.presses
    /\ pressedKeys' = keys
    /\ actions' = Append(actions, [move |-> GetLastKey(keys), late |-> FALSE])
    /\ UNCHANGED <<bounds, world, requests, answers, acks, failures, page, loading,
                   polling, startup, desired, drawn, history>>

\* A key that repeats while it is down posts nothing.
KeyDown(key) ==
    /\ page = "game"
    /\ key \in bounds.keys \ Range(pressedKeys)
    /\ PressKey(Append(pressedKeys, key))

\* Mutant: only presses are posted.
KeyUpSilently(key) ==
    /\ page = "game"
    /\ \E index \in DOMAIN pressedKeys :
        /\ pressedKeys[index] = key
        /\ pressedKeys' = RemoveAt(pressedKeys, index)
    /\ UNCHANGED <<bounds, world, network, page, loading, polling, startup, desired,
                   drawn, history>>

KeyUp(key) ==
    /\ page = "game"
    /\ \E index \in DOMAIN pressedKeys :
        /\ pressedKeys[index] = key
        /\ PressKey(RemoveAt(pressedKeys, index))

ActionDone ==
    /\ page = "game"
    /\ acks > 0
    /\ acks' = acks - 1
    /\ requestInstantUpdate' = TRUE
    /\ UNCHANGED <<bounds, world, requests, answers, actions, failures, page, loading,
                   ticks, startup, pressedKeys, desired, drawn, history>>

-----------------------------------------------------------------------------
(* What the page makes of the answers.                                     *)

\* Functions that give every member of S a name of its own that is not in use.
Namings(S, names, used) ==
    {f \in [S -> names \ used] : \A x, y \in S : f[x] = f[y] => x = y}
NewNames(S, names, used) == CHOOSE f \in Namings(S, names, used) : TRUE

Held(tables) == UNION {Range(t) : t \in tables}
HeldObjects == Held({lostObjects, disappearing} \cup Range(bags)) \cup scene

\* Mutant: a new player does not take the data that the last state gave it.
ListedAnew(snapshot) ==
    [p \in snapshot.inGame |-> IF p \in DOMAIN players THEN players[p] ELSE NoData]

\* Mutant: players who have left are not deleted.
ListedForEver(snapshot) ==
    [p \in snapshot.inGame \cup DOMAIN players |->
        IF p \in DOMAIN players THEN players[p]
        ELSE IF p \in DOMAIN current THEN current[p] ELSE NoData]

\* What _updatePlayersList makes of the players: those it knew keep their data, new ones
\* take the data of currentState if it has any.
Listed(snapshot) ==
    [p \in snapshot.inGame |->
        IF p \in DOMAIN players THEN players[p]
        ELSE IF p \in DOMAIN current THEN current[p] ELSE NoData]

\* Mutant: what a deleted player carries stays where it is.
SceneWithAllLoot(snapshot) == scene

\* ... and of the scene: the loot of a deleted player is removed with it.
SceneAfterList(snapshot) ==
    scene \ UNION {Range(bags[players[p]]) :
        p \in {q \in DOMAIN players \ snapshot.inGame : players[q] # NoData}}

\* Mutant: loot that players took up is not taken out of the abandoned loot.
AllAbandoned(abandoned, attached) == abandoned

\* Abandoned loot that no player took up.
Unclaimed(abandoned, attached) == abandoned \ attached

\* _applyDesiredState, with the players and the scene as the list has left them.
ApplyDesiredState(snapshot, listed, shownScene) ==
    LET onMap == {l \in Loots : snapshot.place[l] = "map"}
        abandoned == DOMAIN lostObjects \ onMap
        \* players without data get one, and an empty bag
        usedData == (Range(current) \cup Range(listed)) \ {NoData}
        newPlayers == snapshot.inGame \ DOMAIN current
        newData == NewNames(newPlayers, Refs, usedData)
        data == [p \in snapshot.inGame |->
                    IF p \in DOMAIN current THEN current[p] ELSE newData[p]]
        bag(p) == IF p \in DOMAIN current THEN bags[current[p]] ELSE Empty
        carried(p) == {l \in Loots : snapshot.place[l] = p}
        attached == UNION {carried(p) \ DOMAIN bag(p) : p \in snapshot.inGame}
        \* _createLoot for loot on the map or in a bag that has no object yet
        newLoot == (onMap \ DOMAIN lostObjects) \cup (attached \ abandoned)
        created == NewNames(newLoot, Objects, HeldObjects)
        object(l) == IF l \in DOMAIN lostObjects THEN lostObjects[l] ELSE created[l]
        bagAfter(p) == [l \in carried(p) |->
                            IF l \in DOMAIN bag(p) THEN bag(p)[l] ELSE object(l)]
        listedAfter == [p \in DOMAIN listed |->
                            IF p \in newPlayers THEN newData[p] ELSE listed[p]]
        \* _dropLoot for what players put down and for what nobody took up
        putDown == {p \in snapshot.inGame : DOMAIN bag(p) \ carried(p) # {}}
        dropped == [l \in Unclaimed(abandoned, attached) \cup
                          UNION {DOMAIN bag(p) \ carried(p) : p \in putDown} |->
                        IF l \in abandoned THEN lostObjects[l]
                        ELSE bag(CHOOSE p \in putDown : l \in DOMAIN bag(p) \ carried(p))[l]]
    IN  /\ Namings(newPlayers, Refs, usedData) # {}     \* bound
        /\ Namings(newLoot, Objects, HeldObjects) # {}  \* bound
        /\ current' = data
        /\ players' = listedAfter
        /\ bags' = [r \in (Range(data) \cup Range(listedAfter)) \ {NoData} |->
                        IF r \in Range(data)
                        THEN bagAfter(CHOOSE p \in DOMAIN data : data[p] = r)
                        ELSE bags[r]]
        /\ lostObjects' = [l \in onMap |-> object(l)]
        /\ disappearing' = [l \in DOMAIN disappearing \cup DOMAIN dropped |->
                                IF l \in DOMAIN dropped THEN dropped[l]
                                ELSE disappearing[l]]
        /\ scene' = shownScene \cup Range(created)

\* Only the list is new.
KeepDesiredState(listed, shownScene) ==
    /\ players' = listed
    /\ bags' = Restrict(bags, (Range(current) \cup Range(listed)) \ {NoData})
    /\ scene' = shownScene
    /\ UNCHANGED <<current, lostObjects, disappearing>>

\* An answer disagrees with what the page was told before when it was overtaken by a
\* later one, or when it drops a player with loot whom no list has named.
Disagrees(kind, answer) ==
    \/ answer.late
    \/ /\ kind = "state"
       /\ \E p \in DOMAIN current \ answer.told.inGame :
            p \notin DOMAIN players /\ bags[current[p]] # Empty

Take(kind, i) ==
    /\ page = "game"
    /\ i \in DOMAIN answers[kind]
    /\ answers' = [answers EXCEPT ![kind] = Without(@, i)]
    /\ UNCHANGED <<bounds, world, requests, actions, acks, failures, loading, polling,
                   pressedKeys, actionOvertaken>>

\* The callbacks of the first two polls: with both, the game starts.
StartGame(haveState, havePlayers) ==
    /\ stateLoaded' = haveState
    /\ playersLoaded' = havePlayers
    /\ started' = (haveState /\ havePlayers)

\* The answer to a poll of the state; that to the first one starts the game if the list
\* is there.
StateArrives(i) ==
    /\ Take("state", i)
    /\ ~Unauthorized(answers["state"][i])
    /\ desired' = answers["state"][i].told
    /\ StartGame(TRUE, playersLoaded)
    /\ IF started'
       THEN ApplyDesiredState(desired', players, scene)
       ELSE UNCHANGED drawn
    /\ disagreed' = (disagreed \/ Disagrees("state", answers["state"][i]))
    /\ UNCHANGED page

PlayersArrive(i) ==
    /\ Take("players", i)
    /\ ~Unauthorized(answers["players"][i])
    /\ StartGame(stateLoaded, TRUE)
    /\ LET listed == Listed(answers["players"][i].told)
           shownScene == SceneAfterList(answers["players"][i].told)
       IN  IF started' /\ ~started
           THEN ApplyDesiredState(desired, listed, shownScene)
           ELSE KeepDesiredState(listed, shownScene)
    /\ disagreed' = (disagreed \/ Disagrees("players", answers["players"][i]))
    /\ UNCHANGED <<page, desired>>

\* Mutant: nobody takes notice of a 401.
RefusedInVain(kind, i) ==
    /\ Take(kind, i)
    /\ Unauthorized(answers[kind][i])
    /\ UNCHANGED <<page, startup, desired, drawn, disagreed>>

\* 401: a poll of the state takes no notice, a poll of the players goes to the records.
Refused(kind, i) ==
    /\ Take(kind, i)
    /\ Unauthorized(answers[kind][i])
    /\ page' = IF kind = "players" THEN "records" ELSE page
    /\ UNCHANGED <<startup, desired, drawn, disagreed>>

\* An answer is lost, or is an error of another kind: nobody takes notice.
AnswerFails(kind, i) ==
    /\ failures < bounds.failures
    /\ failures' = failures + 1
    /\ i \in DOMAIN answers[kind]
    /\ answers' = [answers EXCEPT ![kind] = RemoveAt(@, i)]
    /\ UNCHANGED <<world, requests, actions, acks, history>>
    /\ UnchangedPage

ActionFails(i) ==
    /\ failures < bounds.failures
    /\ failures' = failures + 1
    /\ i \in DOMAIN actions
    /\ actions' = RemoveAt(actions, i)
    /\ UNCHANGED <<world, requests, answers, acks, history>>
    /\ UnchangedPage

-----------------------------------------------------------------------------
Server ==
    \/ \E p \in Players : Join(p) \/ Retire(p)
    \/ \E l \in Loots : MoveLoot(l)
    \/ \E kind \in Kinds : Serve(kind)
    \/ \E i \in DOMAIN actions : ServeAction(i)

Browser ==
    \/ LoadActor \/ LoadLootType \/ NewGameState \/ Tick
    \/ \E key \in Keys : KeyDown(key) \/ KeyUp(key)
    \/ ActionDone
    \/ \E i \in DOMAIN answers["state"] : StateArrives(i) \/ Refused("state", i)
    \/ \E i \in DOMAIN answers["players"] : PlayersArrive(i) \/ Refused("players", i)

Network ==
    \/ \E kind \in Kinds : \E i \in DOMAIN answers[kind] : AnswerFails(kind, i)
    \/ \E i \in DOMAIN actions : ActionFails(i)

Next == Server \/ Browser \/ Network

Spec == Init /\ [][Next]_vars

\* The assets load, frames are drawn while the page is open, requests reach the server,
\* and the answer that was made first arrives in the end.
Fairness ==
    /\ WF_vars(LoadActor) /\ WF_vars(LoadLootType)
    /\ WF_vars(NewGameState) /\ WF_vars(Tick)
    /\ \A kind \in Kinds : WF_vars(Serve(kind))
    /\ WF_vars(ServeAction(1)) /\ WF_vars(ActionDone)
    /\ WF_vars(StateArrives(1) \/ Refused("state", 1))
    /\ WF_vars(PlayersArrive(1) \/ Refused("players", 1))

FairSpec == Spec /\ Fairness

-----------------------------------------------------------------------------
(* Properties.                                                             *)

\* A player that both the last state and the last list name has one data, not two: what a
\* state puts into the bag is what _deletePlayer takes out of the scene.
TablesShareBags ==
    \A p \in DOMAIN current \cap DOMAIN players : players[p] = current[p]

Injective(table) == \A l, m \in DOMAIN table : table[l] = table[m] => l = m
Disjoint(table, other) == Range(table) \cap Range(other) = {}

\* Objects are handed from table to table as loot is found, collected and delivered; no
\* object is ever in two places, so none is moved by two of them.
ObjectsHeldOnce ==
    /\ Injective(lostObjects) /\ Injective(disappearing)
    /\ Disjoint(lostObjects, disappearing)
    /\ \A r \in DOMAIN bags :
        /\ Injective(bags[r])
        /\ Disjoint(bags[r], lostObjects) /\ Disjoint(bags[r], disappearing)
        /\ \A q \in DOMAIN bags \ {r} : Disjoint(bags[r], bags[q])

\* As long as the answers tell one story, no object stays in the scene that no table
\* holds any more (nothing would ever remove it), and the loot of the map and of all
\* players listed is in the scene.
SceneMatchesTables ==
    ~disagreed =>
        /\ scene \subseteq Held({lostObjects, disappearing} \cup Range(bags))
        /\ Range(lostObjects) \subseteq scene
        /\ \A p \in DOMAIN current \cap DOMAIN players : Range(bags[current[p]]) \subseteq scene

\* Presses and releases are posted without waiting for one another: when all have arrived
\* in order the dog runs the way of the last key that is down, or stands.
DirectionFollowsKeys ==
    /\ page = "game" /\ actions = <<>> /\ Me \in inGame
    /\ ~actionOvertaken /\ failures = 0
    => \/ dir = GetLastKey(pressedKeys)
       \/ dir = "spawn" /\ pressedKeys = <<>>

\* The constructor polls once.  When one of these two polls gets no answer it can use, the
\* game never starts: tick() does nothing, and nobody asks again.
StuckAtStart ==
    /\ page = "game" /\ ~started
    /\ \/ ~stateLoaded /\ InFlight("state") = 0
       \/ ~playersLoaded /\ InFlight("players") = 0

\* A player who is retired is taken to the records in the end.  Only the poll of the list
\* does that, so a page that is stuck at its start never gets there.
RetiredSeesRecords == life[Me] = "left" ~> page = "records" \/ StuckAtStart

\* What the page shows when it is up to date.
UpToDate ==
    /\ started
    /\ desired = [inGame |-> inGame, place |-> place]
    /\ DOMAIN current = inGame /\ DOMAIN players = inGame
    /\ DOMAIN lostObjects = {l \in Loots : place[l] = "map"}
    /\ \A p \in inGame : DOMAIN bags[current[p]] = {l \in Loots : place[l] = p}

\* Overtaken, lost and contradicting answers do no lasting harm: when the game stands still,
\* and in the model it does in the end, the page shows the game as it is, for good.
ScreenConverges == <>[](page = "records" \/ StuckAtStart \/ UpToDate)
=============================================================================
