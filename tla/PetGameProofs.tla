--------------------------- MODULE PetGameProofs ---------------------------
(***************************************************************************)
(* Proofs about PetGame, for any number of maps and dogs, any durations of *)
(* ticks and both modes of the server.                                     *)
(***************************************************************************)
EXTENDS PetGame, TLAPS

-----------------------------------------------------------------------------
(* The timers are partial functions from dog ids to bounded clocks.        *)

\* A partial function over some of the dog ids is a table of timers.
LEMMA TimersIntro ==
    ASSUME NEW D \in SUBSET DogId, NEW t \in [D -> 0 .. MaxPlayTime]
    PROVE  t \in Timers
BY DEF Timers

\* And every table of timers is such a function.
LEMMA TimersElim ==
    ASSUME NEW t \in Timers
    PROVE  /\ DOMAIN t \in SUBSET DogId
           /\ t \in [DOMAIN t -> 0 .. MaxPlayTime]
<1>1. PICK D \in SUBSET DogId : t \in [D -> 0 .. MaxPlayTime]
  BY DEF Timers
<1> QED BY <1>1

\* A clock that is read or advanced stays within its bound.
LEMMA ClockBounds ==
    ASSUME NEW t \in Timers, NEW d, NEW delta \in Nat
    PROVE  /\ Clock(t, d) \in 0 .. MaxPlayTime
           /\ Tick(Clock(t, d), delta) \in 0 .. MaxPlayTime
<1>1. MaxPlayTime \in Nat BY ConstantsAssumption
<1>2. Clock(t, d) \in 0 .. MaxPlayTime
  BY <1>1, TimersElim DEF Clock
<1> QED BY <1>1, <1>2 DEF Tick

\* Advancing the clocks of a set of dogs gives a table with those dogs in it.
LEMMA AdvanceTimers ==
    ASSUME NEW t \in Timers, NEW D \in SUBSET DogId, NEW delta \in Nat
    PROVE  Advance(t, D, delta) \in Timers
<1>1. DOMAIN t \in SUBSET DogId BY TimersElim
<1>2. \A d \in (DOMAIN t) \cup D :
        (IF d \in D THEN Tick(Clock(t, d), delta) ELSE t[d]) \in 0 .. MaxPlayTime
  BY TimersElim, ClockBounds
<1>3. Advance(t, D, delta) \in [(DOMAIN t) \cup D -> 0 .. MaxPlayTime]
  BY <1>2 DEF Advance
<1> QED BY <1>1, <1>3, TimersIntro

\* Erasing entries leaves a table.
LEMMA WithoutTimers ==
    ASSUME NEW t \in Timers, NEW D
    PROVE  Without(t, D) \in Timers
<1>1. DOMAIN t \in SUBSET DogId /\ t \in [DOMAIN t -> 0 .. MaxPlayTime]
  BY TimersElim
<1>2. Without(t, D) \in [(DOMAIN t) \ D -> 0 .. MaxPlayTime]
  BY <1>1 DEF Without
<1> QED BY <1>1, <1>2, TimersIntro

\* Writing the row of a dog leaves a table.
LEMMA WithRecordTimers ==
    ASSUME retired_players \in Timers, dog_in_game_time \in Timers, NEW d \in DogId
    PROVE  WithRecord(d) \in Timers
<1>1. /\ DOMAIN retired_players \in SUBSET DogId
      /\ retired_players \in [DOMAIN retired_players -> 0 .. MaxPlayTime]
  BY TimersElim
<1>2. Clock(dog_in_game_time, d) \in 0 .. MaxPlayTime
  BY ClockBounds, 0 \in Nat
<1>3. WithRecord(d) \in [(DOMAIN retired_players) \cup {d} -> 0 .. MaxPlayTime]
  BY <1>1, <1>2 DEF WithRecord
<1> QED BY <1>1, <1>3, TimersIntro

-----------------------------------------------------------------------------
(* Type correctness.                                                       *)

\* The types hold initially.
LEMMA InitType == Init => TypeOK
<1> SUFFICES ASSUME Init PROVE TypeOK OBVIOUS
<1>1. NoTimers \in Timers
  <2>1. NoTimers \in [{} -> 0 .. MaxPlayTime] BY DEF NoTimers
  <2> QED BY <2>1, TimersIntro
<1>2. NewDog \in [dir : DIRECTION, speed : BOOLEAN, moves : 0 .. 3]
  BY ConstantsAssumption DEF NewDog
<1>3. 0 \in 0 .. MaxDogs /\ 0 \in 0 .. MaxDelta BY ConstantsAssumption
<1> QED BY <1>1, <1>2, <1>3 DEF Init, TypeOK, UpdatePhases

\* Every step keeps the types.
LEMMA NextType == TypeOK /\ [Next]_vars => TypeOK'
<1> SUFFICES ASSUME TypeOK, [Next]_vars PROVE TypeOK' OBVIOUS
<1> USE ConstantsAssumption
<1>1. ASSUME NEW m \in Maps, AddDogToSession(m) PROVE TypeOK'
  <2>1. dog_counter \in DogId
    BY <1>1 DEF AddDogToSession, TypeOK, DogId
  <2>2. dog_counter' \in 0 .. MaxDogs
    BY <1>1 DEF AddDogToSession, TypeOK
  <2>3. dogs' \in [Maps -> SUBSET DogId]
    BY <1>1, <2>1 DEF AddDogToSession, TypeOK, NewDogId
  <2>4. joining' \in SUBSET Player
    BY <1>1, <2>1 DEF AddDogToSession, NewDogId, Player
  <2>5. sessions' \in SUBSET Maps /\ pending' \in SUBSET Maps
    BY <1>1 DEF AddDogToSession, TypeOK
  <2> QED BY <1>1, <2>2, <2>3, <2>4, <2>5 DEF AddDogToSession, TypeOK, timerVars
<1>2. ASSUME PushPlayer PROVE TypeOK'
  <2>1. players' \in Seq(Player)
    BY <1>2 DEF PushPlayer, TypeOK
  <2> QED BY <1>2, <2>1 DEF PushPlayer, TypeOK, timerVars, updateVars
<1>3. ASSUME NEW i \in DOMAIN players, NEW direction \in DIRECTION,
             DoAction(players[i], direction)
      PROVE  TypeOK'
  <2>1. players[i].dog \in DogId
    <3>1. players \in Seq(Player) BY DEF TypeOK
    <3>2. players[i] \in Player BY <3>1
    <3> QED BY <3>2 DEF Player
  <2> DEFINE d == players[i].dog
             Body == [dir : DIRECTION, speed : BOOLEAN, moves : 0 .. 3]
  <2>2. dog' \in [DogId -> Body]
    <3>1. dog \in [DogId -> Body] BY DEF TypeOK
    <3>2. dog' = [dog EXCEPT ![d] =
                    [@ EXCEPT !.dir = direction, !.speed = (direction # "NONE")]]
      BY <1>3 DEF DoAction
    <3>3. [dog[d] EXCEPT !.dir = direction, !.speed = (direction # "NONE")] \in Body
      BY <2>1, <3>1
    <3> QED BY <2>1, <3>1, <3>2, <3>3
  <2> QED BY <1>3, <2>2 DEF DoAction, TypeOK, apiVars, timerVars, updateVars
<1>4. ASSUME NEW delta \in Deltas, StartUpdate(delta) PROVE TypeOK'
  BY <1>4 DEF StartUpdate, TypeOK, UpdatePhases, apiVars, timerVars
<1>5. ASSUME NEW m \in Maps, CountGameTime(m) PROVE TypeOK'
  <2>1. dogs[m] \in SUBSET DogId /\ timeDelta \in Nat BY DEF TypeOK
  <2>2. dog_in_game_time' \in Timers
    BY <1>5, <2>1, AdvanceTimers DEF CountGameTime, TypeOK
  <2> QED BY <1>5, <2>1, <2>2 DEF CountGameTime, TypeOK, UpdatePhases, apiVars
<1>6. ASSUME UpdatePositionAndBag PROVE TypeOK'
  <2> DEFINE Body == [dir : DIRECTION, speed : BOOLEAN, moves : 0 .. 3]
  <2>1. dog' \in [DogId -> Body]
    <3>1. PICK stopped \in SUBSET DogId :
            dog' = [d \in DogId |->
                      IF d \in stopped THEN [dog[d] EXCEPT !.speed = FALSE] ELSE dog[d]]
      BY <1>6 DEF UpdatePositionAndBag
    <3>2. \A d \in DogId : dog[d] \in Body BY DEF TypeOK
    <3>3. \A d \in DogId : [dog[d] EXCEPT !.speed = FALSE] \in Body BY <3>2
    <3> QED BY <3>1, <3>2, <3>3
  <2>2. moved' \in SUBSET DogId
    BY <1>6 DEF UpdatePositionAndBag
  <2> QED BY <1>6, <2>1, <2>2
          DEF UpdatePositionAndBag, TypeOK, UpdatePhases, apiVars, timerVars
<1>7. ASSUME UpdateActivity PROVE TypeOK'
  <2>1. \A d \in DogId : Moves(d) \in 0 .. 3
    BY DEF TypeOK, Moves
  <2>2. dog' \in [DogId -> [dir : DIRECTION, speed : BOOLEAN, moves : 0 .. 3]]
    BY <1>7, <2>1 DEF UpdateActivity, TypeOK
  <2>3. not_active_dogs' \in Timers
    <3> DEFINE here == UNION {dogs[m] : m \in session}
    <3>1. PICK alike \in SUBSET (here \ dogPos) :
            LET idle == {d \in here : IsIdle(d, (dogPos \ moved) \cup alike)}
            IN  not_active_dogs' =
                  Advance(Without(not_active_dogs, here \ idle), idle, timeDelta)
      BY <1>7 DEF UpdateActivity
    <3> DEFINE idle == {d \in here : IsIdle(d, (dogPos \ moved) \cup alike)}
    <3>2. idle \in SUBSET DogId BY DEF TypeOK
    <3>3. Without(not_active_dogs, here \ idle) \in Timers
      BY WithoutTimers DEF TypeOK
    <3>4. timeDelta \in Nat BY DEF TypeOK
    <3> HIDE DEF here, idle
    <3>5. Advance(Without(not_active_dogs, here \ idle), idle, timeDelta) \in Timers
      BY <3>2, <3>3, <3>4, AdvanceTimers
    <3> QED BY <3>1, <3>5 DEF idle, here
  <2> QED BY <1>7, <2>2, <2>3 DEF UpdateActivity, TypeOK, UpdatePhases, apiVars
<1>8. ASSUME SelectRetired PROVE TypeOK'
  <2>1. dog_id_to_delete' \in SUBSET DogId
    BY <1>8, TimersElim DEF SelectRetired, TypeOK
  <2> QED BY <1>8, <2>1 DEF SelectRetired, TypeOK, UpdatePhases, apiVars, timerVars
<1>9. ASSUME NEW d \in DogId, SaveRecord(d) PROVE TypeOK'
  <2>1. d \in Nat /\ {d} \in SUBSET DogId BY DEF DogId
  <2>2. dog_in_game_time' \in Timers /\ retired_players' \in Timers
    BY <1>9, <2>1, AdvanceTimers, WithRecordTimers DEF SaveRecord, TypeOK
  <2>3. /\ update' \in UpdatePhases
        /\ timeDelta' \in {0, timeDelta}
        /\ dog_id_to_delete' \in {{}, dog_id_to_delete}
    BY <1>9 DEF SaveRecord, LeaveByException, UpdatePhases
  <2>4. timeDelta' \in 0 .. MaxDelta /\ dog_id_to_delete' \in SUBSET DogId
    BY <2>3 DEF TypeOK
  <2> QED BY <1>9, <2>1, <2>2, <2>3, <2>4 DEF SaveRecord, TypeOK, apiVars
<1>10. ASSUME NEW d \in DogId, SaveRecordThrows(d) PROVE TypeOK'
  <2>1. {d} \in SUBSET DogId OBVIOUS
  <2>2. dog_in_game_time' \in Timers /\ retired_players' \in Timers
    BY <1>10, <2>1, AdvanceTimers, WithRecordTimers DEF SaveRecordThrows, TypeOK
  <2>3. update' \in UpdatePhases
    BY <1>10 DEF SaveRecordThrows, LeaveByException, UpdatePhases
  <2> QED BY <1>10, <2>2, <2>3 DEF SaveRecordThrows, LeaveByException, TypeOK, apiVars
<1>11. ASSUME RemoveFirstPlayer PROVE TypeOK'
  <2>1. Head(players) \in Player
    BY <1>11 DEF RemoveFirstPlayer, TypeOK
  <2>2. players' \in Seq(Player)
    BY <1>11 DEF RemoveFirstPlayer, TypeOK
  <2>3. dogs' \in [Maps -> SUBSET DogId]
    BY <1>11, <2>1 DEF RemoveFirstPlayer, TypeOK
  <2> QED BY <1>11, <2>2, <2>3
          DEF RemoveFirstPlayer, TypeOK, UpdatePhases, timerVars, updateVars
<1>12. ASSUME NoPlayerToRemove PROVE TypeOK'
  BY <1>12 DEF NoPlayerToRemove, TypeOK, UpdatePhases, apiVars, timerVars, updateVars
<1>13. ASSUME Spin PROVE TypeOK'
  BY <1>13 DEF Spin, TypeOK, UpdatePhases, apiVars, timerVars, updateVars
<1>14. ASSUME EraseTimers PROVE TypeOK'
  <2>1. not_active_dogs' \in Timers /\ dog_in_game_time' \in Timers
    BY <1>14, WithoutTimers DEF EraseTimers, TypeOK
  <2> QED BY <1>14, <2>1 DEF EraseTimers, TypeOK, UpdatePhases, apiVars
<1>15. ASSUME FinishUpdate PROVE TypeOK'
  BY <1>15 DEF FinishUpdate, TypeOK, UpdatePhases, apiVars, timerVars
<1>16. ASSUME DataRace PROVE TypeOK'
  BY <1>16 DEF DataRace, TypeOK, UpdatePhases, apiVars, timerVars, updateVars
<1>17. ASSUME UNCHANGED vars PROVE TypeOK'
  BY <1>17 DEF vars, TypeOK, apiVars, timerVars, updateVars
<1> QED BY <1>1, <1>2, <1>3, <1>4, <1>5, <1>6, <1>7, <1>8, <1>9, <1>10, <1>11,
           <1>12, <1>13, <1>14, <1>15, <1>16, <1>17
        DEF Next, Request, UpdateStep

\* Every variable keeps its type.
THEOREM TypeCorrect == Spec => []TypeOK
BY InitType, NextType, PTL DEF Spec

-----------------------------------------------------------------------------
(* Ids and registry.                                                       *)

\* A dog is live when it is in some session.
LEMMA LiveDogsDef == \A d : d \in LiveDogs <=> \E m \in Maps : d \in dogs[m]
BY DEF LiveDogs

\* The inductive invariant holds initially.
LEMMA InitInvariant ==
    Init => /\ DogIdsUnique
            /\ RegistryInJoinOrder
            /\ TimersFollowDogs
            /\ PlayTimeCoversIdleTime
<1> SUFFICES ASSUME Init
             PROVE  /\ DogIdsUnique
                    /\ RegistryInJoinOrder
                    /\ TimersFollowDogs
                    /\ PlayTimeCoversIdleTime
  OBVIOUS
<1>1. LiveDogs = {} /\ DOMAIN NoTimers = {} /\ DOMAIN players = {}
  BY DEF Init, LiveDogs, NoTimers
<1>2. DogIdsUnique
  BY <1>1 DEF Init, DogIdsUnique
<1>3. RegistryInJoinOrder
  BY <1>1 DEF Init, RegistryInJoinOrder
<1>4. TimersFollowDogs
  BY <1>1 DEF Init, TimersFollowDogs, InRemoval
<1>5. PlayTimeCoversIdleTime
  <2>1. Slack \in Nat BY ConstantsAssumption DEF Slack
  <2>2. \A d : Clock(NoTimers, d) = 0 BY <1>1 DEF Clock
  <2> QED BY <1>1, <2>1, <2>2 DEF Init, PlayTimeCoversIdleTime
<1> QED BY <1>2, <1>3, <1>4, <1>5

\* Ids stay unique: only a join hands one out, and it is the counter's.
LEMMA DogIdsStep ==
    ASSUME TypeOK, DogIdsUnique, RegistryInJoinOrder, [Next]_vars
    PROVE  DogIdsUnique'
<1>1. ASSUME NEW m \in Maps, AddDogToSession(m) PROVE DogIdsUnique'
  <2>1. /\ dog_counter \in Nat
        /\ dog_counter' = dog_counter + 1
        /\ retired_players' = retired_players /\ dogPos' = dogPos
    BY <1>1, ConstantsAssumption DEF AddDogToSession, TypeOK
  <2>2. \A n \in Maps : \A d :
           d \in dogs'[n] <=> d \in dogs[n] \/ (n = m /\ d = dog_counter)
    BY <1>1 DEF AddDogToSession, NewDogId, TypeOK
  <2>3. \A n \in Maps : \A d \in dogs[n] : d \in Nat /\ d < dog_counter
    BY DEF DogIdsUnique, LiveDogs, TypeOK, DogId
  <2>4. \A d \in (DOMAIN retired_players) \cup dogPos : d \in Nat /\ d < dog_counter
    BY TimersElim DEF DogIdsUnique, TypeOK, DogId
  <2>5. \A d \in (LiveDogs \cup (DOMAIN retired_players) \cup dogPos)' : d < dog_counter'
    <3> SUFFICES ASSUME NEW d, d \in LiveDogs' \/ d \in (DOMAIN retired_players) \cup dogPos
                 PROVE  d < dog_counter'
      BY <2>1
    <3>1. CASE d \in (DOMAIN retired_players) \cup dogPos
      BY <2>1, <2>4, <3>1
    <3>2. CASE d \in LiveDogs'
      <4>1. PICK n \in Maps : d \in dogs'[n] BY <3>2 DEF LiveDogs
      <4> QED BY <2>1, <2>2, <2>3, <4>1
    <3> QED BY <3>1, <3>2
  <2>6. \A n, k \in Maps : \A d \in dogs'[n] \cap dogs'[k] : n = k
    <3> SUFFICES ASSUME NEW n \in Maps, NEW k \in Maps,
                        NEW d \in dogs'[n] \cap dogs'[k]
                 PROVE  n = k
      OBVIOUS
    <3>1. CASE d = dog_counter
      BY <2>1, <2>2, <2>3, <3>1
    <3>2. CASE d # dog_counter
      <4>1. d \in dogs[n] \cap dogs[k] BY <2>2, <3>2
      <4> QED BY <4>1 DEF DogIdsUnique
    <3> QED BY <3>1, <3>2
  <2> QED BY <2>5, <2>6 DEF DogIdsUnique
<1>2. ASSUME NEW d \in DogId, SaveRecord(d) \/ SaveRecordThrows(d) PROVE DogIdsUnique'
  <2>1. /\ UNCHANGED <<dogs, dog_counter, dogPos>>
        /\ DOMAIN retired_players' \subseteq (DOMAIN retired_players) \cup LiveDogs
    BY <1>2 DEF SaveRecord, LeaveByException, SaveRecordThrows, WithRecord, apiVars
  <2> QED BY <2>1 DEF DogIdsUnique, LiveDogs
<1>3. ASSUME RemoveFirstPlayer PROVE DogIdsUnique'
  <2>1. /\ UNCHANGED <<dog_counter, retired_players, dogPos>>
        /\ \A n \in Maps : dogs'[n] \subseteq dogs[n]
    BY <1>3 DEF RemoveFirstPlayer, TypeOK, updateVars
  <2> QED BY <2>1 DEF DogIdsUnique, LiveDogs
<1>4. ASSUME UNCHANGED <<dogs, dog_counter, retired_players>>,
             dogPos' \subseteq dogPos \cup LiveDogs
      PROVE  DogIdsUnique'
  BY <1>4 DEF DogIdsUnique, LiveDogs
<1>5. \/ \E m \in Maps : AddDogToSession(m)
      \/ \E d \in DogId : SaveRecord(d) \/ SaveRecordThrows(d)
      \/ RemoveFirstPlayer
      \/ /\ UNCHANGED <<dogs, dog_counter, retired_players>>
         /\ dogPos' \subseteq dogPos \cup LiveDogs
  BY DEF Next, LiveDogs, updateVars, Request, UpdateStep, vars, apiVars, PushPlayer, DoAction, StartUpdate,
         CountGameTime, UpdatePositionAndBag, UpdateActivity, SelectRetired,
         NoPlayerToRemove, Spin, EraseTimers, FinishUpdate, DataRace
<1> QED BY <1>1, <1>2, <1>3, <1>4, <1>5

\* The registry stays in join order and owns the dogs of the sessions.
LEMMA RegistryStep ==
    ASSUME TypeOK, DogIdsUnique, RegistryInJoinOrder, [Next]_vars
    PROVE  RegistryInJoinOrder'
<1>0. /\ players \in Seq(Player)
      /\ \A i \in DOMAIN players : players[i] \in Player
      /\ \A i \in DOMAIN players : i \in Nat
  <2>1. players \in Seq(Player) BY DEF TypeOK
  <2> QED BY <2>1
<1>1. ASSUME NEW m \in Maps, AddDogToSession(m) PROVE RegistryInJoinOrder'
  <2>1. /\ joining = {} /\ joining' = {[dog |-> dog_counter, session |-> m]}
        /\ players' = players /\ update' = update
        /\ TestingMode => update = "idle"
    BY <1>1 DEF AddDogToSession, NewDogId, ApiRuns
  <2>2. \A n \in Maps : \A d :
           d \in dogs'[n] <=> d \in dogs[n] \/ (n = m /\ d = dog_counter)
    BY <1>1 DEF AddDogToSession, NewDogId, TypeOK
  <2>3. \A i \in DOMAIN players : players[i].dog \in dogs'[players[i].session]
    BY <1>0, <2>2 DEF RegistryInJoinOrder, Player
  <2>4. \A i \in DOMAIN players : players[i].dog < dog_counter
    BY <1>0 DEF RegistryInJoinOrder, DogIdsUnique, LiveDogs, Player
  <2>5. \A n \in Maps : \A d \in dogs'[n] :
           \/ \E i \in DOMAIN players : players[i] = [dog |-> d, session |-> n]
           \/ [dog |-> d, session |-> n] \in joining'
    BY <2>1, <2>2 DEF RegistryInJoinOrder
  <2> QED BY <2>1, <2>2, <2>3, <2>4, <2>5 DEF RegistryInJoinOrder
<1>2. ASSUME PushPlayer PROVE RegistryInJoinOrder'
  <2>1. PICK p \in joining : players' = Append(players, p)
    BY <1>2 DEF PushPlayer
  <2>2. p \in Player BY DEF TypeOK
  <2>3. \A q \in joining : q = p BY DEF RegistryInJoinOrder
  <2>4. /\ joining' = {} /\ UNCHANGED dogs
        /\ DOMAIN players' = (DOMAIN players) \cup {Len(players) + 1}
        /\ \A i \in DOMAIN players : players'[i] = players[i] /\ i < Len(players) + 1
        /\ players'[Len(players) + 1] = p
        /\ Len(players) + 1 \in Nat
    BY <1>0, <1>2, <2>1, <2>2 DEF PushPlayer
  <2>5. \A i \in DOMAIN players' : players'[i].dog \in dogs'[players'[i].session]
    BY <2>4 DEF RegistryInJoinOrder
  <2>6. \A i, j \in DOMAIN players' : i < j => players'[i].dog < players'[j].dog
    <3> SUFFICES ASSUME NEW i \in DOMAIN players', NEW j \in DOMAIN players', i < j
                 PROVE  players'[i].dog < players'[j].dog
      OBVIOUS
    <3>1. i \in DOMAIN players
      BY <1>0, <2>4
    <3>2. CASE j \in DOMAIN players
      BY <2>4, <3>1, <3>2 DEF RegistryInJoinOrder
    <3>3. CASE j = Len(players) + 1
      BY <2>4, <3>1, <3>3 DEF RegistryInJoinOrder
    <3> QED BY <2>4, <3>2, <3>3
  <2>7. \A n \in Maps : \A d \in dogs'[n] :
           \E i \in DOMAIN players' : players'[i] = [dog |-> d, session |-> n]
    <3> SUFFICES ASSUME NEW n \in Maps, NEW d \in dogs'[n]
                 PROVE  \E i \in DOMAIN players' : players'[i] = [dog |-> d, session |-> n]
      OBVIOUS
    <3>1. CASE \E i \in DOMAIN players : players[i] = [dog |-> d, session |-> n]
      BY <2>4, <3>1
    <3>2. CASE [dog |-> d, session |-> n] \in joining
      BY <2>3, <2>4, <3>2
    <3> QED BY <2>4, <3>1, <3>2 DEF RegistryInJoinOrder
  <2> QED BY <2>4, <2>5, <2>6, <2>7 DEF RegistryInJoinOrder
<1>3. ASSUME RemoveFirstPlayer PROVE RegistryInJoinOrder'
  <2> DEFINE first == Head(players)
  <2>1. /\ players # <<>> /\ first = players[1] /\ first \in Player /\ 1 \in DOMAIN players
        /\ first.dog = dog_id
        /\ update # "idle" /\ update' # "idle" /\ joining' = joining
    BY <1>0, <1>3 DEF RemoveFirstPlayer
  <2>2. \A n \in Maps : \A d :
           d \in dogs'[n] <=> d \in dogs[n] /\ ~(n = first.session /\ d = dog_id)
    BY <1>3, <2>1 DEF RemoveFirstPlayer, TypeOK
  <2>3. /\ \A i \in DOMAIN players' : i + 1 \in DOMAIN players /\ players'[i] = players[i + 1]
        /\ \A i \in DOMAIN players : i # 1 => i - 1 \in DOMAIN players'
        /\ \A i \in DOMAIN players' : i \in Nat /\ i >= 1
    BY <1>0, <1>3, <2>1 DEF RemoveFirstPlayer
  <2> HIDE DEF first
  <2>4. \A i \in DOMAIN players' : players'[i].dog # dog_id /\ players'[i].dog \in Nat
    <3> SUFFICES ASSUME NEW i \in DOMAIN players'
                 PROVE  players'[i].dog # dog_id /\ players'[i].dog \in Nat
      OBVIOUS
    <3>1. players[1].dog < players[i + 1].dog
      BY <2>1, <2>3 DEF RegistryInJoinOrder
    <3>2. players[i + 1].dog \in Nat /\ players[1].dog \in Nat
      BY <1>0, <2>1, <2>3 DEF Player, DogId
    <3> QED BY <2>1, <2>3, <3>1, <3>2
  <2>5. \A i \in DOMAIN players' : players'[i].dog \in dogs'[players'[i].session]
    <3> SUFFICES ASSUME NEW i \in DOMAIN players'
                 PROVE  players'[i].dog \in dogs'[players'[i].session]
      OBVIOUS
    <3>1. players'[i] \in Player /\ players'[i].dog \in dogs[players'[i].session]
      BY <1>0, <2>3 DEF RegistryInJoinOrder
    <3>2. players'[i].session \in Maps BY <3>1 DEF Player
    <3> QED BY <2>2, <2>4, <3>1, <3>2
  <2>6. \A i, j \in DOMAIN players' : i < j => players'[i].dog < players'[j].dog
    BY <2>3 DEF RegistryInJoinOrder
  <2>7. \A p \in joining' :
           /\ p.dog \in dogs'[p.session]
           /\ \A i \in DOMAIN players' : players'[i].dog < p.dog
           /\ \A q \in joining' : p = q
    <3> SUFFICES ASSUME NEW p \in joining'
                 PROVE  /\ p.dog \in dogs'[p.session]
                        /\ \A i \in DOMAIN players' : players'[i].dog < p.dog
                        /\ \A q \in joining' : p = q
      OBVIOUS
    <3>1. p \in Player /\ p \in joining BY <2>1 DEF TypeOK
    <3>2. p.dog \in Nat /\ p.session \in Maps /\ dog_id \in Nat
      BY <3>1 DEF Player, DogId, TypeOK
    <3>3. dog_id < p.dog /\ p.dog \in dogs[p.session]
      BY <2>1, <3>1 DEF RegistryInJoinOrder
    <3>4. p.dog \in dogs'[p.session]
      BY <2>2, <3>2, <3>3
    <3>5. \A i \in DOMAIN players' : players'[i].dog < p.dog
      BY <2>3, <3>1 DEF RegistryInJoinOrder
    <3> QED BY <2>1, <3>1, <3>4, <3>5 DEF RegistryInJoinOrder
  <2>8. \A n \in Maps : \A d \in dogs'[n] :
           \/ \E i \in DOMAIN players' : players'[i] = [dog |-> d, session |-> n]
           \/ [dog |-> d, session |-> n] \in joining'
    <3> SUFFICES ASSUME NEW n \in Maps, NEW d \in dogs'[n],
                        [dog |-> d, session |-> n] \notin joining
                 PROVE  \E i \in DOMAIN players' : players'[i] = [dog |-> d, session |-> n]
      BY <2>1
    <3>1. PICK i \in DOMAIN players : players[i] = [dog |-> d, session |-> n]
      BY <2>2 DEF RegistryInJoinOrder
    <3>2. i # 1
      BY <2>1, <2>2, <3>1
    <3>3. i - 1 \in DOMAIN players' /\ players'[i - 1] = players[i]
      BY <1>0, <2>3, <3>2
    <3> QED BY <3>1, <3>3
  <2>9. (TestingMode /\ update' # "idle") => joining' = {}
    BY <2>1 DEF RegistryInJoinOrder
  <2> QED BY <2>5, <2>6, <2>7, <2>8, <2>9 DEF RegistryInJoinOrder
<1>4. ASSUME NEW delta \in Deltas, StartUpdate(delta) PROVE RegistryInJoinOrder'
  BY <1>4 DEF StartUpdate, RegistryInJoinOrder, apiVars
<1>5. ASSUME UNCHANGED <<players, dogs, joining>>,
             TestingMode /\ update' # "idle" => update # "idle"
      PROVE  RegistryInJoinOrder'
  BY <1>5 DEF RegistryInJoinOrder
<1>6. \/ \E m \in Maps : AddDogToSession(m)
      \/ PushPlayer
      \/ RemoveFirstPlayer
      \/ \E delta \in Deltas : StartUpdate(delta)
      \/ /\ UNCHANGED <<players, dogs, joining>>
         /\ TestingMode /\ update' # "idle" => update # "idle"
  BY DEF Next, Request, UpdateStep, vars, apiVars, DoAction,
         CountGameTime, UpdatePositionAndBag, UpdateActivity, SelectRetired,
         SaveRecord, SaveRecordThrows, NoPlayerToRemove, Spin, EraseTimers,
         FinishUpdate, DataRace
<1> QED BY <1>1, <1>2, <1>3, <1>4, <1>5, <1>6

-----------------------------------------------------------------------------
(* Timers.                                                                 *)

\* What a table of timers says after some of its clocks were advanced.
LEMMA ClockAdvance ==
    ASSUME NEW t \in Timers, NEW D \in SUBSET DogId, NEW delta \in Nat, NEW e
    PROVE  /\ e \in D => Clock(Advance(t, D, delta), e) = Tick(Clock(t, e), delta)
           /\ e \notin D => Clock(Advance(t, D, delta), e) = Clock(t, e)
BY DEF Advance, Clock

\* And after entries were erased.
LEMMA ClockWithout ==
    ASSUME NEW t, NEW D, NEW e
    PROVE  /\ e \in D => Clock(Without(t, D), e) = 0
           /\ e \notin D => Clock(Without(t, D), e) = Clock(t, e)
BY DEF Without, Clock

\* Reading operator[] changes no clock.
LEMMA ClockTouch ==
    ASSUME NEW t \in Timers, NEW d \in DogId
    PROVE  \A e \in DogId : Clock(Advance(t, {d}, 0), e) = Clock(t, e)
<1>1. \A e \in DogId : Clock(t, e) \in 0 .. MaxPlayTime BY ClockBounds, 0 \in Nat
<1>2. \A e \in DogId : Tick(Clock(t, e), 0) = Clock(t, e)
  BY <1>1, ConstantsAssumption DEF Tick
<1>3. {d} \in SUBSET DogId /\ 0 \in Nat OBVIOUS
<1>4. \A e \in DogId : Clock(Advance(t, {d}, 0), e)
               = IF e \in {d} THEN Tick(Clock(t, e), 0) ELSE Clock(t, e)
  BY <1>3, ClockAdvance
<1> QED BY <1>2, <1>4

\* Idle timers keep belonging to live dogs.
LEMMA TimersStep ==
    ASSUME TypeOK, DogIdsUnique, TimersFollowDogs, [Next]_vars
    PROVE  TimersFollowDogs'
<1>1. ASSUME NEW m \in Maps, AddDogToSession(m) PROVE TimersFollowDogs'
  <2>1. UNCHANGED <<not_active_dogs, update, dog_id, dog_id_to_delete>>
    BY <1>1 DEF AddDogToSession, timerVars
  <2>2. LiveDogs \subseteq LiveDogs'
    BY <1>1 DEF AddDogToSession, LiveDogs, TypeOK
  <2> QED BY <2>1, <2>2 DEF TimersFollowDogs, InRemoval
<1>2. ASSUME UpdateActivity PROVE TimersFollowDogs'
  <2> DEFINE here == UNION {dogs[m] : m \in session}
  <2>1. PICK alike \in SUBSET (here \ dogPos) :
          LET idle == {d \in here : IsIdle(d, (dogPos \ moved) \cup alike)}
          IN  not_active_dogs' =
                Advance(Without(not_active_dogs, here \ idle), idle, timeDelta)
    BY <1>2 DEF UpdateActivity
  <2> DEFINE idle == {d \in here : IsIdle(d, (dogPos \ moved) \cup alike)}
  <2>2. idle \subseteq LiveDogs /\ DOMAIN not_active_dogs \subseteq LiveDogs
    BY <1>2 DEF UpdateActivity, TimersFollowDogs, TypeOK, LiveDogs
  <2>3. DOMAIN not_active_dogs' \subseteq (DOMAIN not_active_dogs) \cup idle
    BY <2>1 DEF Advance, Without
  <2>4. UNCHANGED <<dogs, dog_id_to_delete>> /\ update' = "sessions"
        /\ dog_id_to_delete = {}
    BY <1>2 DEF UpdateActivity, TimersFollowDogs, apiVars
  <2> QED BY <2>2, <2>3, <2>4 DEF TimersFollowDogs, InRemoval, LiveDogs
<1>3. ASSUME SelectRetired PROVE TimersFollowDogs'
  BY <1>3 DEF SelectRetired, TimersFollowDogs, InRemoval, apiVars, timerVars, LiveDogs
<1>4. ASSUME NEW d \in DogId, SaveRecord(d) PROVE TimersFollowDogs'
  BY <1>4 DEF SaveRecord, LeaveByException, IsNext, TimersFollowDogs, InRemoval, apiVars, LiveDogs
<1>5. ASSUME NEW d \in DogId, SaveRecordThrows(d) PROVE TimersFollowDogs'
  BY <1>5 DEF SaveRecordThrows, LeaveByException, TimersFollowDogs, InRemoval, apiVars, LiveDogs
<1>6. ASSUME RemoveFirstPlayer PROVE TimersFollowDogs'
  <2>1. /\ UNCHANGED <<not_active_dogs, dog_id, dog_id_to_delete>>
        /\ update = "remove" /\ update' = "erase"
    BY <1>6 DEF RemoveFirstPlayer, timerVars, updateVars
  <2>2. LiveDogs \subseteq LiveDogs' \cup {dog_id}
    <3>1. \A m \in Maps : \A d : d \in dogs[m] /\ d # dog_id => d \in dogs'[m]
      BY <1>6 DEF RemoveFirstPlayer, TypeOK
    <3> QED BY <3>1 DEF LiveDogs
  <2> QED BY <2>1, <2>2 DEF TimersFollowDogs, InRemoval
<1>7. ASSUME NoPlayerToRemove \/ Spin PROVE TimersFollowDogs'
  BY <1>7 DEF NoPlayerToRemove, Spin, TimersFollowDogs, InRemoval, apiVars, timerVars,
              updateVars, LiveDogs
<1>8. ASSUME EraseTimers PROVE TimersFollowDogs'
  <2>1. DOMAIN not_active_dogs' = (DOMAIN not_active_dogs) \ {dog_id}
    BY <1>8 DEF EraseTimers, Without
  <2> QED BY <1>8, <2>1 DEF EraseTimers, TimersFollowDogs, InRemoval, apiVars, LiveDogs
<1>9. ASSUME FinishUpdate PROVE TimersFollowDogs'
  BY <1>9 DEF FinishUpdate, TimersFollowDogs, InRemoval, apiVars, timerVars, LiveDogs
<1>10. ASSUME NEW delta \in Deltas, StartUpdate(delta) PROVE TimersFollowDogs'
  BY <1>10 DEF StartUpdate, TimersFollowDogs, InRemoval, apiVars, timerVars, LiveDogs
<1>11. ASSUME NEW m \in Maps, CountGameTime(m) PROVE TimersFollowDogs'
  BY <1>11 DEF CountGameTime, TimersFollowDogs, InRemoval, apiVars, LiveDogs
<1>12. ASSUME UpdatePositionAndBag PROVE TimersFollowDogs'
  BY <1>12 DEF UpdatePositionAndBag, TimersFollowDogs, InRemoval, apiVars, timerVars,
               LiveDogs
<1>13. ASSUME DataRace PROVE TimersFollowDogs'
  BY <1>13 DEF DataRace, TimersFollowDogs, InRemoval, apiVars, timerVars, updateVars,
               LiveDogs
<1>14. ASSUME UNCHANGED <<dogs, not_active_dogs, update, dog_id, dog_id_to_delete>>
       PROVE  TimersFollowDogs'
  BY <1>14 DEF TimersFollowDogs, InRemoval, LiveDogs
<1>15. ASSUME PushPlayer \/ UNCHANGED vars
              \/ \E i \in DOMAIN players, direction \in DIRECTION :
                     DoAction(players[i], direction)
       PROVE  UNCHANGED <<dogs, not_active_dogs, update, dog_id, dog_id_to_delete>>
  BY <1>15 DEF PushPlayer, DoAction, vars, apiVars, timerVars, updateVars
<1> QED BY <1>1, <1>2, <1>3, <1>4, <1>5, <1>6, <1>7, <1>8, <1>9, <1>10, <1>11,
           <1>12, <1>13, <1>14, <1>15
        DEF Next, Request, UpdateStep

\* Facts about clocks and durations, for the arithmetic below.
LEMMA ClockFacts ==
    ASSUME TypeOK
    PROVE  /\ \A d : Clock(not_active_dogs, d) \in 0 .. MaxPlayTime
           /\ \A d : Clock(dog_in_game_time, d) \in 0 .. MaxPlayTime
           /\ MaxPlayTime \in Nat /\ DogRetirementTime \in Nat /\ Slack \in Nat
           /\ timeDelta \in Nat
           /\ ~TestingMode => timeDelta <= Slack
<1>1. not_active_dogs \in Timers /\ dog_in_game_time \in Timers /\ 0 \in Nat
  BY DEF TypeOK
<1>2. timeDelta \in 0 .. MaxDelta BY DEF TypeOK
<1> QED BY <1>1, <1>2, ClockBounds, ConstantsAssumption DEF Slack

\* No dog gets ahead of its play time with its idle time.
LEMMA PlayTimeStep ==
    ASSUME TypeOK, TypeOK', DogIdsUnique, TimersFollowDogs, PlayTimeCoversIdleTime,
           [Next]_vars
    PROVE  PlayTimeCoversIdleTime'
<1> DEFINE na == not_active_dogs
           ig == dog_in_game_time
<1>1. ASSUME NEW m \in Maps, AddDogToSession(m) PROVE PlayTimeCoversIdleTime'
  <2>1. UNCHANGED <<na, ig, update, session, dogPos, timeDelta, dog_id_to_delete>>
    BY <1>1 DEF AddDogToSession, timerVars
  <2> SUFFICES ASSUME update \in {"position", "activity"},
                      NEW n \in session, NEW d \in dogs'[n]
               PROVE  IF d \in dogPos
                      THEN Tick(Clock(na, d), timeDelta) <= Clock(ig, d) + Slack
                      ELSE ~TestingMode /\ Clock(na, d) = 0
    BY <2>1 DEF PlayTimeCoversIdleTime
  <2>2. n \in Maps /\ (d \in dogs[n] \/ d = dog_counter)
    BY <1>1 DEF AddDogToSession, NewDogId, TypeOK
  <2>3. CASE d \in dogs[n]
    BY <2>3 DEF PlayTimeCoversIdleTime
  <2>4. CASE d = dog_counter
    <3>1. dog_counter \in Nat BY DEF TypeOK
    <3>2. d \notin LiveDogs /\ d \notin dogPos
      BY <2>4, <3>1 DEF DogIdsUnique
    <3>3. d \notin DOMAIN na
      BY <3>2 DEF TimersFollowDogs
    <3>4. ~TestingMode
      BY <1>1 DEF AddDogToSession, ApiRuns
    <3> QED BY <3>2, <3>3, <3>4 DEF Clock
  <2> QED BY <2>2, <2>3, <2>4
<1>2. ASSUME NEW m \in Maps, CountGameTime(m) PROVE PlayTimeCoversIdleTime'
  <2>1. /\ UNCHANGED <<na, dogs, timeDelta, dog_id_to_delete>>
        /\ session' = {m} /\ dogPos' = dogs[m]
        /\ dog_in_game_time' = Advance(ig, dogs[m], timeDelta)
    BY <1>2 DEF CountGameTime, apiVars
  <2>2. ig \in Timers /\ dogs[m] \in SUBSET DogId /\ timeDelta \in Nat
    BY DEF TypeOK
  <2>3. \A e \in DogId : Clock(ig', e) = IF e \in dogs[m] THEN Tick(Clock(ig, e), timeDelta)
                                                ELSE Clock(ig, e)
    BY <2>1, <2>2, ClockAdvance
  <2>4. \A d \in DogId : Clock(na, d) <= Clock(ig', d) + Slack
    BY <2>3, ClockFacts DEF PlayTimeCoversIdleTime, Tick
  <2>5. \A d \in dogs[m] : Tick(Clock(na, d), timeDelta) <= Clock(ig', d) + Slack
    BY <2>2, <2>3, ClockFacts DEF PlayTimeCoversIdleTime, Tick
  <2> QED BY <2>1, <2>4, <2>5 DEF PlayTimeCoversIdleTime
<1>3. ASSUME UpdateActivity PROVE PlayTimeCoversIdleTime'
  <2> DEFINE here == UNION {dogs[m] : m \in session}
  <2>1. PICK alike \in SUBSET (here \ dogPos) :
          LET idle == {d \in here : IsIdle(d, (dogPos \ moved) \cup alike)}
          IN  not_active_dogs' = Advance(Without(na, here \ idle), idle, timeDelta)
    BY <1>3 DEF UpdateActivity
  <2> DEFINE idle == {d \in here : IsIdle(d, (dogPos \ moved) \cup alike)}
             kept == Without(na, here \ idle)
  <2>2. /\ update = "activity" /\ update' = "sessions"
        /\ UNCHANGED <<ig, dog_id_to_delete>> /\ dog_id_to_delete = {}
        /\ not_active_dogs' = Advance(kept, idle, timeDelta)
    BY <1>3, <2>1 DEF UpdateActivity, TimersFollowDogs, apiVars
  <2>3. /\ kept \in Timers /\ timeDelta \in Nat
        /\ idle \in SUBSET DogId /\ idle \subseteq here
    BY WithoutTimers DEF TypeOK
  <2>4. \A e \in DogId : Clock(na', e) = IF e \in idle THEN Tick(Clock(kept, e), timeDelta)
                                             ELSE Clock(kept, e)
    <3> HIDE DEF kept, idle
    <3> QED BY <2>2, <2>3, ClockAdvance
  <2>5. \A e \in DogId : Clock(kept, e) = IF e \in here \ idle THEN 0 ELSE Clock(na, e)
    BY ClockWithout
  <2>6. \A d \in here : IF d \in dogPos
                        THEN Tick(Clock(na, d), timeDelta) <= Clock(ig, d) + Slack
                        ELSE ~TestingMode /\ Clock(na, d) = 0
    BY <2>2 DEF PlayTimeCoversIdleTime
  <2> HIDE DEF here, idle, kept
  <2>7. \A d \in DogId : Clock(na', d) <= Clock(ig, d) + Slack
    <3> SUFFICES ASSUME NEW d \in DogId PROVE Clock(na', d) <= Clock(ig, d) + Slack
      OBVIOUS
    <3>1. CASE d \in idle /\ d \in dogPos
      BY <2>3, <2>4, <2>5, <2>6, <3>1
    <3>2. CASE d \in idle /\ d \notin dogPos
      <4>1. Clock(na', d) = Tick(0, timeDelta) /\ ~TestingMode
        BY <2>3, <2>4, <2>5, <2>6, <3>2
      <4> QED BY <4>1, ClockFacts DEF Tick
    <3>3. CASE d \notin idle
      BY <2>4, <2>5, <3>3, ClockFacts DEF PlayTimeCoversIdleTime
    <3> QED BY <3>1, <3>2, <3>3
  <2> QED BY <2>2, <2>7 DEF PlayTimeCoversIdleTime
<1>4. ASSUME SelectRetired PROVE PlayTimeCoversIdleTime'
  BY <1>4 DEF SelectRetired, IsOverdue, PlayTimeCoversIdleTime, Clock, timerVars
<1>5. ASSUME NEW d \in DogId, SaveRecord(d) PROVE PlayTimeCoversIdleTime'
  <2>1. /\ UNCHANGED na /\ dog_id_to_delete' \subseteq dog_id_to_delete
        /\ update' \notin {"position", "activity"}
    BY <1>5 DEF SaveRecord, LeaveByException
  <2>2. \A e \in DogId : Clock(ig', e) = Clock(ig, e)
    <3>1. ig' = ig \/ ig' = Advance(ig, {d}, 0)
      BY <1>5 DEF SaveRecord
    <3>2. ig \in Timers
      BY DEF TypeOK
    <3> QED BY <3>1, <3>2, ClockTouch
  <2> QED BY <2>1, <2>2 DEF PlayTimeCoversIdleTime
<1>6. ASSUME NEW d \in DogId, SaveRecordThrows(d) PROVE PlayTimeCoversIdleTime'
  <2>1. UNCHANGED na /\ dog_id_to_delete' = {} /\ update' \notin {"position", "activity"}
    BY <1>6 DEF SaveRecordThrows, LeaveByException
  <2>2. \A e \in DogId : Clock(ig', e) = Clock(ig, e)
    BY <1>6, ClockTouch DEF SaveRecordThrows, TypeOK
  <2> QED BY <2>1, <2>2 DEF PlayTimeCoversIdleTime
<1>7. ASSUME EraseTimers PROVE PlayTimeCoversIdleTime'
  <2>1. /\ not_active_dogs' = Without(na, {dog_id})
        /\ dog_in_game_time' = Without(ig, {dog_id})
        /\ dog_id_to_delete' = dog_id_to_delete \ {dog_id} /\ update' = "retire"
    BY <1>7 DEF EraseTimers
  <2>2. \A e \in DogId : /\ Clock(na', e) = IF e \in {dog_id} THEN 0 ELSE Clock(na, e)
               /\ Clock(ig', e) = IF e \in {dog_id} THEN 0 ELSE Clock(ig, e)
    BY <2>1, ClockWithout
  <2>3. Slack \in Nat /\ dog_id_to_delete \in SUBSET DogId
    BY ClockFacts DEF TypeOK
  <2> QED BY <2>1, <2>2, <2>3 DEF PlayTimeCoversIdleTime
<1>8. ASSUME UNCHANGED <<na, ig, dog_id_to_delete>>,
             \/ update' \notin {"position", "activity"}
             \/ /\ update \in {"position", "activity"}
                /\ UNCHANGED <<session, dogs, dogPos, timeDelta>>
      PROVE  PlayTimeCoversIdleTime'
  BY <1>8 DEF PlayTimeCoversIdleTime
<1>9. \/ \E m \in Maps : AddDogToSession(m)
      \/ \E m \in Maps : CountGameTime(m)
      \/ UpdateActivity
      \/ SelectRetired
      \/ \E d \in DogId : SaveRecord(d)
      \/ \E d \in DogId : SaveRecordThrows(d)
      \/ EraseTimers
      \/ /\ UNCHANGED <<na, ig, dog_id_to_delete>>
         /\ \/ update' \notin {"position", "activity"}
            \/ /\ update \in {"position", "activity"}
               /\ UNCHANGED <<session, dogs, dogPos, timeDelta>>
  BY DEF Next, Request, UpdateStep, vars, apiVars, timerVars, updateVars, PushPlayer,
         DoAction, StartUpdate, UpdatePositionAndBag, RemoveFirstPlayer,
         NoPlayerToRemove, Spin, FinishUpdate, DataRace
<1> QED BY <1>1, <1>2, <1>3, <1>4, <1>5, <1>6, <1>7, <1>8, <1>9

-----------------------------------------------------------------------------
(* The inductive invariant and the theorems.                               *)

\* The inductive invariant: types, ids, registry, timers and play times together.
IInv ==
    /\ TypeOK
    /\ DogIdsUnique
    /\ RegistryInJoinOrder
    /\ TimersFollowDogs
    /\ PlayTimeCoversIdleTime

\* Every step keeps it.
LEMMA IInvInductive == IInv /\ [Next]_vars => IInv'
BY NextType, DogIdsStep, RegistryStep, TimersStep, PlayTimeStep DEF IInv

\* The conjunction of the parts is an invariant of the specification.
THEOREM InvariantHolds == Spec => []IInv
<1>1. Init => IInv BY InitType, InitInvariant DEF IInv
<1> QED BY <1>1, IInvInductive, PTL DEF Spec

\* The dog Update retires is always a dog of some session, so the logic_error of
\* Game::Update is never thrown.
THEOREM RetiredDogIsRealHolds == Spec => []RetiredDogIsReal
<1>1. IInv => RetiredDogIsReal
  BY DEF IInv, TimersFollowDogs, RetiredDogIsReal
<1> QED BY <1>1, InvariantHolds, PTL

\* Players and the dogs of the sessions correspond one to one.
THEOREM PlayersOwnTheirDogsHolds == Spec => []PlayersOwnTheirDogs
<1>1. IInv => PlayersOwnTheirDogs
  <2> SUFFICES ASSUME IInv PROVE PlayersOwnTheirDogs OBVIOUS
  <2>1. \A i, j \in DOMAIN players : players[i].dog = players[j].dog => i = j
    <3> SUFFICES ASSUME NEW i \in DOMAIN players, NEW j \in DOMAIN players,
                        players[i].dog = players[j].dog, i # j
                 PROVE  FALSE
      OBVIOUS
    <3>1. players \in Seq(Player) BY DEF IInv, TypeOK
    <3>2. i \in Nat /\ j \in Nat /\ players[i] \in Player BY <3>1
    <3>3. players[i].dog \in Nat BY <3>2 DEF Player, DogId
    <3>4. i < j \/ j < i BY <3>2
    <3> QED BY <3>3, <3>4 DEF IInv, RegistryInJoinOrder
  <2> QED BY <2>1 DEF IInv, RegistryInJoinOrder, PlayersOwnTheirDogs
<1> QED BY <1>1, InvariantHolds, PTL

\* Which steps write a row or change who is live.
LEMMA LiveAndRows ==
    ASSUME IInv, [Next]_vars
    PROVE  /\ \A m \in Maps : AddDogToSession(m) =>
                /\ \A d : d \in LiveDogs' <=> d \in LiveDogs \/ d = dog_counter
                /\ retired_players' = retired_players
           /\ \A d \in DogId : SaveRecord(d) \/ SaveRecordThrows(d) =>
                /\ d \in LiveDogs /\ d \in dog_id_to_delete
                /\ LiveDogs' = LiveDogs
                /\ \/ retired_players' = WithRecord(d)
                   \/ retired_players' = retired_players
           /\ RemoveFirstPlayer =>
                /\ \A d : d \in LiveDogs' <=> d \in LiveDogs /\ d # dog_id
                /\ retired_players' = retired_players
           /\ UNCHANGED <<dogs, retired_players>> => LiveDogs' = LiveDogs
           /\ \/ \E m \in Maps : AddDogToSession(m)
              \/ \E d \in DogId : SaveRecord(d) \/ SaveRecordThrows(d)
              \/ RemoveFirstPlayer
              \/ UNCHANGED <<dogs, retired_players>>
<1>1. ASSUME NEW m \in Maps, AddDogToSession(m)
      PROVE  /\ \A d : d \in LiveDogs' <=> d \in LiveDogs \/ d = dog_counter
             /\ retired_players' = retired_players
  BY <1>1 DEF AddDogToSession, NewDogId, LiveDogs, IInv, TypeOK
<1>2. ASSUME NEW d \in DogId, SaveRecord(d) \/ SaveRecordThrows(d)
      PROVE  /\ d \in LiveDogs /\ d \in dog_id_to_delete
             /\ LiveDogs' = LiveDogs
             /\ \/ retired_players' = WithRecord(d)
                \/ retired_players' = retired_players
  BY <1>2 DEF SaveRecord, LeaveByException, SaveRecordThrows, IsNext, apiVars, LiveDogs, IInv,
              TimersFollowDogs
<1>3. ASSUME RemoveFirstPlayer
      PROVE  /\ \A d : d \in LiveDogs' <=> d \in LiveDogs /\ d # dog_id
             /\ retired_players' = retired_players
  <2> DEFINE first == Head(players)
  <2>1. first \in Player /\ first.dog = dog_id /\ first.dog \in dogs[first.session]
    <3>1. players \in Seq(Player) /\ players # <<>> /\ first.dog = dog_id
      BY <1>3 DEF RemoveFirstPlayer, IInv, TypeOK
    <3>2. first = players[1] /\ 1 \in DOMAIN players /\ first \in Player
      BY <3>1
    <3> QED BY <3>1, <3>2 DEF IInv, RegistryInJoinOrder
  <2>2. first.session \in Maps /\ \A m \in Maps : dog_id \in dogs[m] => m = first.session
    BY <2>1 DEF Player, IInv, DogIdsUnique
  <2>3. \A m \in Maps : \A d :
          d \in dogs'[m] <=> d \in dogs[m] /\ ~(m = first.session /\ d = dog_id)
    BY <1>3, <2>2 DEF RemoveFirstPlayer, IInv, TypeOK
  <2> HIDE DEF first
  <2>4. \A d : d \in LiveDogs' <=> d \in LiveDogs /\ d # dog_id
    BY <2>2, <2>3 DEF LiveDogs
  <2> QED BY <1>3, <2>4 DEF RemoveFirstPlayer
<1>4. ASSUME UNCHANGED <<dogs, retired_players>> PROVE LiveDogs' = LiveDogs
  BY <1>4 DEF LiveDogs
<1>5. \/ \E m \in Maps : AddDogToSession(m)
      \/ \E d \in DogId : SaveRecord(d) \/ SaveRecordThrows(d)
      \/ RemoveFirstPlayer
      \/ UNCHANGED <<dogs, retired_players>>
  BY DEF Next, Request, UpdateStep, vars, apiVars, PushPlayer, DoAction, StartUpdate,
         CountGameTime, UpdatePositionAndBag, UpdateActivity, SelectRetired,
         NoPlayerToRemove, Spin, EraseTimers, FinishUpdate, DataRace
<1> QED BY <1>1, <1>2, <1>3, <1>4, <1>5

\* A dog that has left stays away, and its row is never written again.
THEOREM RowsAreFinalHolds == Spec => RowsAreFinal
<1>1. ASSUME IInv, [Next]_vars, NEW d \in DOMAIN retired_players, d \notin LiveDogs
      PROVE  /\ d \notin LiveDogs'
             /\ d \in DOMAIN retired_players'
             /\ retired_players'[d] = retired_players[d]
  <2>1. d < dog_counter /\ dog_counter \in Nat
    BY <1>1 DEF IInv, TypeOK, DogIdsUnique
  <2>2. CASE \E m \in Maps : AddDogToSession(m)
    BY <1>1, <2>1, <2>2, LiveAndRows
  <2>3. CASE \E e \in DogId : SaveRecord(e) \/ SaveRecordThrows(e)
    <3>1. PICK e \in LiveDogs : \/ retired_players' = WithRecord(e)
                                \/ retired_players' = retired_players
      BY <1>1, <2>3, LiveAndRows
    <3>2. LiveDogs' = LiveDogs
      BY <1>1, <2>3, LiveAndRows
    <3> QED BY <1>1, <3>1, <3>2 DEF WithRecord
  <2>4. CASE RemoveFirstPlayer
    BY <1>1, <2>4, LiveAndRows
  <2>5. CASE UNCHANGED <<dogs, retired_players>>
    BY <1>1, <2>5, LiveAndRows
  <2> QED BY <1>1, <2>2, <2>3, <2>4, <2>5, LiveAndRows
<1>2. IInv /\ [Next]_vars =>
        [\A d \in DOMAIN retired_players :
            d \notin LiveDogs =>
               /\ d \notin LiveDogs'
               /\ d \in DOMAIN retired_players'
               /\ retired_players'[d] = retired_players[d]]_vars
  BY <1>1
<1> QED BY <1>2, InvariantHolds, PTL DEF Spec, RowsAreFinal

\* Every row of the leaderboard covers the retirement time.
THEOREM RowsCoverRetirementTimeHolds == Spec => []RowsCoverRetirementTime
<1>1. Init => RowsCoverRetirementTime
  BY DEF Init, NoTimers, RowsCoverRetirementTime
<1>2. IInv /\ RowsCoverRetirementTime /\ [Next]_vars => RowsCoverRetirementTime'
  <2> SUFFICES ASSUME IInv, RowsCoverRetirementTime, [Next]_vars,
                      NEW e \in DOMAIN retired_players'
               PROVE  retired_players'[e] + Slack >= DogRetirementTime
    BY DEF RowsCoverRetirementTime, Slack
  <2>1. CASE retired_players' = retired_players
    BY <2>1 DEF RowsCoverRetirementTime
  <2>2. ASSUME NEW d \in DogId, d \in dog_id_to_delete, retired_players' = WithRecord(d)
        PROVE  retired_players'[e] + Slack >= DogRetirementTime
    <3>1. Clock(dog_in_game_time, d) + Slack >= DogRetirementTime
      BY <2>2, ClockFacts DEF IInv, PlayTimeCoversIdleTime
    <3> QED BY <2>2, <3>1 DEF WithRecord, RowsCoverRetirementTime
  <2> QED BY <2>1, <2>2, LiveAndRows
<1> QED BY <1>1, <1>2, InvariantHolds, PTL DEF Spec

\* Where requests and updates do not overlap and the database works, a dog with a
\* row is out of the game.
THEOREM RetiredDogsAreGoneHolds == Spec => []RetiredDogsAreGone
<1>1. Init => RetiredDogsAreGone
  BY DEF Init, NoTimers, RetiredDogsAreGone
<1>2. IInv /\ RetiredDogsAreGone /\ [Next]_vars => RetiredDogsAreGone'
  <2> SUFFICES ASSUME IInv, RetiredDogsAreGone, [Next]_vars,
                      TestingMode, ~DatabaseFails,
                      NEW d \in DOMAIN retired_players', d \in LiveDogs'
               PROVE  d = dog_id' /\ update' \in {"remove", "spin"}
    BY DEF RetiredDogsAreGone
  <2>1. ASSUME NEW m \in Maps, AddDogToSession(m) PROVE FALSE
    <3>1. update = "idle" /\ retired_players' = retired_players
      BY <2>1 DEF AddDogToSession, ApiRuns
    <3>2. d # dog_counter
      BY <3>1 DEF IInv, DogIdsUnique, TypeOK
    <3> QED BY <2>1, <3>1, <3>2, LiveAndRows DEF RetiredDogsAreGone
  <2>2. ASSUME NEW e \in DogId, SaveRecord(e)
        PROVE  d = dog_id' /\ update' \in {"remove", "spin"}
    <3>0. e \in LiveDogs /\ LiveDogs' = LiveDogs BY <2>2, LiveAndRows
    <3>1. update = "retire" /\ update' = "remove" /\ dog_id' = e
          /\ retired_players' = WithRecord(e)
      BY <2>2, <3>0 DEF SaveRecord
    <3>2. d \in (DOMAIN retired_players) \cup {e} BY <3>1 DEF WithRecord
    <3> QED BY <3>0, <3>1, <3>2 DEF RetiredDogsAreGone
  <2>3. ASSUME RemoveFirstPlayer PROVE FALSE
    BY <2>3, LiveAndRows DEF RemoveFirstPlayer, RetiredDogsAreGone
  <2>4. ASSUME NoPlayerToRemove PROVE FALSE
    <3>1. joining = {} /\ DOMAIN players = {}
      BY <2>4 DEF NoPlayerToRemove, IInv, RegistryInJoinOrder
    <3>2. \A m \in Maps : dogs[m] = {}
      BY <3>1 DEF IInv, RegistryInJoinOrder
    <3>3. dogs' = dogs BY <2>4 DEF NoPlayerToRemove, apiVars
    <3> QED BY <3>2, <3>3 DEF LiveDogs
  <2>5. ASSUME UNCHANGED <<dogs, retired_players>>,
               \/ update \notin {"remove", "spin"}
               \/ dog_id' = dog_id /\ update' \in {"remove", "spin"}
        PROVE  d = dog_id' /\ update' \in {"remove", "spin"}
    BY <2>5 DEF RetiredDogsAreGone, LiveDogs
  <2>6. \/ \E m \in Maps : AddDogToSession(m)
        \/ \E e \in DogId : SaveRecord(e)
        \/ RemoveFirstPlayer
        \/ NoPlayerToRemove
        \/ /\ UNCHANGED <<dogs, retired_players>>
           /\ \/ update \notin {"remove", "spin"}
              \/ dog_id' = dog_id /\ update' \in {"remove", "spin"}
    BY DEF Next, Request, UpdateStep, vars, apiVars, updateVars, PushPlayer, DoAction,
           StartUpdate, CountGameTime, UpdatePositionAndBag, UpdateActivity,
           SelectRetired, SaveRecordThrows, Spin, EraseTimers, FinishUpdate, DataRace,
           ApiRuns
  <2> QED BY <2>1, <2>2, <2>3, <2>4, <2>5, <2>6
<1> QED BY <1>1, <1>2, InvariantHolds, PTL DEF Spec
=============================================================================
