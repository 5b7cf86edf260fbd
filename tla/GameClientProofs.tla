-------------------------- MODULE GameClientProofs --------------------------
(***************************************************************************)
(* The page of the game for any number of players, keys, loot and answers, *)
(* in any order: types, the data that the two tables of the page share,    *)
(* the way of the last key, objects that are in one place, and the scene   *)
(* that shows what the tables hold.                                        *)
(***************************************************************************)
EXTENDS GameClient, SequenceTheorems, TLAPS

-----------------------------------------------------------------------------
(* One data for a player.                                                  *)

\* Two tables agree on the players that both name.
Agree(table, other) ==
    \A p \in DOMAIN table \cap DOMAIN other : other[p] = table[p]

\* A list takes over the data of a player, from either table.
LEMMA ListAgrees ==
    ASSUME TablesShareBags, NEW snapshot
    PROVE  Agree(current, Listed(snapshot))
BY DEF TablesShareBags, Agree, Listed

\* A state that is applied gives new players one new data, in both tables.
LEMMA StateAgrees ==
    ASSUME NEW snapshot, NEW listed, NEW shownScene,
           Agree(current, listed),
           ApplyDesiredState(snapshot, listed, shownScene)
    PROVE  TablesShareBags'
<1> DEFINE newData == NewNames(snapshot.inGame \ DOMAIN current, Refs,
                               (Range(current) \cup Range(listed)) \ {NoData})
<1>1. current' = [p \in snapshot.inGame |->
                    IF p \in DOMAIN current THEN current[p] ELSE newData[p]]
    BY DEF ApplyDesiredState
<1>2. players' = [p \in DOMAIN listed |->
                    IF p \in snapshot.inGame \ DOMAIN current
                    THEN newData[p] ELSE listed[p]]
    BY DEF ApplyDesiredState
<1> HIDE DEF newData
<1> QED BY <1>1, <1>2 DEF TablesShareBags, Agree

\* No step lets the tables disagree.
LEMMA StepSharesBags ==
    ASSUME TablesShareBags, [Next]_vars
    PROVE  TablesShareBags'
<1> DEFINE Same == UNCHANGED <<current, players>>
<1>1. ASSUME Same PROVE TablesShareBags'
    BY <1>1 DEF TablesShareBags
<1>2. CASE Server
    <2>1. ASSUME NEW p \in Players, Join(p) \/ Retire(p) PROVE Same
        BY <2>1 DEF Join, Retire, UnchangedPage, drawn
    <2>2. ASSUME NEW l \in Loots, MoveLoot(l) PROVE Same
        BY <2>2 DEF MoveLoot, UnchangedPage, drawn
    <2>3. ASSUME NEW kind \in Kinds, Serve(kind) PROVE Same
        BY <2>3 DEF Serve, UnchangedPage, drawn
    <2>4. ASSUME NEW i \in DOMAIN actions, ServeAction(i) PROVE Same
        BY <2>4 DEF ServeAction, UnchangedPage, drawn
    <2> QED BY <1>1, <1>2, <2>1, <2>2, <2>3, <2>4 DEF Server
<1>3. CASE Network
    <2>1. ASSUME NEW kind \in Kinds, NEW i \in DOMAIN answers[kind], AnswerFails(kind, i)
          PROVE  Same
        BY <2>1 DEF AnswerFails, UnchangedPage, drawn
    <2>2. ASSUME NEW i \in DOMAIN actions, ActionFails(i) PROVE Same
        BY <2>2 DEF ActionFails, UnchangedPage, drawn
    <2> QED BY <1>1, <1>3, <2>1, <2>2 DEF Network
<1>4. CASE Browser
    <2>1. CASE LoadActor \/ LoadLootType \/ NewGameState
        BY <1>1, <2>1 DEF LoadActor, LoadLootType, NewGameState, drawn
    <2>2. CASE Tick
        BY <1>1, <2>2 DEF Tick
    <2>3. ASSUME NEW key \in Keys, KeyDown(key) \/ KeyUp(key) PROVE Same
        BY <2>3 DEF KeyDown, KeyUp, PressKey, drawn
    <2>4. CASE ActionDone
        BY <1>1, <2>4 DEF ActionDone, drawn
    <2>5. ASSUME NEW kind, NEW i, Refused(kind, i) PROVE Same
        BY <2>5 DEF Refused, drawn
    <2>6. ASSUME NEW i, StateArrives(i) PROVE TablesShareBags'
        <3>1. CASE started'
            BY <2>6, <3>1, StateAgrees DEF StateArrives, TablesShareBags, Agree
        <3>2. CASE ~started'
            BY <1>1, <2>6, <3>2 DEF StateArrives, drawn
        <3> QED BY <3>1, <3>2
    <2>7. ASSUME NEW i, PlayersArrive(i) PROVE TablesShareBags'
        <3> DEFINE listed == Listed(answers["players"][i].told)
                   shownScene == SceneAfterList(answers["players"][i].told)
        <3>1. Agree(current, listed)
            BY ListAgrees
        <3>2. CASE ApplyDesiredState(desired, listed, shownScene)
            BY <3>1, <3>2, StateAgrees
        <3>3. CASE KeepDesiredState(listed, shownScene)
            BY <3>1, <3>3 DEF KeepDesiredState, TablesShareBags, Agree
        <3> QED BY <2>7, <3>2, <3>3 DEF PlayersArrive
    <2> QED BY <1>1, <1>4, <2>1, <2>2, <2>3, <2>4, <2>5, <2>6, <2>7 DEF Browser
<1>5. CASE UNCHANGED vars
    BY <1>1, <1>5 DEF vars, drawn
<1> QED BY <1>2, <1>3, <1>4, <1>5 DEF Next

\* Whatever the order in which answers arrive, and whichever are lost, _updatePlayersList
\* and _applyDesiredState never leave a player with two data.
THEOREM TablesShareBagsHolds == Spec => []TablesShareBags
<1>1. Init => TablesShareBags
    BY DEF Init, TablesShareBags, Empty
<1> QED BY <1>1, StepSharesBags, PTL DEF Spec

-----------------------------------------------------------------------------
(* The way of the last key.                                                *)

\* A sequence of actions that are late or not; what they ask for is left open.
Queue(q) == \E M : q \in Seq([move : M, late : BOOLEAN])

\* The last action tells the key that is down last, unless it is late: then all that are
\* left are, and the server has done what it asked for.
LastActionCounts ==
    LET n == Len(actions) IN
    IF n > 0 /\ ~actions[n].late
    THEN actions[n].move = GetLastKey(pressedKeys)
    ELSE /\ \A i \in 1 .. n : actions[i].late
         /\ \/ dir = GetLastKey(pressedKeys)
            \/ dir = "spawn" /\ pressedKeys = <<>>

InOrder == ~actionOvertaken /\ failures = 0

KeysInv ==
    /\ bounds \in Scenarios
    /\ life \in [Players -> {"new", "in", "left"}] /\ life[Me] # "new"
    /\ failures \in Nat
    /\ Queue(actions)
    /\ InOrder /\ life[Me] = "in" => LastActionCounts

\* A function on 1 .. n is a sequence of length n.
LEMMA FunctionIsSequence ==
    ASSUME NEW S, NEW n \in Nat, NEW f, f = [k \in 1 .. n |-> f[k]],
           \A k \in 1 .. n : f[k] \in S
    PROVE  f \in Seq(S) /\ Len(f) = n
OBVIOUS

\* What is left of a queue without its i-th member, when that is lost ...
LEMMA RemoveAtProperties ==
    ASSUME NEW R, NEW q \in Seq(R), NEW i \in 1 .. Len(q)
    PROVE  /\ RemoveAt(q, i) \in Seq(R)
           /\ Len(RemoveAt(q, i)) = Len(q) - 1
           /\ \A k \in 1 .. Len(q) - 1 :
                RemoveAt(q, i)[k] = IF k < i THEN q[k] ELSE q[k + 1]
<1> DEFINE before == SubSeq(q, 1, i - 1)
           after == SubSeq(q, i + 1, Len(q))
<1>1. Len(q) \in Nat /\ i \in Nat /\ \A k \in 1 .. Len(q) : q[k] \in R
    BY LenProperties, ElementOfSeq
<1>2. /\ before \in Seq(R) /\ Len(before) = i - 1
      /\ \A k \in 1 .. i - 1 : before[k] = q[k]
    <2>1. /\ before \in Seq(R)
          /\ Len(before) = IF 1 <= i - 1 THEN i - 1 - 1 + 1 ELSE 0
          /\ \A k \in 1 .. i - 1 - 1 + 1 : before[k] = q[1 + k - 1]
        BY <1>1, SubSeqProperties
    <2> QED BY <1>1, <2>1
<1>3. /\ after \in Seq(R) /\ Len(after) = Len(q) - i
      /\ \A k \in 1 .. Len(q) - i : after[k] = q[k + i]
    <2>1. \A k \in i + 1 .. Len(q) : q[k] \in R
        BY <1>1
    <2>2. /\ after \in Seq(R)
          /\ Len(after) = IF i + 1 <= Len(q) THEN Len(q) - (i + 1) + 1 ELSE 0
          /\ \A k \in 1 .. Len(q) - (i + 1) + 1 : after[k] = q[i + 1 + k - 1]
        BY <1>1, <2>1, SubSeqProperties
    <2> QED BY <1>1, <2>2
<1> HIDE DEF before, after
<1>4. RemoveAt(q, i) = before \o after
    BY DEF RemoveAt, before, after
<1>5. /\ RemoveAt(q, i) \in Seq(R)
      /\ Len(RemoveAt(q, i)) = (i - 1) + (Len(q) - i)
      /\ \A k \in 1 .. (i - 1) + (Len(q) - i) :
            RemoveAt(q, i)[k] = IF k <= i - 1 THEN before[k] ELSE after[k - (i - 1)]
    <2>1. /\ before \o after \in Seq(R)
          /\ Len(before \o after) = Len(before) + Len(after)
          /\ \A k \in 1 .. Len(before) + Len(after) :
                (before \o after)[k] =
                    IF k <= Len(before) THEN before[k] ELSE after[k - Len(before)]
        BY <1>2, <1>3, ConcatProperties
    <2> QED BY <1>2, <1>3, <1>4, <2>1
<1>6. ASSUME NEW k \in 1 .. Len(q) - 1
      PROVE  RemoveAt(q, i)[k] = IF k < i THEN q[k] ELSE q[k + 1]
    <2> DEFINE shorter == RemoveAt(q, i)
    <2>1. /\ Len(q) \in Nat /\ i \in Nat /\ i <= Len(q) /\ k \in Nat /\ 1 <= k
          /\ k \in 1 .. (i - 1) + (Len(q) - i)
        BY <1>1
    <2>2. shorter[k] = IF k <= i - 1 THEN before[k] ELSE after[k - (i - 1)]
        <3> HIDE DEF shorter
        <3> QED BY <1>5, <2>1, Zenon DEF shorter
    <2> HIDE DEF shorter
    <2>3. CASE k < i
        <3>1. k <= i - 1 /\ k \in 1 .. i - 1
            BY <2>1, <2>3
        <3>2. before[k] = q[k]
            BY <1>2, <3>1
        <3> QED BY <2>2, <2>3, <3>1, <3>2 DEF shorter
    <2>4. CASE ~(k < i)
        <3>1. ~(k <= i - 1) /\ k - (i - 1) \in 1 .. Len(q) - i /\ k - (i - 1) + i = k + 1
            BY <2>1, <2>4
        <3>2. after[k - (i - 1)] = q[k + 1]
            BY <1>3, <3>1
        <3> QED BY <2>2, <2>4, <3>1, <3>2 DEF shorter
    <2> QED BY <2>3, <2>4
<1> QED BY <1>1, <1>5, <1>6

\* ... and when it is taken.
LEMMA WithoutProperties ==
    ASSUME NEW R, \A x \in R : [x EXCEPT !.late = TRUE] \in R,
           NEW q \in Seq(R), NEW i \in 1 .. Len(q)
    PROVE  /\ Without(q, i) \in Seq(R)
           /\ Len(Without(q, i)) = Len(q) - 1
           /\ \A k \in 1 .. Len(q) - 1 :
                Without(q, i)[k] = IF k < i THEN [q[k] EXCEPT !.late = TRUE] ELSE q[k + 1]
<1> DEFINE before == SubSeq(q, 1, i - 1)
           after == SubSeq(q, i + 1, Len(q))
<1>1. Len(q) \in Nat /\ i \in Nat /\ \A k \in 1 .. Len(q) : q[k] \in R
    BY LenProperties, ElementOfSeq
<1>2. /\ before \in Seq(R) /\ Len(before) = i - 1
      /\ \A k \in 1 .. i - 1 : before[k] = q[k]
    <2>1. /\ before \in Seq(R)
          /\ Len(before) = IF 1 <= i - 1 THEN i - 1 - 1 + 1 ELSE 0
          /\ \A k \in 1 .. i - 1 - 1 + 1 : before[k] = q[1 + k - 1]
        BY <1>1, SubSeqProperties
    <2> QED BY <1>1, <2>1
<1>3. /\ after \in Seq(R) /\ Len(after) = Len(q) - i
      /\ \A k \in 1 .. Len(q) - i : after[k] = q[k + i]
    <2>1. \A k \in i + 1 .. Len(q) : q[k] \in R
        BY <1>1
    <2>2. /\ after \in Seq(R)
          /\ Len(after) = IF i + 1 <= Len(q) THEN Len(q) - (i + 1) + 1 ELSE 0
          /\ \A k \in 1 .. Len(q) - (i + 1) + 1 : after[k] = q[i + 1 + k - 1]
        BY <1>1, <2>1, SubSeqProperties
    <2> QED BY <1>1, <2>2
<1>4. /\ Overtaken(before) \in Seq(R) /\ Len(Overtaken(before)) = i - 1
      /\ \A k \in 1 .. i - 1 : Overtaken(before)[k] = [q[k] EXCEPT !.late = TRUE]
    <2>1. DOMAIN before = 1 .. i - 1 /\ \A k \in 1 .. i - 1 : before[k] \in R
        BY <1>1, <1>2, LenProperties, ElementOfSeq
    <2>2. Overtaken(before) = [k \in 1 .. i - 1 |-> [before[k] EXCEPT !.late = TRUE]]
        BY <2>1 DEF Overtaken
    <2>3. /\ Overtaken(before) = [k \in 1 .. i - 1 |-> Overtaken(before)[k]]
          /\ \A k \in 1 .. i - 1 : Overtaken(before)[k] = [before[k] EXCEPT !.late = TRUE]
          /\ \A k \in 1 .. i - 1 : Overtaken(before)[k] \in R
        BY <2>1, <2>2
    <2>4. i - 1 \in Nat
        BY <1>1
    <2> HIDE DEF before
    <2> QED BY <1>2, <2>3, <2>4, FunctionIsSequence
<1> HIDE DEF before, after
<1>5. Without(q, i) = Overtaken(before) \o after
    BY DEF Without, before, after
<1>6. /\ Without(q, i) \in Seq(R)
      /\ Len(Without(q, i)) = (i - 1) + (Len(q) - i)
      /\ \A k \in 1 .. (i - 1) + (Len(q) - i) :
            Without(q, i)[k] = IF k <= i - 1 THEN Overtaken(before)[k] ELSE after[k - (i - 1)]
    BY <1>3, <1>4, <1>5, ConcatProperties
<1>7. ASSUME NEW k \in 1 .. Len(q) - 1
      PROVE  Without(q, i)[k] = IF k < i THEN [q[k] EXCEPT !.late = TRUE] ELSE q[k + 1]
    <2>1. CASE k < i
        <3>1. k \in 1 .. i - 1 /\ k \in 1 .. (i - 1) + (Len(q) - i) /\ k <= i - 1
            BY <1>1, <2>1
        <3>2. Without(q, i)[k] = Overtaken(before)[k]
            BY <1>6, <3>1
        <3>3. Without(q, i)[k] = [q[k] EXCEPT !.late = TRUE]
            BY <1>4, <3>1, <3>2, Zenon
        <3> QED BY <2>1, <3>3, Zenon
    <2>2. CASE k >= i
        <3>1. Without(q, i)[k] = after[k - (i - 1)]
            BY <1>1, <1>6, <2>2
        <3>2. k - (i - 1) \in 1 .. Len(q) - i /\ k - (i - 1) + i = k + 1
            BY <1>1, <2>2
        <3>3. Without(q, i)[k] = q[k + 1]
            BY <1>3, <3>1, <3>2
        <3>4. ~(k < i)
            BY <1>1, <2>2
        <3> QED BY <3>3, <3>4
    <2>3. k < i \/ k >= i
        BY <1>1
    <2> QED BY <2>1, <2>2, <2>3, Zenon
<1> QED BY <1>1, <1>6, <1>7

\* Only a player's own actions move its dog, and failures only grow.
LEMMA ServerKeepsKeys ==
    ASSUME KeysInv, NEW i \in DOMAIN actions, ServeAction(i)
    PROVE  KeysInv'
<1>1. PICK M : actions \in Seq([move : M, late : BOOLEAN])
    BY DEF KeysInv, Queue
<1>2. i \in 1 .. Len(actions) /\ Len(actions) \in Nat
    BY <1>1, LenProperties
<1>3. /\ actions' \in Seq([move : M, late : BOOLEAN])
      /\ Len(actions') = Len(actions) - 1
      /\ \A k \in 1 .. Len(actions) - 1 : k < i => actions'[k].late
      /\ \A k \in 1 .. Len(actions) - 1 : k >= i => actions'[k] = actions[k + 1]
    <2> DEFINE R == [move : M, late : BOOLEAN]
    <2>1. \A x \in R : [x EXCEPT !.late = TRUE] \in R /\ [x EXCEPT !.late = TRUE].late
        OBVIOUS
    <2>2. \A k \in 1 .. Len(actions) : actions[k] \in R
        <3> HIDE DEF R
        <3>1. actions \in Seq(R)
            BY <1>1 DEF R
        <3> QED BY <3>1, ElementOfSeq
    <2> HIDE DEF R
    <2>3. /\ actions' \in Seq(R)
          /\ Len(actions') = Len(actions) - 1
          /\ \A k \in 1 .. Len(actions) - 1 : actions'[k] =
                IF k < i THEN [actions[k] EXCEPT !.late = TRUE] ELSE actions[k + 1]
        <3>1. actions \in Seq(R) /\ actions' = Without(actions, i)
            BY <1>1 DEF R, ServeAction
        <3> QED BY <1>2, <2>1, <3>1, WithoutProperties
    <2>4. \A k \in 1 .. Len(actions) - 1 : k < i => actions'[k].late
        <3> SUFFICES ASSUME NEW k \in 1 .. Len(actions) - 1, k < i PROVE actions'[k].late
            OBVIOUS
        <3>1. actions'[k] = [actions[k] EXCEPT !.late = TRUE]
            BY <2>3
        <3>2. actions[k] \in R
            BY <1>2, <2>2
        <3> QED BY <2>1, <3>1, <3>2
    <2>5. \A k \in 1 .. Len(actions) - 1 : k >= i => actions'[k] = actions[k + 1]
        <3> SUFFICES ASSUME NEW k \in 1 .. Len(actions) - 1, k >= i
                     PROVE  actions'[k] = actions[k + 1]
            OBVIOUS
        <3>1. ~(k < i)
            BY <1>2
        <3> QED BY <2>3, <3>1
    <2> QED BY <2>3, <2>4, <2>5 DEF R
<1>4. UNCHANGED <<bounds, life, failures, pressedKeys>>
    BY DEF ServeAction, UnchangedPage
<1>5. ASSUME InOrder', life'[Me] = "in" PROVE LastActionCounts'
    <2>1. InOrder /\ ~actions[i].late
        BY <1>4, <1>5 DEF InOrder, ServeAction
    <2>2. LastActionCounts
        BY <1>4, <1>5, <2>1 DEF KeysInv
    <2>3. ~actions[Len(actions)].late /\ actions[Len(actions)].move = GetLastKey(pressedKeys)
        BY <1>2, <2>1, <2>2 DEF LastActionCounts
    <2>4. CASE i = Len(actions)
        <3>1. dir' = GetLastKey(pressedKeys')
            BY <1>4, <1>5, <2>3, <2>4, ClientAssumption DEF ServeAction, inGame
        <3>2. \A k \in 1 .. Len(actions') : actions'[k].late
            BY <1>2, <1>3, <2>4
        <3>3. Len(actions') > 0 => actions'[Len(actions')].late
            BY <1>2, <1>3, <3>2
        <3> QED BY <3>1, <3>2, <3>3 DEF LastActionCounts
    <2>5. CASE i < Len(actions)
        <3>1. Len(actions') > 0 /\ actions'[Len(actions')] = actions[Len(actions)]
            BY <1>2, <1>3, <2>5
        <3> QED BY <1>4, <2>3, <3>1 DEF LastActionCounts
    <2> QED BY <1>2, <2>4, <2>5
<1>6. Queue(actions')
    BY <1>3 DEF Queue
<1> QED BY <1>4, <1>5, <1>6 DEF KeysInv

\* A key that goes down or up sends an action that is not late.
LEMMA PressKeepsKeys ==
    ASSUME KeysInv, NEW keys, PressKey(keys)
    PROVE  KeysInv'
<1> DEFINE action == [move |-> GetLastKey(keys), late |-> FALSE]
<1>1. PICK M : actions \in Seq([move : M, late : BOOLEAN])
    BY DEF KeysInv, Queue
<1> DEFINE N == M \cup {GetLastKey(keys)}
           R == [move : N, late : BOOLEAN]
<1>2. actions \in Seq(R)
    <2>1. DOMAIN actions = 1 .. Len(actions) /\ Len(actions) \in Nat
        BY <1>1, LenProperties
    <2>2. \A k \in 1 .. Len(actions) : actions[k] \in R
        <3> DEFINE R0 == [move : M, late : BOOLEAN]
        <3>1. \A k \in 1 .. Len(actions) : actions[k] \in R0
            <4> HIDE DEF R0
            <4>1. actions \in Seq(R0)
                BY <1>1 DEF R0
            <4> QED BY <4>1, ElementOfSeq
        <3>2. R0 \subseteq R
            OBVIOUS
        <3> QED BY <3>1, <3>2
    <2>3. actions = [k \in 1 .. Len(actions) |-> actions[k]]
        BY <1>1, <2>1
    <2> HIDE DEF R
    <2> QED BY <2>1, <2>2, <2>3, FunctionIsSequence
<1>3. action \in R
    OBVIOUS
<1>4. actions' = Append(actions, action)
    BY DEF PressKey
<1>5. /\ actions' \in Seq(R) /\ Len(actions') = Len(actions) + 1 /\ Len(actions) \in Nat
      /\ actions'[Len(actions) + 1] = action
    <2> HIDE DEF R, action
    <2> QED BY <1>2, <1>3, <1>4, AppendProperties, LenProperties
<1>6. UNCHANGED <<bounds, life, failures>> /\ pressedKeys' = keys
    BY DEF PressKey, world
<1>7. LastActionCounts'
    BY <1>5, <1>6 DEF LastActionCounts
<1>8. Queue(actions')
    BY <1>5 DEF Queue
<1> QED BY <1>6, <1>7, <1>8 DEF KeysInv

\* Every other step leaves what the invariant speaks of alone, brings another player in
\* or takes one out, or loses something.
LEMMA StepKeepsKeys ==
    ASSUME KeysInv, [Next]_vars
    PROVE  KeysInv'
<1> DEFINE Same == UNCHANGED <<bounds, life, failures, actions, actionOvertaken,
                               dir, pressedKeys>>
<1>1. ASSUME Same PROVE KeysInv'
    BY <1>1 DEF KeysInv, Queue, InOrder, LastActionCounts
<1>2. CASE Server
    <2>1. ASSUME NEW p \in Players, Join(p) PROVE KeysInv'
        <3>1. p # Me
            BY <2>1, ClientAssumption DEF Join, KeysInv
        <3>2. life'[Me] = life[Me] /\ life' \in [Players -> {"new", "in", "left"}]
            BY <2>1, <3>1, ClientAssumption DEF Join, KeysInv
        <3>3. UNCHANGED <<bounds, failures, actions, actionOvertaken, dir, pressedKeys>>
            BY <2>1 DEF Join, UnchangedPage, network, history
        <3> QED BY <3>2, <3>3 DEF KeysInv, Queue, InOrder, LastActionCounts
    <2>2. ASSUME NEW p \in Players, Retire(p) PROVE KeysInv'
        <3>1. /\ life' \in [Players -> {"new", "in", "left"}]
              /\ life'[Me] # "new" /\ (life'[Me] = "in" => life[Me] = "in")
            BY <2>2, ClientAssumption DEF Retire, KeysInv
        <3>2. UNCHANGED <<bounds, failures, actions, actionOvertaken, dir, pressedKeys>>
            BY <2>2 DEF Retire, UnchangedPage, network, history
        <3> QED BY <3>1, <3>2 DEF KeysInv, Queue, InOrder, LastActionCounts
    <2>3. ASSUME NEW l \in Loots, MoveLoot(l) PROVE Same
        BY <2>3 DEF MoveLoot, UnchangedPage, network, history
    <2>4. ASSUME NEW kind \in Kinds, Serve(kind) PROVE Same
        BY <2>4 DEF Serve, UnchangedPage, world, history
    <2> QED BY <1>1, <1>2, <2>1, <2>2, <2>3, <2>4, ServerKeepsKeys DEF Server
<1>3. CASE Network
    <2>1. ASSUME NEW kind \in Kinds, NEW i \in DOMAIN answers[kind], AnswerFails(kind, i)
          PROVE  KeysInv'
        <3>1. /\ UNCHANGED <<bounds, life, actions, actionOvertaken, dir, pressedKeys>>
              /\ failures' = failures + 1
            BY <2>1 DEF AnswerFails, UnchangedPage, world, history
        <3>2. Queue(actions')
            BY <3>1 DEF KeysInv, Queue
        <3>3. failures' \in Nat /\ failures' # 0
            BY <3>1 DEF KeysInv
        <3> QED BY <3>1, <3>2, <3>3 DEF KeysInv, InOrder
    <2>2. ASSUME NEW i \in DOMAIN actions, ActionFails(i) PROVE KeysInv'
        <3>1. PICK M : actions \in Seq([move : M, late : BOOLEAN])
            BY DEF KeysInv, Queue
        <3>2. /\ UNCHANGED <<bounds, life, actionOvertaken, dir, pressedKeys>>
              /\ failures' = failures + 1
              /\ actions' = RemoveAt(actions, i)
            BY <2>2 DEF ActionFails, UnchangedPage, world, history
        <3>3. actions' \in Seq([move : M, late : BOOLEAN])
            <4> DEFINE R == [move : M, late : BOOLEAN]
            <4> HIDE DEF R
            <4>1. actions \in Seq(R)
                BY <3>1 DEF R
            <4>2. i \in 1 .. Len(actions)
                BY <4>1, LenProperties
            <4>3. actions' \in Seq(R)
                BY <3>2, <4>1, <4>2, RemoveAtProperties
            <4> QED BY <4>3 DEF R
        <3>4. Queue(actions')
            BY <3>3 DEF Queue
        <3> QED BY <3>2, <3>4 DEF KeysInv, InOrder
    <2> QED BY <1>3, <2>1, <2>2 DEF Network
<1>4. CASE Browser
    <2>1. CASE LoadActor \/ LoadLootType \/ NewGameState \/ Tick \/ ActionDone
        BY <1>1, <2>1 DEF LoadActor, LoadLootType, NewGameState, Tick, ActionDone,
                          world, network, history
    <2>2. ASSUME NEW key \in Keys, KeyDown(key) \/ KeyUp(key) PROVE KeysInv'
        BY <2>2, PressKeepsKeys DEF KeyDown, KeyUp
    <2>3. ASSUME NEW kind, NEW i, Refused(kind, i) PROVE Same
        BY <2>3 DEF Refused, Take, world
    <2>4. ASSUME NEW i, StateArrives(i) \/ PlayersArrive(i) PROVE Same
        BY <2>4 DEF StateArrives, PlayersArrive, Take, world
    <2> QED BY <1>1, <1>4, <2>1, <2>2, <2>3, <2>4 DEF Browser
<1>5. CASE UNCHANGED vars
    BY <1>1, <1>5 DEF vars, world, network, history
<1> QED BY <1>2, <1>3, <1>4, <1>5 DEF Next

\* Actions are posted without waiting for one another; as long as none is lost and none
\* reaches the server after a later one, the dog ends up on the way of the key that is
\* down last, or stands when none is.
THEOREM DirectionFollowsKeysHolds == Spec => []DirectionFollowsKeys
<1>1. Init => KeysInv
    <2> SUFFICES ASSUME Init PROVE KeysInv
        OBVIOUS
    <2>1. Queue(actions)
        <3>1. actions \in Seq([move : {}, late : BOOLEAN])
            BY EmptySeq DEF Init
        <3> QED BY <3>1 DEF Queue
    <2>2. LastActionCounts
        BY DEF Init, LastActionCounts
    <2> QED BY <2>1, <2>2, ClientAssumption DEF Init, KeysInv
<1>2. KeysInv => DirectionFollowsKeys
    BY ClientAssumption DEF KeysInv, InOrder, LastActionCounts, DirectionFollowsKeys, inGame
<1> QED BY <1>1, <1>2, StepKeepsKeys, PTL DEF Spec

-----------------------------------------------------------------------------
(* Every object in one place.                                              *)

\* Partial functions, by their domain and values.
LEMMA PartialValues ==
    ASSUME NEW S, NEW T, NEW f \in Partial(S, T)
    PROVE  /\ DOMAIN f \subseteq S
           /\ \A x \in DOMAIN f : f[x] \in T
           /\ f = [x \in DOMAIN f |-> f[x]]
BY DEF Partial

LEMMA PartialFunction ==
    ASSUME NEW S, NEW T, NEW f, DOMAIN f \subseteq S,
           f = [x \in DOMAIN f |-> f[x]], \A x \in DOMAIN f : f[x] \in T
    PROVE  f \in Partial(S, T)
BY DEF Partial

\* What is drawn has its type.
DrawnTyped ==
    /\ current \in Partial(Players, Refs)
    /\ players \in Partial(Players, Refs \cup {NoData})
    /\ bags \in Partial(Refs, Partial(Loots, Objects))
    /\ lostObjects \in Partial(Loots, Objects)
    /\ disappearing \in Partial(Loots, Objects)
    /\ scene \subseteq Objects

\* No data belongs to two players, in one table or in two.
Apart(table, other) ==
    /\ Injective(table)
    /\ \A p, q \in DOMAIN other : other[p] = other[q] /\ other[p] # NoData => p = q
    /\ \A p \in DOMAIN table, q \in DOMAIN other : table[p] = other[q] => p = q

DataInUse(table, other) == (Range(table) \cup Range(other)) \ {NoData}

\* Loot is on the map or in one of the bags of the last state.
LootInOnePlace ==
    \A p \in DOMAIN current :
        /\ DOMAIN bags[current[p]] \cap DOMAIN lostObjects = {}
        /\ \A q \in DOMAIN current \ {p} :
            DOMAIN bags[current[p]] \cap DOMAIN bags[current[q]] = {}

DrawnInv ==
    /\ DrawnTyped
    /\ TablesShareBags
    /\ Apart(current, players)
    /\ DOMAIN bags = DataInUse(current, players)
    /\ LootInOnePlace
    /\ ObjectsHeldOnce

\* A list of players that could come from the tables.
Listing(listed) ==
    /\ listed \in Partial(Players, Refs \cup {NoData})
    /\ Agree(current, listed)
    /\ Apart(current, listed)
    /\ Range(listed) \subseteq DOMAIN bags \cup {NoData}

LEMMA ListIsListing ==
    ASSUME DrawnInv, NEW snapshot \in Snapshots
    PROVE  Listing(Listed(snapshot))
<1> DEFINE listed == Listed(snapshot)
<1>1. snapshot.inGame \subseteq Players
    BY DEF Snapshots
<1>2. /\ DOMAIN listed = snapshot.inGame
      /\ listed = [p \in DOMAIN listed |-> listed[p]]
      /\ \A p \in snapshot.inGame : listed[p] =
            IF p \in DOMAIN players THEN players[p]
            ELSE IF p \in DOMAIN current THEN current[p] ELSE NoData
    BY DEF Listed
<1>3. /\ \A p \in DOMAIN current : current[p] \in Refs /\ current[p] # NoData
      /\ \A p \in DOMAIN players : players[p] \in Refs \cup {NoData}
    BY PartialValues, ClientAssumption DEF DrawnInv, DrawnTyped
<1> HIDE DEF listed
<1>4. listed \in Partial(Players, Refs \cup {NoData})
    BY <1>1, <1>2, <1>3, PartialFunction
<1>5. Agree(current, listed)
    BY ListAgrees DEF DrawnInv, listed
<1>6. Apart(current, listed)
    <2>1. Apart(current, players) /\ TablesShareBags
        BY DEF DrawnInv
    <2>2. ASSUME NEW p \in DOMAIN listed, NEW q \in DOMAIN listed,
                 listed[p] = listed[q], listed[p] # NoData
          PROVE  p = q
        BY <1>2, <2>1, <2>2 DEF Apart, Injective
    <2>3. ASSUME NEW p \in DOMAIN current, NEW q \in DOMAIN listed, current[p] = listed[q]
          PROVE  p = q
        BY <1>2, <1>3, <2>1, <2>3 DEF Apart, Injective
    <2> QED BY <2>1, <2>2, <2>3 DEF Apart
<1>7. Range(listed) \subseteq DOMAIN bags \cup {NoData}
    BY <1>2, <1>3 DEF DrawnInv, DataInUse, Range
<1> QED BY <1>4, <1>5, <1>6, <1>7 DEF Listing, listed

\* The table of the last list is one, too.
LEMMA PlayersAreListing ==
    ASSUME DrawnInv
    PROVE  Listing(players)
<1>1. Agree(current, players)
    BY DEF DrawnInv, TablesShareBags, Agree
<1>2. Range(players) \subseteq DOMAIN bags \cup {NoData}
    BY DEF DrawnInv, DataInUse
<1> QED BY <1>1, <1>2 DEF Listing, DrawnInv, DrawnTyped

\* What _applyDesiredState leaves, place by place: newData is the data it gives to new
\* players, created the objects it makes.
OnMap(snapshot) == {l \in Loots : snapshot.place[l] = "map"}
CarriedBy(snapshot, p) == {l \in Loots : snapshot.place[l] = p}
NewPlayers(snapshot) == snapshot.inGame \ DOMAIN current
BagOf(p) == IF p \in DOMAIN current THEN bags[current[p]] ELSE Empty
AbandonedBy(snapshot) == DOMAIN lostObjects \ OnMap(snapshot)
AttachedBy(snapshot) == UNION {CarriedBy(snapshot, p) \ DOMAIN BagOf(p) : p \in snapshot.inGame}
NewLoot(snapshot) ==
    (OnMap(snapshot) \ DOMAIN lostObjects) \cup (AttachedBy(snapshot) \ AbandonedBy(snapshot))

FreshData(snapshot, listed, newData) ==
    newData \in Namings(NewPlayers(snapshot), Refs, DataInUse(current, listed))
FreshObjects(snapshot, created) == created \in Namings(NewLoot(snapshot), Objects, HeldObjects)

ObjectOf(l, created) == IF l \in DOMAIN lostObjects THEN lostObjects[l] ELSE created[l]

\* Loot that is put down or abandoned by the new state.
Dropped(snapshot) ==
    (AbandonedBy(snapshot) \ AttachedBy(snapshot)) \cup
    UNION {DOMAIN BagOf(p) \ CarriedBy(snapshot, p) : p \in snapshot.inGame}

\* The object l had in a bag of the last state, if it was put down.
DroppedObject(snapshot, l, object) ==
    IF l \in AbandonedBy(snapshot) THEN object = lostObjects[l]
    ELSE \E p \in snapshot.inGame :
            l \in DOMAIN BagOf(p) \ CarriedBy(snapshot, p) /\ object = BagOf(p)[l]

AppliedWith(snapshot, listed, shownScene, newData, created) ==
    /\ FreshData(snapshot, listed, newData)
    /\ FreshObjects(snapshot, created)
    /\ current' = [p \in snapshot.inGame |->
                    IF p \in DOMAIN current THEN current[p] ELSE newData[p]]
    /\ players' = [p \in DOMAIN listed |->
                    IF p \in NewPlayers(snapshot) THEN newData[p] ELSE listed[p]]
    /\ bags' = [r \in DOMAIN bags' |-> bags'[r]]
    /\ DOMAIN bags' = DataInUse(current', players')
    /\ \A p \in snapshot.inGame :
        bags'[current'[p]] = [l \in CarriedBy(snapshot, p) |->
            IF l \in DOMAIN BagOf(p) THEN BagOf(p)[l] ELSE ObjectOf(l, created)]
    /\ \A r \in DOMAIN bags' \ Range(current') : bags'[r] = bags[r]
    /\ lostObjects' = [l \in OnMap(snapshot) |-> ObjectOf(l, created)]
    /\ disappearing' = [l \in DOMAIN disappearing \cup Dropped(snapshot) |-> disappearing'[l]]
    /\ \A l \in DOMAIN disappearing' :
        IF l \in Dropped(snapshot) THEN DroppedObject(snapshot, l, disappearing'[l])
        ELSE disappearing'[l] = disappearing[l]
    /\ scene' = shownScene \cup Range(created)

\* New data is given to new players only, so no two players come to share one.
LEMMA FreshDataOfEach ==
    ASSUME DrawnInv, NEW snapshot \in Snapshots, NEW listed, Listing(listed),
           NEW newData, FreshData(snapshot, listed, newData),
           NEW data, NEW listedAfter,
           DOMAIN data = snapshot.inGame, data = [p \in DOMAIN data |-> data[p]],
           \A p \in snapshot.inGame :
                data[p] = IF p \in DOMAIN current THEN current[p] ELSE newData[p],
           DOMAIN listedAfter = DOMAIN listed,
           listedAfter = [p \in DOMAIN listedAfter |-> listedAfter[p]],
           \A p \in DOMAIN listed : listedAfter[p] =
                IF p \in NewPlayers(snapshot) THEN newData[p] ELSE listed[p]
    PROVE  /\ data \in Partial(Players, Refs)
           /\ listedAfter \in Partial(Players, Refs \cup {NoData})
           /\ Apart(data, listedAfter)
<1>1. /\ DOMAIN data = snapshot.inGame /\ snapshot.inGame \subseteq Players
      /\ data = [p \in DOMAIN data |-> data[p]]
      /\ \A p \in snapshot.inGame :
            data[p] = IF p \in DOMAIN current THEN current[p] ELSE newData[p]
    BY DEF Snapshots
<1>2. /\ DOMAIN listedAfter = DOMAIN listed
      /\ listedAfter = [p \in DOMAIN listedAfter |-> listedAfter[p]]
      /\ \A p \in DOMAIN listed :
            listedAfter[p] = IF p \in NewPlayers(snapshot) THEN newData[p] ELSE listed[p]
    OBVIOUS
<1>3. /\ \A p \in DOMAIN current : current[p] \in Refs /\ current[p] # NoData
      /\ \A p \in DOMAIN listed : listed[p] \in Refs \cup {NoData}
      /\ DOMAIN listed \subseteq Players
    BY PartialValues, ClientAssumption DEF DrawnInv, DrawnTyped, Listing
<1>4. /\ \A p \in NewPlayers(snapshot) :
            /\ newData[p] \in Refs /\ newData[p] # NoData
            /\ \A q \in DOMAIN current : newData[p] # current[q]
            /\ \A q \in DOMAIN listed : newData[p] # listed[q]
      /\ \A p, q \in NewPlayers(snapshot) : newData[p] = newData[q] => p = q
    BY ClientAssumption DEF FreshData, Namings, DataInUse, Range
<1>5. Apart(current, listed)
    BY DEF Listing
<1>6. data \in Partial(Players, Refs)
    BY <1>1, <1>3, <1>4, PartialFunction DEF NewPlayers
<1>7. listedAfter \in Partial(Players, Refs \cup {NoData})
    BY <1>2, <1>3, <1>4, PartialFunction
<1>8. Injective(data)
    BY <1>1, <1>4, <1>5 DEF Apart, Injective, NewPlayers
<1>9. ASSUME NEW p \in DOMAIN listed, NEW q \in DOMAIN listed,
             listedAfter[p] = listedAfter[q], listedAfter[p] # NoData
      PROVE  p = q
    BY <1>2, <1>4, <1>5, <1>9 DEF Apart
<1>10. ASSUME NEW p \in DOMAIN data, NEW q \in DOMAIN listed, data[p] = listedAfter[q]
       PROVE  p = q
    BY <1>1, <1>2, <1>4, <1>5, <1>10 DEF Apart, NewPlayers
<1> QED BY <1>2, <1>6, <1>7, <1>8, <1>9, <1>10 DEF Apart

LEMMA FreshDataIsApart ==
    ASSUME DrawnInv, NEW snapshot \in Snapshots, NEW listed, Listing(listed),
           NEW newData, FreshData(snapshot, listed, newData),
           NEW data, data = [p \in snapshot.inGame |->
                    IF p \in DOMAIN current THEN current[p] ELSE newData[p]],
           NEW listedAfter, listedAfter = [p \in DOMAIN listed |->
                    IF p \in NewPlayers(snapshot) THEN newData[p] ELSE listed[p]]
    PROVE  /\ data \in Partial(Players, Refs)
           /\ listedAfter \in Partial(Players, Refs \cup {NoData})
           /\ Apart(data, listedAfter)
<1>1. /\ DOMAIN data = snapshot.inGame /\ data = [p \in DOMAIN data |-> data[p]]
      /\ \A p \in snapshot.inGame :
            data[p] = IF p \in DOMAIN current THEN current[p] ELSE newData[p]
    OBVIOUS
<1>2. /\ DOMAIN listedAfter = DOMAIN listed
      /\ listedAfter = [p \in DOMAIN listedAfter |-> listedAfter[p]]
      /\ \A p \in DOMAIN listed :
            listedAfter[p] = IF p \in NewPlayers(snapshot) THEN newData[p] ELSE listed[p]
    OBVIOUS
<1> QED BY <1>1, <1>2, FreshDataOfEach

LEMMA Applied ==
    ASSUME DrawnInv, NEW snapshot \in Snapshots, NEW listed, Listing(listed),
           NEW shownScene, ApplyDesiredState(snapshot, listed, shownScene)
    PROVE  \E newData, created : AppliedWith(snapshot, listed, shownScene, newData, created)
<1> DEFINE newData == NewNames(NewPlayers(snapshot), Refs, DataInUse(current, listed))
           created == NewNames(NewLoot(snapshot), Objects, HeldObjects)
           data == [p \in snapshot.inGame |->
                    IF p \in DOMAIN current THEN current[p] ELSE newData[p]]
           listedAfter == [p \in DOMAIN listed |->
                    IF p \in NewPlayers(snapshot) THEN newData[p] ELSE listed[p]]
           bagAfter(p) == [l \in CarriedBy(snapshot, p) |->
            IF l \in DOMAIN BagOf(p) THEN BagOf(p)[l] ELSE ObjectOf(l, created)]
           putDown == {p \in snapshot.inGame : DOMAIN BagOf(p) \ CarriedBy(snapshot, p) # {}}
           dropped == [l \in Unclaimed(AbandonedBy(snapshot), AttachedBy(snapshot)) \cup
                    UNION {DOMAIN BagOf(p) \ CarriedBy(snapshot, p) : p \in putDown} |->
                        IF l \in AbandonedBy(snapshot) THEN lostObjects[l]
                        ELSE BagOf(CHOOSE p \in putDown :
                                l \in DOMAIN BagOf(p) \ CarriedBy(snapshot, p))[l]]
<1>1. /\ Namings(NewPlayers(snapshot), Refs, DataInUse(current, listed)) # {}
      /\ Namings(NewLoot(snapshot), Objects, HeldObjects) # {}
      /\ current' = data
      /\ players' = listedAfter
      /\ bags' = [r \in (Range(data) \cup Range(listedAfter)) \ {NoData} |->
                        IF r \in Range(data)
                        THEN bagAfter(CHOOSE p \in DOMAIN data : data[p] = r)
                        ELSE bags[r]]
      /\ lostObjects' = [l \in OnMap(snapshot) |-> ObjectOf(l, created)]
      /\ disappearing' = [l \in DOMAIN disappearing \cup DOMAIN dropped |->
                                IF l \in DOMAIN dropped THEN dropped[l]
                                ELSE disappearing[l]]
      /\ scene' = shownScene \cup Range(created)
    BY Zenon DEF ApplyDesiredState, NewPlayers, DataInUse, NewLoot, OnMap, CarriedBy, BagOf,
              AbandonedBy, AttachedBy, ObjectOf
<1>2. FreshData(snapshot, listed, newData) /\ FreshObjects(snapshot, created)
    <2>1. ASSUME NEW S, NEW names, NEW used, Namings(S, names, used) # {}
          PROVE  NewNames(S, names, used) \in Namings(S, names, used)
        BY <2>1 DEF NewNames
    <2> QED BY <1>1, <2>1 DEF FreshData, FreshObjects
<1> HIDE DEF newData, created
<1>3. Apart(data, listedAfter)
    BY <1>2, FreshDataIsApart
<1>4. DOMAIN dropped = Dropped(snapshot)
    BY DEF Dropped, Unclaimed
<1>5. ASSUME NEW l \in Dropped(snapshot) PROVE DroppedObject(snapshot, l, dropped[l])
    <2>1. CASE l \in AbandonedBy(snapshot)
        BY <1>4, <2>1 DEF DroppedObject
    <2>2. CASE l \notin AbandonedBy(snapshot)
        <3> DEFINE q == CHOOSE p \in putDown : l \in DOMAIN BagOf(p) \ CarriedBy(snapshot, p)
        <3>1. \E p \in putDown : l \in DOMAIN BagOf(p) \ CarriedBy(snapshot, p)
            BY <2>2 DEF Dropped
        <3>2. q \in putDown /\ l \in DOMAIN BagOf(q) \ CarriedBy(snapshot, q)
            BY <3>1
        <3>3. dropped[l] = BagOf(q)[l]
            BY <1>4, <2>2
        <3> QED BY <2>2, <3>2, <3>3 DEF DroppedObject
    <2> QED BY <2>1, <2>2
<1>6. ASSUME NEW p \in snapshot.inGame PROVE bags'[current'[p]] = bagAfter(p)
    <2>1. p \in DOMAIN data /\ data[p] \in Range(data)
        BY DEF Range
    <2>2. data[p] # NoData
        <3> HIDE DEF data
        <3>1. data \in Partial(Players, Refs)
            BY <1>2, FreshDataIsApart DEF data
        <3> QED BY <2>1, <3>1, PartialValues, ClientAssumption
    <2>3. (CHOOSE q \in DOMAIN data : data[q] = data[p]) = p
        BY <1>3, <2>1 DEF Apart, Injective
    <2> HIDE DEF data, listedAfter, bagAfter
    <2>4. bags'[data[p]] = bagAfter(CHOOSE q \in DOMAIN data : data[q] = data[p])
        BY <1>1, <2>1, <2>2
    <2> QED BY <1>1, <2>3, <2>4
<1>7. AppliedWith(snapshot, listed, shownScene, newData, created)
    <2>1. /\ bags' = [r \in DOMAIN bags' |-> bags'[r]]
          /\ DOMAIN bags' = DataInUse(current', players')
          /\ \A r \in DOMAIN bags' \ Range(current') : bags'[r] = bags[r]
        <3> HIDE DEF data, listedAfter, bagAfter
        <3> QED BY <1>1 DEF DataInUse
    <2>2. /\ disappearing' = [l \in DOMAIN disappearing \cup Dropped(snapshot) |-> disappearing'[l]]
          /\ \A l \in DOMAIN disappearing' :
                IF l \in Dropped(snapshot) THEN DroppedObject(snapshot, l, disappearing'[l])
                ELSE disappearing'[l] = disappearing[l]
        <3> HIDE DEF dropped
        <3> QED BY <1>1, <1>4, <1>5
    <2> HIDE DEF data, listedAfter, bagAfter, dropped
    <2>3. current' = data /\ players' = listedAfter
        BY <1>1
    <2> USE DEF data, listedAfter, bagAfter
    <2> QED BY <1>1, <1>2, <1>6, <2>1, <2>2, <2>3, Zenon DEF AppliedWith
<1> QED BY <1>7

\* Where an object of the bag of r comes from.
InBag(snapshot, created, r, l, object) ==
    \/ r \in DOMAIN bags /\ l \in DOMAIN bags[r] /\ object = bags[r][l]
    \/ /\ \/ l \in DOMAIN lostObjects /\ object = lostObjects[l]
          \/ l \in NewLoot(snapshot) /\ object = created[l]
       /\ l \in AttachedBy(snapshot)
       /\ \E p \in snapshot.inGame : r = current'[p] /\ l \in CarriedBy(snapshot, p)

\* Objects in one place before.
LEMMA OldObjectsApart ==
    ASSUME DrawnInv
    PROVE  /\ \A l, m \in DOMAIN lostObjects : lostObjects[l] = lostObjects[m] => l = m
           /\ \A l, m \in DOMAIN disappearing : disappearing[l] = disappearing[m] => l = m
           /\ \A l \in DOMAIN lostObjects, m \in DOMAIN disappearing :
                lostObjects[l] # disappearing[m]
           /\ \A r \in DOMAIN bags : \A l \in DOMAIN bags[r] :
                /\ \A m \in DOMAIN bags[r] : bags[r][l] = bags[r][m] => l = m
                /\ \A m \in DOMAIN lostObjects : bags[r][l] # lostObjects[m]
                /\ \A m \in DOMAIN disappearing : bags[r][l] # disappearing[m]
                /\ \A q \in DOMAIN bags : \A m \in DOMAIN bags[q] :
                    bags[r][l] = bags[q][m] => r = q
<1>1. ObjectsHeldOnce
    BY DEF DrawnInv
<1>2. /\ Injective(lostObjects) /\ Injective(disappearing)
      /\ Disjoint(lostObjects, disappearing)
    BY <1>1 DEF ObjectsHeldOnce
<1>3. ASSUME NEW r \in DOMAIN bags, NEW l \in DOMAIN bags[r]
      PROVE  /\ \A m \in DOMAIN bags[r] : bags[r][l] = bags[r][m] => l = m
             /\ \A m \in DOMAIN lostObjects : bags[r][l] # lostObjects[m]
             /\ \A m \in DOMAIN disappearing : bags[r][l] # disappearing[m]
             /\ \A q \in DOMAIN bags : \A m \in DOMAIN bags[q] :
                    bags[r][l] = bags[q][m] => r = q
    <2>1. /\ Injective(bags[r])
          /\ Disjoint(bags[r], lostObjects) /\ Disjoint(bags[r], disappearing)
          /\ \A q \in DOMAIN bags \ {r} : Disjoint(bags[r], bags[q])
        BY <1>1 DEF ObjectsHeldOnce
    <2> QED BY <2>1 DEF Injective, Disjoint, Range
<1> QED BY <1>2, <1>3 DEF Injective, Disjoint, Range

\* A new object is not an old one.
LEMMA NewObjectsAreNew ==
    ASSUME NEW snapshot, NEW created, FreshObjects(snapshot, created)
    PROVE  /\ \A l, m \in NewLoot(snapshot) : created[l] = created[m] => l = m
           /\ created = [l \in NewLoot(snapshot) |-> created[l]]
           /\ \A l \in NewLoot(snapshot) :
                /\ created[l] \in Objects
                /\ created[l] \notin scene
                /\ \A m \in DOMAIN lostObjects : created[l] # lostObjects[m]
                /\ \A m \in DOMAIN disappearing : created[l] # disappearing[m]
                /\ \A r \in DOMAIN bags : \A m \in DOMAIN bags[r] : created[l] # bags[r][m]
<1>1. /\ created \in [NewLoot(snapshot) -> Objects \ HeldObjects]
      /\ \A l, m \in NewLoot(snapshot) : created[l] = created[m] => l = m
    BY DEF FreshObjects, Namings
<1>2. /\ scene \subseteq HeldObjects
      /\ \A m \in DOMAIN lostObjects : lostObjects[m] \in HeldObjects
      /\ \A m \in DOMAIN disappearing : disappearing[m] \in HeldObjects
    BY DEF HeldObjects, Held, Range
<1>3. ASSUME NEW r \in DOMAIN bags, NEW m \in DOMAIN bags[r] PROVE bags[r][m] \in HeldObjects
    <2>1. bags[r] \in Range(bags) /\ bags[r][m] \in Range(bags[r])
        BY DEF Range
    <2> QED BY <2>1 DEF HeldObjects, Held
<1> QED BY <1>1, <1>2, <1>3

\* The tables after a state was applied, by where their objects come from.
LEMMA WhereObjectsComeFrom ==
    ASSUME DrawnInv, NEW snapshot \in Snapshots, NEW listed, Listing(listed),
           NEW shownScene, NEW newData, NEW created,
           AppliedWith(snapshot, listed, shownScene, newData, created)
    PROVE  /\ DOMAIN lostObjects' = OnMap(snapshot)
           /\ \A l \in OnMap(snapshot) :
                \/ l \in DOMAIN lostObjects /\ lostObjects'[l] = lostObjects[l]
                \/ l \in NewLoot(snapshot) /\ lostObjects'[l] = created[l]
           /\ \A p \in snapshot.inGame : DOMAIN bags'[current'[p]] = CarriedBy(snapshot, p)
           /\ \A r \in DOMAIN bags' : \A l \in DOMAIN bags'[r] :
                InBag(snapshot, created, r, l, bags'[r][l])
           /\ \A l \in DOMAIN disappearing' :
                \/ /\ l \in AbandonedBy(snapshot) \ AttachedBy(snapshot)
                   /\ disappearing'[l] = lostObjects[l]
                \/ \E p \in snapshot.inGame \cap DOMAIN current :
                    /\ l \in DOMAIN bags[current[p]] \ CarriedBy(snapshot, p)
                    /\ current'[p] = current[p] /\ current[p] \in DOMAIN bags
                    /\ disappearing'[l] = bags[current[p]][l]
                \/ l \in DOMAIN disappearing /\ disappearing'[l] = disappearing[l]
<1> USE DEF AppliedWith
<1>1. /\ DOMAIN lostObjects' = OnMap(snapshot)
      /\ \A l \in OnMap(snapshot) : lostObjects'[l] = ObjectOf(l, created)
    OBVIOUS
<1>2. \A l \in OnMap(snapshot) :
        \/ l \in DOMAIN lostObjects /\ lostObjects'[l] = lostObjects[l]
        \/ l \in NewLoot(snapshot) /\ lostObjects'[l] = created[l]
    BY <1>1 DEF ObjectOf, NewLoot
<1>3. ASSUME NEW p \in snapshot.inGame
      PROVE  /\ DOMAIN bags'[current'[p]] = CarriedBy(snapshot, p)
             /\ \A l \in CarriedBy(snapshot, p) : bags'[current'[p]][l] =
                    IF l \in DOMAIN BagOf(p) THEN BagOf(p)[l] ELSE ObjectOf(l, created)
    <2>1. bags'[current'[p]] = [l \in CarriedBy(snapshot, p) |->
            IF l \in DOMAIN BagOf(p) THEN BagOf(p)[l] ELSE ObjectOf(l, created)]
        OBVIOUS
    <2> QED BY <2>1
<1>4. \A p \in snapshot.inGame \cap DOMAIN current :
        current'[p] = current[p] /\ current[p] \in DOMAIN bags
    <2>1. \A p \in DOMAIN current : current[p] \in Refs /\ current[p] # NoData
        BY PartialValues, ClientAssumption DEF DrawnInv, DrawnTyped
    <2> QED BY <2>1 DEF DrawnInv, DataInUse, Range
<1>5. ASSUME NEW r \in DOMAIN bags', NEW l \in DOMAIN bags'[r]
      PROVE  InBag(snapshot, created, r, l, bags'[r][l])
    <2>1. CASE r \in Range(current')
        <3>1. PICK p \in snapshot.inGame : r = current'[p]
            BY <2>1 DEF Range
        <3>2. l \in CarriedBy(snapshot, p)
            BY <1>3, <3>1
        <3>3. CASE l \in DOMAIN BagOf(p)
            <4>1. p \in DOMAIN current
                BY <3>3 DEF BagOf, Empty
            <4>2. BagOf(p) = bags[current[p]] /\ r = current[p] /\ r \in DOMAIN bags
                BY <1>4, <3>1, <4>1 DEF BagOf
            <4>3. bags'[r][l] = BagOf(p)[l]
                BY <1>3, <3>1, <3>2, <3>3
            <4> QED BY <3>3, <4>2, <4>3 DEF InBag
        <3>4. CASE l \notin DOMAIN BagOf(p)
            <4>1. bags'[r][l] = ObjectOf(l, created)
                BY <1>3, <3>1, <3>2, <3>4
            <4>2. l \in AttachedBy(snapshot)
                BY <3>2, <3>4 DEF AttachedBy
            <4>3. l \in DOMAIN lostObjects \/ l \in NewLoot(snapshot)
                BY <4>2 DEF NewLoot, AbandonedBy
            <4>4. \E s \in snapshot.inGame : r = current'[s] /\ l \in CarriedBy(snapshot, s)
                BY <3>1, <3>2
            <4> QED BY <4>1, <4>2, <4>3, <4>4 DEF InBag, ObjectOf
        <3> QED BY <3>3, <3>4
    <2>2. CASE r \notin Range(current')
        <3>1. bags'[r] = bags[r]
            BY <2>2
        <3>2. r \in Range(players') /\ r # NoData
            BY <2>2 DEF DataInUse
        <3>3. PICK q \in DOMAIN listed : r = players'[q]
            BY <3>2 DEF Range
        <3>4. r = listed[q]
            <4>1. q \notin NewPlayers(snapshot)
                BY <2>2, <3>3 DEF NewPlayers, Range
            <4> QED BY <3>3, <4>1
        <3>5. r \in DOMAIN bags
            BY <3>2, <3>4 DEF Listing, Range
        <3> QED BY <3>1, <3>5 DEF InBag
    <2> QED BY <2>1, <2>2
<1>6. ASSUME NEW l \in DOMAIN disappearing'
      PROVE  \/ /\ l \in AbandonedBy(snapshot) \ AttachedBy(snapshot)
                /\ disappearing'[l] = lostObjects[l]
             \/ \E p \in snapshot.inGame \cap DOMAIN current :
                 /\ l \in DOMAIN bags[current[p]] \ CarriedBy(snapshot, p)
                 /\ current'[p] = current[p] /\ current[p] \in DOMAIN bags
                 /\ disappearing'[l] = bags[current[p]][l]
             \/ l \in DOMAIN disappearing /\ disappearing'[l] = disappearing[l]
    <2>1. CASE l \notin Dropped(snapshot)
        BY <2>1
    <2>2. CASE l \in AbandonedBy(snapshot) /\ l \in Dropped(snapshot)
        <3>1. disappearing'[l] = lostObjects[l]
            BY <2>2 DEF DroppedObject
        <3>2. ASSUME NEW p \in snapshot.inGame, l \in DOMAIN BagOf(p) PROVE FALSE
            <4>1. p \in DOMAIN current /\ l \in DOMAIN bags[current[p]]
                BY <3>2 DEF BagOf, Empty
            <4> QED BY <2>2, <4>1 DEF DrawnInv, LootInOnePlace, AbandonedBy
        <3>3. l \notin AttachedBy(snapshot)
            BY <2>2, <3>2 DEF Dropped
        <3> QED BY <2>2, <3>1, <3>3
    <2>3. CASE l \notin AbandonedBy(snapshot) /\ l \in Dropped(snapshot)
        <3>1. PICK p \in snapshot.inGame : /\ l \in DOMAIN BagOf(p) \ CarriedBy(snapshot, p)
                                           /\ disappearing'[l] = BagOf(p)[l]
            BY <2>3 DEF DroppedObject
        <3>2. p \in DOMAIN current /\ BagOf(p) = bags[current[p]]
            BY <3>1 DEF BagOf, Empty
        <3> QED BY <1>4, <3>1, <3>2
    <2> QED BY <2>1, <2>2, <2>3
<1> QED BY <1>1, <1>2, <1>3, <1>5, <1>6

\* Whoever carries a loot does not find it on the map, nor with another.
LEMMA LootIsSomewhere ==
    ASSUME NEW snapshot \in Snapshots
    PROVE  /\ \A p \in snapshot.inGame : CarriedBy(snapshot, p) \cap OnMap(snapshot) = {}
           /\ \A p, q \in snapshot.inGame : \A l \in CarriedBy(snapshot, p) :
                l \in CarriedBy(snapshot, q) => p = q
<1>1. snapshot.inGame \subseteq Players
    BY DEF Snapshots
<1>2. "map" \notin Players
    BY ClientAssumption
<1> QED BY <1>1, <1>2 DEF CarriedBy, OnMap

\* Objects in one place after: whatever is taken from one table for another has left it.
LEMMA ObjectsStayApart ==
    ASSUME DrawnInv, NEW snapshot \in Snapshots, NEW listed, Listing(listed),
           NEW shownScene, NEW newData, NEW created,
           AppliedWith(snapshot, listed, shownScene, newData, created)
    PROVE  ObjectsHeldOnce'
<1> DEFINE new(l) == l \in NewLoot(snapshot)
<1>1. /\ \A l, m \in DOMAIN lostObjects : lostObjects[l] = lostObjects[m] => l = m
      /\ \A l, m \in DOMAIN disappearing : disappearing[l] = disappearing[m] => l = m
      /\ \A l \in DOMAIN lostObjects, m \in DOMAIN disappearing :
            lostObjects[l] # disappearing[m]
      /\ \A r \in DOMAIN bags : \A l \in DOMAIN bags[r] :
            /\ \A m \in DOMAIN bags[r] : bags[r][l] = bags[r][m] => l = m
            /\ \A m \in DOMAIN lostObjects : bags[r][l] # lostObjects[m]
            /\ \A m \in DOMAIN disappearing : bags[r][l] # disappearing[m]
            /\ \A q \in DOMAIN bags : \A m \in DOMAIN bags[q] :
                    bags[r][l] = bags[q][m] => r = q
    BY OldObjectsApart
<1>2. /\ \A l, m \in NewLoot(snapshot) : created[l] = created[m] => l = m
      /\ \A l \in NewLoot(snapshot) :
            /\ \A m \in DOMAIN lostObjects : created[l] # lostObjects[m]
            /\ \A m \in DOMAIN disappearing : created[l] # disappearing[m]
            /\ \A r \in DOMAIN bags : \A m \in DOMAIN bags[r] : created[l] # bags[r][m]
    BY NewObjectsAreNew DEF AppliedWith
<1>3. /\ DOMAIN lostObjects' = OnMap(snapshot)
      /\ \A l \in OnMap(snapshot) :
            \/ l \in DOMAIN lostObjects /\ lostObjects'[l] = lostObjects[l]
            \/ l \in NewLoot(snapshot) /\ lostObjects'[l] = created[l]
      /\ \A p \in snapshot.inGame : DOMAIN bags'[current'[p]] = CarriedBy(snapshot, p)
      /\ \A r \in DOMAIN bags' : \A l \in DOMAIN bags'[r] :
            InBag(snapshot, created, r, l, bags'[r][l])
      /\ \A l \in DOMAIN disappearing' :
            \/ /\ l \in AbandonedBy(snapshot) \ AttachedBy(snapshot)
               /\ disappearing'[l] = lostObjects[l]
            \/ \E p \in snapshot.inGame \cap DOMAIN current :
                /\ l \in DOMAIN bags[current[p]] \ CarriedBy(snapshot, p)
                /\ current'[p] = current[p] /\ current[p] \in DOMAIN bags
                /\ disappearing'[l] = bags[current[p]][l]
            \/ l \in DOMAIN disappearing /\ disappearing'[l] = disappearing[l]
    BY WhereObjectsComeFrom
<1>4. /\ \A p \in snapshot.inGame : CarriedBy(snapshot, p) \cap OnMap(snapshot) = {}
      /\ \A p, q \in snapshot.inGame : \A l \in CarriedBy(snapshot, p) :
            l \in CarriedBy(snapshot, q) => p = q
    BY LootIsSomewhere
<1>5. \A l \in AbandonedBy(snapshot) : l \in DOMAIN lostObjects /\ l \notin OnMap(snapshot)
    BY DEF AbandonedBy
<1>6. Injective(lostObjects')
    BY <1>1, <1>2, <1>3 DEF Injective
<1>7. Injective(disappearing')
    BY <1>1, <1>3, <1>5 DEF Injective
<1>8. \A l \in DOMAIN lostObjects', m \in DOMAIN disappearing' :
        lostObjects'[l] # disappearing'[m]
    BY <1>1, <1>2, <1>3, <1>5
<1>9. ASSUME NEW r \in DOMAIN bags', NEW l \in DOMAIN bags'[r]
      PROVE  /\ \A m \in DOMAIN bags'[r] : bags'[r][l] = bags'[r][m] => l = m
             /\ \A m \in DOMAIN lostObjects' : bags'[r][l] # lostObjects'[m]
             /\ \A m \in DOMAIN disappearing' : bags'[r][l] # disappearing'[m]
             /\ \A q \in DOMAIN bags' : \A m \in DOMAIN bags'[q] :
                    bags'[r][l] = bags'[q][m] => r = q
    <2>1. InBag(snapshot, created, r, l, bags'[r][l])
        BY <1>3
    <2>2. ASSUME NEW m \in DOMAIN bags'[r], bags'[r][l] = bags'[r][m] PROVE l = m
        <3>1. InBag(snapshot, created, r, m, bags'[r][m])
            BY <1>3
        <3> QED BY <1>1, <1>2, <2>1, <2>2, <3>1 DEF InBag
    <2>3. ASSUME NEW m \in DOMAIN lostObjects', bags'[r][l] = lostObjects'[m] PROVE FALSE
        BY <1>1, <1>2, <1>3, <1>4, <2>1, <2>3 DEF InBag
    <2>4. ASSUME NEW m \in DOMAIN disappearing', bags'[r][l] = disappearing'[m] PROVE FALSE
        <3>1. CASE /\ m \in AbandonedBy(snapshot) \ AttachedBy(snapshot)
                   /\ disappearing'[m] = lostObjects[m]
            BY <1>1, <1>2, <1>5, <2>1, <2>4, <3>1 DEF InBag
        <3>2. CASE \E p \in snapshot.inGame \cap DOMAIN current :
                    /\ m \in DOMAIN bags[current[p]] \ CarriedBy(snapshot, p)
                    /\ current'[p] = current[p] /\ current[p] \in DOMAIN bags
                    /\ disappearing'[m] = bags[current[p]][m]
            <4>1. PICK p \in snapshot.inGame \cap DOMAIN current :
                    /\ m \in DOMAIN bags[current[p]] \ CarriedBy(snapshot, p)
                    /\ current'[p] = current[p] /\ current[p] \in DOMAIN bags
                    /\ disappearing'[m] = bags[current[p]][m]
                BY <3>2
            <4>2. r = current[p] /\ l = m
                BY <1>1, <1>2, <2>1, <2>4, <4>1 DEF InBag
            <4> QED BY <1>3, <4>1, <4>2
        <3>3. CASE m \in DOMAIN disappearing /\ disappearing'[m] = disappearing[m]
            BY <1>1, <1>2, <2>1, <2>4, <3>3 DEF InBag
        <3> QED BY <1>3, <3>1, <3>2, <3>3
    <2>5. ASSUME NEW q \in DOMAIN bags', NEW m \in DOMAIN bags'[q], bags'[r][l] = bags'[q][m]
          PROVE  r = q
        <3>1. InBag(snapshot, created, q, m, bags'[q][m])
            BY <1>3
        <3> QED BY <1>1, <1>2, <1>4, <2>1, <2>5, <3>1 DEF InBag
    <2> QED BY <2>2, <2>3, <2>4, <2>5
<1>10. ASSUME NEW r \in DOMAIN bags'
       PROVE  /\ Injective(bags'[r])
              /\ Disjoint(bags'[r], lostObjects') /\ Disjoint(bags'[r], disappearing')
              /\ \A q \in DOMAIN bags' \ {r} : Disjoint(bags'[r], bags'[q])
    BY <1>9 DEF Injective, Disjoint, Range
<1>11. Disjoint(lostObjects', disappearing')
    BY <1>8 DEF Disjoint, Range
<1> QED BY <1>6, <1>7, <1>10, <1>11 DEF ObjectsHeldOnce, Injective, Disjoint, Range

\* A state that is applied keeps the invariant of what is drawn.
LEMMA StateKeepsDrawn ==
    ASSUME DrawnInv, NEW snapshot \in Snapshots, NEW listed, Listing(listed),
           NEW shownScene \in SUBSET Objects, ApplyDesiredState(snapshot, listed, shownScene)
    PROVE  DrawnInv'
<1>1. PICK newData, created : AppliedWith(snapshot, listed, shownScene, newData, created)
    BY Applied
<1>2. /\ current' \in Partial(Players, Refs)
      /\ players' \in Partial(Players, Refs \cup {NoData})
      /\ Apart(current', players')
    <2>1. /\ FreshData(snapshot, listed, newData)
          /\ current' = [p \in snapshot.inGame |->
                    IF p \in DOMAIN current THEN current[p] ELSE newData[p]]
          /\ players' = [p \in DOMAIN listed |->
                    IF p \in NewPlayers(snapshot) THEN newData[p] ELSE listed[p]]
        BY <1>1 DEF AppliedWith
    <2> QED BY <2>1, FreshDataIsApart, Zenon
<1> USE DEF AppliedWith
<1>3. TablesShareBags'
    BY StateAgrees DEF Listing
<1>4. ObjectsHeldOnce'
    BY <1>1, ObjectsStayApart
<1>5. /\ DOMAIN lostObjects' = OnMap(snapshot)
      /\ \A p \in snapshot.inGame : DOMAIN bags'[current'[p]] = CarriedBy(snapshot, p)
    BY <1>1, WhereObjectsComeFrom
<1>6. LootInOnePlace'
    BY <1>1, <1>5, LootIsSomewhere DEF LootInOnePlace
<1>7. /\ \A l \in NewLoot(snapshot) : created[l] \in Objects
      /\ created = [l \in NewLoot(snapshot) |-> created[l]]
    BY <1>1, NewObjectsAreNew
<1>8. /\ \A l \in DOMAIN lostObjects : lostObjects[l] \in Objects
      /\ \A l \in DOMAIN disappearing : l \in Loots /\ disappearing[l] \in Objects
      /\ DOMAIN lostObjects \subseteq Loots
    BY PartialValues DEF DrawnInv, DrawnTyped
<1>9. ASSUME NEW r \in DOMAIN bags
      PROVE  /\ bags[r] \in Partial(Loots, Objects)
             /\ DOMAIN bags[r] \subseteq Loots
             /\ \A l \in DOMAIN bags[r] : bags[r][l] \in Objects
    <2>1. bags[r] \in Partial(Loots, Objects)
        BY PartialValues DEF DrawnInv, DrawnTyped
    <2> QED BY <2>1, PartialValues
<1>10. ASSUME NEW l \in Loots, l \in DOMAIN lostObjects \/ l \in NewLoot(snapshot)
       PROVE  ObjectOf(l, created) \in Objects
    BY <1>7, <1>8, <1>10 DEF ObjectOf
<1>11. lostObjects' \in Partial(Loots, Objects)
    <2>1. lostObjects' = [l \in OnMap(snapshot) |-> ObjectOf(l, created)]
        BY <1>1
    <2>2. \A l \in OnMap(snapshot) : l \in Loots /\ ObjectOf(l, created) \in Objects
        BY <1>10 DEF OnMap, NewLoot
    <2> QED BY <2>1, <2>2, PartialFunction
<1>12. disappearing' \in Partial(Loots, Objects)
    <2>1. disappearing' = [l \in DOMAIN disappearing' |-> disappearing'[l]]
        BY <1>1
    <2>2. ASSUME NEW l \in DOMAIN disappearing'
          PROVE  l \in Loots /\ disappearing'[l] \in Objects
        <3>1. \/ /\ l \in AbandonedBy(snapshot) \ AttachedBy(snapshot)
                 /\ disappearing'[l] = lostObjects[l]
              \/ \E p \in snapshot.inGame \cap DOMAIN current :
                  /\ l \in DOMAIN bags[current[p]] \ CarriedBy(snapshot, p)
                  /\ current'[p] = current[p] /\ current[p] \in DOMAIN bags
                  /\ disappearing'[l] = bags[current[p]][l]
              \/ l \in DOMAIN disappearing /\ disappearing'[l] = disappearing[l]
            <4> HIDE DEF AppliedWith
            <4> QED BY <1>1, <2>2, WhereObjectsComeFrom
        <3> HIDE DEF AppliedWith
        <3> QED BY <1>8, <1>9, <3>1 DEF AbandonedBy
    <2> QED BY <2>1, <2>2, PartialFunction
<1>13. bags' \in Partial(Refs, Partial(Loots, Objects))
    <2>1. bags' = [r \in DOMAIN bags' |-> bags'[r]] /\ DOMAIN bags' = DataInUse(current', players')
        BY <1>1
    <2>2. \A r \in DOMAIN bags' : \A l \in DOMAIN bags'[r] :
            InBag(snapshot, created, r, l, bags'[r][l])
        <3> HIDE DEF AppliedWith
        <3> QED BY <1>1, WhereObjectsComeFrom
    <2>3. \A r \in DOMAIN bags' : r \in Refs
        <3>1. /\ \A p \in DOMAIN current' : current'[p] \in Refs
              /\ \A p \in DOMAIN players' : players'[p] \in Refs \cup {NoData}
            BY <1>2, PartialValues
        <3> HIDE DEF AppliedWith
        <3> QED BY <2>1, <3>1 DEF DataInUse, Range
    <2>4. ASSUME NEW r \in DOMAIN bags' PROVE bags'[r] \in Partial(Loots, Objects)
        <3>1. CASE r \in Range(current')
            <4>1. PICK p \in snapshot.inGame : r = current'[p]
                BY <1>1, <3>1 DEF Range
            <4>2. /\ bags'[r] = [l \in DOMAIN bags'[r] |-> bags'[r][l]]
                  /\ DOMAIN bags'[r] = CarriedBy(snapshot, p)
                BY <1>1, <4>1
            <4> HIDE DEF AppliedWith
            <4>3. \A l \in CarriedBy(snapshot, p) : bags'[r][l] \in Objects
                BY <1>7, <1>8, <1>9, <2>2, <4>2 DEF InBag
            <4> QED BY <4>2, <4>3, PartialFunction DEF CarriedBy
        <3>2. CASE r \notin Range(current')
            <4>1. bags'[r] = bags[r] /\ r \in Range(players')
                BY <1>1, <2>4, <3>2 DEF DataInUse
            <4>2. PICK q \in DOMAIN listed : r = players'[q]
                BY <1>1, <4>1 DEF Range
            <4>3. r = listed[q]
                BY <1>1, <3>2, <4>2 DEF NewPlayers, Range
            <4> HIDE DEF AppliedWith
            <4>4. r \in DOMAIN bags
                BY <2>1, <2>4, <4>3 DEF Listing, Range, DataInUse
            <4> QED BY <1>9, <4>1, <4>4
        <3> QED BY <3>1, <3>2
    <2> HIDE DEF AppliedWith
    <2> QED BY <2>1, <2>3, <2>4, PartialFunction
<1>14. scene' \subseteq Objects
    BY <1>1, <1>7 DEF Range
<1>15. DrawnTyped'
    BY <1>2, <1>11, <1>12, <1>13, <1>14 DEF DrawnTyped
<1>16. Apart(current, players)' /\ (DOMAIN bags = DataInUse(current, players))'
    BY <1>1, <1>2 DEF Apart, Injective, DataInUse, Range
<1> QED BY <1>3, <1>4, <1>6, <1>15, <1>16 DEF DrawnInv

\* Between answers, what is drawn changes by loot that has been disappearing long enough.
LEMMA TickKeepsDrawn ==
    ASSUME DrawnInv, ProcessDisappearingLoot, UNCHANGED <<current, players, bags, lostObjects>>
    PROVE  DrawnInv'
<1>1. PICK over \in SUBSET DOMAIN disappearing :
        /\ disappearing' = Restrict(disappearing, DOMAIN disappearing \ over)
        /\ scene' = scene \ {disappearing[l] : l \in over}
    BY DEF ProcessDisappearingLoot
<1>2. /\ DOMAIN disappearing' \subseteq DOMAIN disappearing
      /\ disappearing' = [l \in DOMAIN disappearing' |-> disappearing'[l]]
      /\ \A l \in DOMAIN disappearing' : disappearing'[l] = disappearing[l]
    BY <1>1 DEF Restrict
<1>3. disappearing' \in Partial(Loots, Objects)
    <2>1. DOMAIN disappearing \subseteq Loots /\ \A l \in DOMAIN disappearing : disappearing[l] \in Objects
        BY PartialValues DEF DrawnInv, DrawnTyped
    <2> QED BY <1>2, <2>1, PartialFunction
<1>4. DrawnTyped'
    BY <1>1, <1>3 DEF DrawnInv, DrawnTyped
<1>5. ObjectsHeldOnce'
    <2>1. Range(disappearing') \subseteq Range(disappearing)
        BY <1>2 DEF Range
    <2>2. Injective(disappearing')
        BY <1>2 DEF DrawnInv, ObjectsHeldOnce, Injective
    <2> QED BY <2>1, <2>2 DEF DrawnInv, ObjectsHeldOnce, Injective, Disjoint
<1> QED BY <1>4, <1>5 DEF DrawnInv, TablesShareBags, Apart, Injective, DataInUse, LootInOnePlace

\* A list that comes alone takes away the bags of the players it no longer names.
LEMMA ListKeepsDrawn ==
    ASSUME DrawnInv, NEW listed, Listing(listed), NEW shownScene \in SUBSET Objects,
           KeepDesiredState(listed, shownScene)
    PROVE  DrawnInv'
<1>1. /\ players' = listed
      /\ bags' = [r \in DataInUse(current, listed) |-> bags[r]]
      /\ scene' = shownScene
      /\ UNCHANGED <<current, lostObjects, disappearing>>
    BY DEF KeepDesiredState, Restrict, DataInUse
<1>2. DOMAIN bags' \subseteq DOMAIN bags /\ \A r \in DOMAIN bags' : bags'[r] = bags[r]
    BY <1>1 DEF DrawnInv, Listing, DataInUse
<1>3. bags' \in Partial(Refs, Partial(Loots, Objects))
    <2>1. /\ DOMAIN bags \subseteq Refs
          /\ \A r \in DOMAIN bags : bags[r] \in Partial(Loots, Objects)
        BY PartialValues DEF DrawnInv, DrawnTyped
    <2>2. bags' = [r \in DOMAIN bags' |-> bags'[r]]
        BY <1>1
    <2> QED BY <1>2, <2>1, <2>2, PartialFunction
<1>4. DrawnTyped'
    BY <1>1, <1>3 DEF DrawnInv, DrawnTyped, Listing
<1>5. TablesShareBags' /\ Apart(current, players)'
    BY <1>1 DEF Listing, Agree, TablesShareBags, Apart, Injective
<1>6. (DOMAIN bags = DataInUse(current, players))'
    BY <1>1 DEF DataInUse
<1>7. \A p \in DOMAIN current : bags'[current[p]] = bags[current[p]]
    <2>1. \A p \in DOMAIN current : current[p] # NoData
        BY PartialValues, ClientAssumption DEF DrawnInv, DrawnTyped
    <2> QED BY <1>1, <2>1 DEF DataInUse, Range
<1>8. LootInOnePlace'
    BY <1>1, <1>7 DEF DrawnInv, LootInOnePlace
<1>9. ObjectsHeldOnce'
    <2>1. ObjectsHeldOnce
        BY DEF DrawnInv
    <2>2. Injective(lostObjects') /\ Injective(disappearing') /\ Disjoint(lostObjects', disappearing')
        BY <1>1, <2>1 DEF ObjectsHeldOnce
    <2>3. ASSUME NEW r \in DOMAIN bags'
          PROVE  /\ Injective(bags'[r])
                 /\ Disjoint(bags'[r], lostObjects') /\ Disjoint(bags'[r], disappearing')
                 /\ \A q \in DOMAIN bags' \ {r} : Disjoint(bags'[r], bags'[q])
        BY <1>1, <1>2, <2>1 DEF ObjectsHeldOnce
    <2> QED BY <2>2, <2>3 DEF ObjectsHeldOnce, Injective, Disjoint
<1> QED BY <1>4, <1>5, <1>6, <1>8, <1>9 DEF DrawnInv

-----------------------------------------------------------------------------
(* Types.                                                                  *)

\* The types by those who change them, with two facts that keep them: no more actions are
\* under way than the scenario has, and the state that was loaded is kept.
ServerTyped ==
    /\ bounds \in Scenarios
    /\ life \in [Players -> {"new", "in", "left"}]
    /\ place \in [Loots -> Places]
    /\ dir \in Keys \cup {"", "spawn"}

MessagesTyped ==
    /\ requests \in [Kinds -> Nat]
    /\ \A kind \in Kinds : requests[kind] <= bounds.polls[kind]
    /\ answers \in [Kinds -> Seq(Answers)]
    /\ actions \in Seq(Actions)
    /\ acks \in Nat /\ Len(actions) + acks <= bounds.presses
    /\ failures \in 0 .. bounds.failures

PageTyped ==
    /\ page \in {"loading", "game", "records"}
    /\ loadedActor \in BOOLEAN
    /\ objectsToLoad \in 0 .. LootTypes
    /\ ticks \in 0 .. (PlayersUpdateInterval - 1)
    /\ requestInstantUpdate \in BOOLEAN
    /\ pressedKeys \in Seq(Keys)

StoryTyped ==
    /\ {stateLoaded, playersLoaded, started, disagreed, actionOvertaken} \subseteq BOOLEAN
    /\ desired \in Snapshots \cup {NoState}
    /\ stateLoaded => desired \in Snapshots

ClientInv == ServerTyped /\ MessagesTyped /\ PageTyped /\ StoryTyped /\ DrawnInv

LEMMA ScenarioBounds ==
    ASSUME bounds \in Scenarios
    PROVE  /\ bounds.presses \in Nat /\ bounds.failures \in Nat
           /\ \A kind \in Kinds : bounds.polls[kind] \in Nat \ {0}
           /\ bounds.keys \subseteq Keys
BY ClientAssumption DEF Kinds

LEMMA ClientIsTyped ==
    ASSUME ClientInv
    PROVE  TypeOK
<1>1. bounds.presses \in Nat
    BY ScenarioBounds DEF ClientInv, ServerTyped
<1>2. Len(actions) \in Nat
    BY LenProperties DEF ClientInv, MessagesTyped
<1>3. acks \in 0 .. bounds.presses
    BY <1>1, <1>2 DEF ClientInv, MessagesTyped
<1> QED BY <1>3 DEF ClientInv, ServerTyped, MessagesTyped, PageTyped, StoryTyped, DrawnInv,
            DrawnTyped, TypeOK

LEMMA DrawnStays ==
    ASSUME DrawnInv, UNCHANGED drawn
    PROVE  DrawnInv'
BY DEF drawn, DrawnInv, DrawnTyped, TablesShareBags, Apart, Injective, DataInUse,
       LootInOnePlace, ObjectsHeldOnce, Disjoint

LEMMA PageStays ==
    ASSUME ClientInv, UnchangedPage, actionOvertaken' \in BOOLEAN, UNCHANGED disagreed
    PROVE  PageTyped' /\ StoryTyped' /\ DrawnInv' /\ UNCHANGED bounds
<1>1. UNCHANGED <<bounds, page, loading, polling, startup, pressedKeys, desired, drawn>>
    BY DEF UnchangedPage
<1> QED BY <1>1, DrawnStays DEF loading, polling, startup, PageTyped, StoryTyped, ClientInv

LEMMA ServerKeepsTypes ==
    ASSUME ClientInv, Server
    PROVE  ClientInv'
<1>1. ASSUME UNCHANGED <<requests, answers, actions, acks, failures, bounds>>
      PROVE  MessagesTyped'
    BY <1>1 DEF ClientInv, MessagesTyped
<1>2. ASSUME NEW p \in Players, Join(p) PROVE ClientInv'
    <2>1. ServerTyped' /\ MessagesTyped'
        BY <1>1, <1>2 DEF Join, ClientInv, ServerTyped, UnchangedPage, network
    <2> QED BY <1>2, <2>1, PageStays DEF Join, ClientInv, history, StoryTyped
<1>3. ASSUME NEW l \in Loots, MoveLoot(l) PROVE ClientInv'
    <2>1. place' \in [Loots -> Places]
        BY <1>3 DEF MoveLoot, ClientInv, ServerTyped
    <2>2. ServerTyped' /\ MessagesTyped'
        BY <1>1, <1>3, <2>1 DEF MoveLoot, ClientInv, ServerTyped, UnchangedPage, network
    <2> QED BY <1>3, <2>2, PageStays DEF MoveLoot, ClientInv, history, StoryTyped
<1>4. ASSUME NEW p \in Players, Retire(p) PROVE ClientInv'
    <2>1. place' \in [Loots -> Places]
        BY <1>4 DEF Retire, ClientInv, ServerTyped, Places
    <2>2. ServerTyped' /\ MessagesTyped'
        BY <1>1, <1>4, <2>1 DEF Retire, ClientInv, ServerTyped, UnchangedPage, network
    <2> QED BY <1>4, <2>2, PageStays DEF Retire, ClientInv, history, StoryTyped
<1>5. ASSUME NEW kind \in Kinds, Serve(kind) PROVE ClientInv'
    <2> DEFINE answer == [late |-> FALSE,
             told |-> [inGame |-> IF Me \in inGame THEN inGame ELSE {},
                       place |-> IF kind = "state" /\ Me \in inGame THEN place
                                 ELSE NotListed]]
    <2>1. answer \in Answers
        <3>1. inGame \subseteq Players
            BY DEF inGame
        <3>2. NotListed \in [Loots -> Places] /\ place \in [Loots -> Places]
            BY DEF NotListed, Places, ClientInv, ServerTyped
        <3> QED BY <3>1, <3>2 DEF Answers, Snapshots
    <2>2. answers' \in [Kinds -> Seq(Answers)]
        <3> HIDE DEF answer
        <3>1. answers' = [answers EXCEPT ![kind] = Append(@, answer)]
            BY <1>5 DEF Serve, answer
        <3>2. answers \in [Kinds -> Seq(Answers)]
            BY DEF ClientInv, MessagesTyped
        <3>3. Append(answers[kind], answer) \in Seq(Answers)
            BY <2>1, <3>2, AppendProperties
        <3> QED BY <3>1, <3>2, <3>3
    <2>3. UNCHANGED <<world, actions, acks, failures, history>> /\ UnchangedPage
        BY <1>5 DEF Serve
    <2>4. /\ requests' \in [Kinds -> Nat]
          /\ \A k \in Kinds : requests'[k] <= bounds.polls[k]
        <3>1. /\ requests \in [Kinds -> Nat]
              /\ \A k \in Kinds : requests[k] <= bounds.polls[k]
              /\ \A k \in Kinds : bounds.polls[k] \in Nat
            BY ScenarioBounds DEF ClientInv, MessagesTyped, ServerTyped
        <3>2. requests' = [requests EXCEPT ![kind] = @ - 1] /\ requests[kind] > 0
            BY <1>5 DEF Serve
        <3> QED BY <3>1, <3>2
    <2>5. MessagesTyped'
        BY <2>2, <2>3, <2>4 DEF ClientInv, MessagesTyped, UnchangedPage
    <2>6. ServerTyped'
        BY <2>3 DEF ClientInv, ServerTyped, world, UnchangedPage
    <2> QED BY <2>3, <2>5, <2>6, PageStays DEF ClientInv, history, StoryTyped
<1>6. ASSUME NEW i \in DOMAIN actions, ServeAction(i) PROVE ClientInv'
    <2>1. /\ actions \in Seq(Actions) /\ acks \in Nat
          /\ Len(actions) + acks <= bounds.presses
          /\ bounds.presses \in Nat
        BY ScenarioBounds DEF ClientInv, MessagesTyped, ServerTyped
    <2>2. i \in 1 .. Len(actions) /\ Len(actions) \in Nat /\ actions[i] \in Actions
        BY <2>1, LenProperties, ElementOfSeq
    <2>3. \A x \in Actions : [x EXCEPT !.late = TRUE] \in Actions
        BY DEF Actions
    <2>4. Without(actions, i) \in Seq(Actions) /\ Len(Without(actions, i)) = Len(actions) - 1
        BY <2>1, <2>2, <2>3, WithoutProperties
    <2>5. /\ actions' = Without(actions, i)
          /\ actionOvertaken' \in BOOLEAN
          /\ (dir' = actions[i].move /\ acks' = acks + 1) \/ UNCHANGED <<dir, acks>>
          /\ UNCHANGED <<life, place, requests, answers, failures, disagreed>>
          /\ UnchangedPage
        BY <1>6 DEF ServeAction
    <2>6. UNCHANGED bounds
        BY <2>5 DEF UnchangedPage
    <2>7. acks' \in Nat /\ Len(actions') + acks' <= bounds.presses
        BY <2>1, <2>2, <2>4, <2>5
    <2>8. MessagesTyped'
        BY <2>4, <2>5, <2>6, <2>7 DEF ClientInv, MessagesTyped
    <2>9. ServerTyped'
        BY <2>2, <2>5, <2>6 DEF ClientInv, ServerTyped, Actions
    <2> QED BY <2>5, <2>8, <2>9, PageStays DEF ClientInv
<1> QED BY <1>2, <1>3, <1>4, <1>5, <1>6 DEF Server

LEMMA NetworkKeepsTypes ==
    ASSUME ClientInv, Network
    PROVE  ClientInv'
<1>1. bounds.failures \in Nat /\ failures \in 0 .. bounds.failures
    BY ScenarioBounds DEF ClientInv, MessagesTyped, ServerTyped
<1>2. ASSUME NEW kind \in Kinds, NEW i \in DOMAIN answers[kind], AnswerFails(kind, i)
      PROVE  ClientInv'
    <2>1. /\ failures' = failures + 1 /\ failures < bounds.failures
          /\ answers' = [answers EXCEPT ![kind] = RemoveAt(@, i)]
          /\ UNCHANGED <<world, requests, actions, acks, history>> /\ UnchangedPage
        BY <1>2 DEF AnswerFails
    <2>2. answers \in [Kinds -> Seq(Answers)]
        BY DEF ClientInv, MessagesTyped
    <2>3. RemoveAt(answers[kind], i) \in Seq(Answers)
        <3>1. i \in 1 .. Len(answers[kind])
            BY <2>2, LenProperties
        <3> QED BY <2>2, <3>1, RemoveAtProperties
    <2>4. answers' \in [Kinds -> Seq(Answers)]
        BY <2>1, <2>2, <2>3
    <2>5. MessagesTyped'
        BY <1>1, <2>1, <2>4 DEF ClientInv, MessagesTyped, UnchangedPage
    <2>6. ServerTyped'
        BY <2>1 DEF ClientInv, ServerTyped, world, UnchangedPage
    <2> QED BY <2>1, <2>5, <2>6, PageStays DEF ClientInv, history, StoryTyped
<1>3. ASSUME NEW i \in DOMAIN actions, ActionFails(i)
      PROVE  ClientInv'
    <2>1. /\ failures' = failures + 1 /\ failures < bounds.failures
          /\ actions' = RemoveAt(actions, i)
          /\ UNCHANGED <<world, requests, answers, acks, history>> /\ UnchangedPage
        BY <1>3 DEF ActionFails
    <2>2. /\ actions \in Seq(Actions) /\ acks \in Nat /\ bounds.presses \in Nat
          /\ Len(actions) + acks <= bounds.presses
        BY ScenarioBounds DEF ClientInv, MessagesTyped, ServerTyped
    <2>3. i \in 1 .. Len(actions) /\ Len(actions) \in Nat
        BY <2>2, LenProperties
    <2>4. RemoveAt(actions, i) \in Seq(Actions) /\ Len(RemoveAt(actions, i)) = Len(actions) - 1
        BY <2>2, <2>3, RemoveAtProperties
    <2>5. Len(actions') + acks' <= bounds.presses
        BY <2>1, <2>2, <2>3, <2>4
    <2>6. MessagesTyped'
        BY <1>1, <2>1, <2>4, <2>5 DEF ClientInv, MessagesTyped, UnchangedPage
    <2>7. ServerTyped'
        BY <2>1 DEF ClientInv, ServerTyped, world, UnchangedPage
    <2> QED BY <2>1, <2>6, <2>7, PageStays DEF ClientInv, history, StoryTyped
<1> QED BY <1>2, <1>3 DEF Network

\* Loading, frames and keys.
LEMMA PageKeepsTypes ==
    ASSUME ClientInv,
           \/ LoadActor \/ LoadLootType \/ NewGameState \/ Tick \/ ActionDone
           \/ \E key \in Keys : KeyDown(key) \/ KeyUp(key)
    PROVE  ClientInv'
<1> USE DEF ClientInv
<1>1. /\ {LootTypes, PosUpdateInterval, PlayersUpdateInterval} \subseteq Nat \ {0}
      /\ bounds.presses \in Nat
      /\ \A kind \in Kinds : bounds.polls[kind] \in Nat \ {0}
    BY ClientAssumption, ScenarioBounds DEF ServerTyped
<1>2. ticks \in Nat /\ NextTick \in 0 .. (PlayersUpdateInterval - 1)
    BY <1>1 DEF PageTyped, NextTick
<1>3. ASSUME UNCHANGED <<bounds, world>> PROVE ServerTyped'
    BY <1>3 DEF ServerTyped, world
<1>4. ASSUME UNCHANGED <<startup, desired, history>> PROVE StoryTyped'
    BY <1>4 DEF StoryTyped, startup, history
<1>5. ASSUME UNCHANGED <<bounds, network>> PROVE MessagesTyped'
    BY <1>5 DEF MessagesTyped, network
<1>6. CASE LoadActor
    <2>1. PageTyped'
        BY <1>6 DEF LoadActor, PageTyped, polling
    <2> QED BY <1>3, <1>4, <1>5, <1>6, <2>1, DrawnStays DEF LoadActor
<1>7. CASE LoadLootType
    <2>1. PageTyped'
        BY <1>1, <1>7 DEF LoadLootType, PageTyped, polling
    <2> QED BY <1>3, <1>4, <1>5, <1>7, <2>1, DrawnStays DEF LoadLootType
<1>8. CASE NewGameState
    <2>1. PageTyped'
        BY <1>2, <1>8 DEF NewGameState, PageTyped, loading
    <2>2. MessagesTyped'
        <3>1. \A kind \in Kinds : 1 <= bounds.polls[kind]
            BY <1>1
        <3> QED BY <1>8, <3>1 DEF NewGameState, MessagesTyped
    <2> QED BY <1>3, <1>4, <1>8, <2>1, <2>2, DrawnStays DEF NewGameState
<1>9. CASE Tick
    <2>1. /\ ticks' = NextTick
          /\ UNCHANGED <<bounds, world, answers, actions, acks, failures, page, loading,
                   startup, pressedKeys, desired, current, players, bags,
                   lostObjects, history>>
        BY <1>9 DEF Tick
    <2>2. CASE ~started
        <3>1. UNCHANGED <<requests, requestInstantUpdate, disappearing, scene>>
            BY <1>9, <2>2 DEF Tick
        <3>2. PageTyped'
            BY <1>2, <2>1, <3>1 DEF PageTyped, loading
        <3>3. DrawnInv'
            BY <2>1, <3>1, DrawnStays DEF drawn
        <3>4. MessagesTyped'
            BY <2>1, <3>1 DEF MessagesTyped
        <3> QED BY <1>3, <1>4, <2>1, <3>2, <3>3, <3>4
    <2>3. CASE started
        <3>1. /\ \A kind \in Kinds : IsDue(kind) => InFlight(kind) < bounds.polls[kind]
              /\ requests' = [kind \in Kinds |->
                    IF IsDue(kind) THEN requests[kind] + 1 ELSE requests[kind]]
              /\ requestInstantUpdate' = FALSE
              /\ ProcessDisappearingLoot
            BY <1>9, <2>3 DEF Tick
        <3>2. PageTyped'
            BY <1>2, <2>1, <3>1 DEF PageTyped, loading
        <3>3. DrawnInv'
            BY <2>1, <3>1, TickKeepsDrawn
        <3>4. ASSUME NEW kind \in Kinds
              PROVE  requests'[kind] \in Nat /\ requests'[kind] <= bounds.polls[kind]
            <4>1. /\ requests[kind] \in Nat /\ requests[kind] <= bounds.polls[kind]
                  /\ Len(answers[kind]) \in Nat
                BY LenProperties DEF MessagesTyped
            <4>2. requests'[kind] = IF IsDue(kind) THEN requests[kind] + 1 ELSE requests[kind]
                BY <3>1
            <4>3. IsDue(kind) => requests[kind] + Len(answers[kind]) < bounds.polls[kind]
                BY <3>1 DEF InFlight
            <4> QED BY <1>1, <4>1, <4>2, <4>3
        <3>5. requests' \in [Kinds -> Nat]
            BY <3>1, <3>4
        <3>6. MessagesTyped'
            BY <2>1, <3>4, <3>5 DEF MessagesTyped
        <3> QED BY <1>3, <1>4, <2>1, <3>2, <3>3, <3>6
    <2> QED BY <2>2, <2>3
<1>10. CASE ActionDone
    <2>1. PageTyped'
        BY <1>10 DEF ActionDone, PageTyped, loading
    <2>2. MessagesTyped'
        <3>1. Len(actions) \in Nat /\ acks \in Nat /\ Len(actions) + acks <= bounds.presses
            BY LenProperties DEF MessagesTyped
        <3>2. acks' = acks - 1 /\ acks > 0 /\ UNCHANGED <<bounds, requests, answers, actions, failures>>
            BY <1>10 DEF ActionDone
        <3>3. acks' \in Nat /\ Len(actions') + acks' <= bounds.presses
            BY <1>1, <3>1, <3>2
        <3> QED BY <3>2, <3>3 DEF MessagesTyped
    <2> QED BY <1>3, <1>4, <1>10, <2>1, <2>2, DrawnStays DEF ActionDone
<1>11. ASSUME NEW keys \in Seq(Keys), PressKey(keys) PROVE ClientInv'
    <2>1. PageTyped'
        BY <1>11 DEF PressKey, PageTyped, loading, polling
    <2>2. MessagesTyped'
        <3> DEFINE action == [move |-> GetLastKey(keys), late |-> FALSE]
        <3>1. action \in Actions
            <4>1. GetLastKey(keys) \in Keys \cup {""}
                <5>1. keys # <<>> => Len(keys) \in 1 .. Len(keys)
                    BY EmptySeq, LenProperties
                <5> QED BY <5>1, ElementOfSeq DEF GetLastKey
            <4> QED BY <4>1 DEF Actions
        <3> HIDE DEF action
        <3>2. /\ Len(actions) + acks < bounds.presses
              /\ actions' = Append(actions, action)
              /\ UNCHANGED <<bounds, requests, answers, acks, failures>>
            BY <1>11 DEF PressKey, action
        <3>3. actions' \in Seq(Actions) /\ Len(actions') = Len(actions) + 1 /\ Len(actions) \in Nat
            BY <3>1, <3>2, AppendProperties, LenProperties DEF MessagesTyped
        <3>4. Len(actions') + acks' <= bounds.presses
            BY <1>1, <3>2, <3>3 DEF MessagesTyped
        <3> QED BY <3>2, <3>3, <3>4 DEF MessagesTyped
    <2> QED BY <1>3, <1>4, <1>11, <2>1, <2>2, DrawnStays DEF PressKey
<1>12. ASSUME NEW key \in Keys, KeyDown(key) \/ KeyUp(key) PROVE ClientInv'
    <2>1. pressedKeys \in Seq(Keys)
        BY DEF PageTyped
    <2>2. Append(pressedKeys, key) \in Seq(Keys)
        BY <2>1, AppendProperties
    <2>3. \A i \in DOMAIN pressedKeys : RemoveAt(pressedKeys, i) \in Seq(Keys)
        BY <2>1, RemoveAtProperties, LenProperties
    <2> QED BY <1>11, <1>12, <2>2, <2>3 DEF KeyDown, KeyUp
<1> QED BY <1>6, <1>7, <1>8, <1>9, <1>10, <1>12

\* Answers.
LEMMA TakeKeepsTypes ==
    ASSUME ClientInv, NEW kind \in Kinds, NEW i, Take(kind, i)
    PROVE  /\ ServerTyped' /\ MessagesTyped'
           /\ page' \in {"loading", "game", "records"} => PageTyped'
           /\ answers[kind][i].told \in Snapshots
           /\ UNCHANGED actionOvertaken
<1>1. /\ i \in DOMAIN answers[kind]
      /\ answers' = [answers EXCEPT ![kind] = Without(@, i)]
      /\ UNCHANGED <<bounds, world, requests, actions, acks, failures, loading, polling,
                   pressedKeys, actionOvertaken>>
    BY DEF Take
<1>2. answers \in [Kinds -> Seq(Answers)]
    BY DEF ClientInv, MessagesTyped
<1>3. i \in 1 .. Len(answers[kind]) /\ answers[kind][i] \in Answers
    BY <1>1, <1>2, LenProperties, ElementOfSeq
<1>4. \A x \in Answers : [x EXCEPT !.late = TRUE] \in Answers
    BY DEF Answers
<1>5. Without(answers[kind], i) \in Seq(Answers)
    BY <1>2, <1>3, <1>4, WithoutProperties
<1>6. answers' \in [Kinds -> Seq(Answers)]
    BY <1>1, <1>2, <1>5
<1>7. MessagesTyped'
    BY <1>1, <1>6 DEF ClientInv, MessagesTyped
<1>8. ServerTyped'
    BY <1>1 DEF ClientInv, ServerTyped, world
<1>9. page' \in {"loading", "game", "records"} => PageTyped'
    BY <1>1 DEF ClientInv, PageTyped, loading, polling
<1>10. answers[kind][i].told \in Snapshots
    BY <1>3 DEF Answers
<1> QED BY <1>1, <1>7, <1>8, <1>9, <1>10

LEMMA StateArrivesKeepsTypes ==
    ASSUME ClientInv, NEW i, StateArrives(i)
    PROVE  ClientInv'
<1>1. /\ ServerTyped' /\ MessagesTyped' /\ PageTyped'
      /\ answers["state"][i].told \in Snapshots /\ UNCHANGED actionOvertaken
    <2>1. Take("state", i) /\ UNCHANGED page
        BY DEF StateArrives
    <2> QED BY <2>1, TakeKeepsTypes DEF Kinds, ClientInv, PageTyped
<1>2. /\ desired' = answers["state"][i].told
      /\ stateLoaded' = TRUE /\ UNCHANGED playersLoaded
      /\ started' = (TRUE /\ playersLoaded)
      /\ IF started' THEN ApplyDesiredState(desired', players, scene) ELSE UNCHANGED drawn
      /\ disagreed' = (disagreed \/ Disagrees("state", answers["state"][i]))
    BY DEF StateArrives, StartGame
<1>3. StoryTyped'
    BY <1>1, <1>2 DEF ClientInv, StoryTyped
<1>4. DrawnInv'
    <2>1. CASE started'
        <3>1. scene \in SUBSET Objects /\ Listing(players)
            BY PlayersAreListing DEF ClientInv, DrawnInv, DrawnTyped
        <3>2. ApplyDesiredState(desired', players, scene) /\ desired' \in Snapshots
            BY <1>1, <1>2, <2>1
        <3> QED BY <3>1, <3>2, StateKeepsDrawn DEF ClientInv
    <2>2. CASE ~started'
        BY <1>2, <2>2, DrawnStays DEF ClientInv
    <2> QED BY <2>1, <2>2
<1> QED BY <1>1, <1>3, <1>4 DEF ClientInv

LEMMA PlayersArriveKeepsTypes ==
    ASSUME ClientInv, NEW i, PlayersArrive(i)
    PROVE  ClientInv'
<1> DEFINE told == answers["players"][i].told
           listed == Listed(told)
           shownScene == SceneAfterList(told)
<1>1. /\ ServerTyped' /\ MessagesTyped' /\ PageTyped'
      /\ told \in Snapshots /\ UNCHANGED actionOvertaken
    <2>1. Take("players", i) /\ UNCHANGED page
        BY DEF PlayersArrive
    <2> QED BY <2>1, TakeKeepsTypes DEF Kinds, ClientInv, PageTyped
<1>2. /\ UNCHANGED <<desired, stateLoaded>> /\ playersLoaded' = TRUE
      /\ started' = (stateLoaded /\ TRUE)
      /\ IF started' /\ ~started
         THEN ApplyDesiredState(desired, listed, shownScene)
         ELSE KeepDesiredState(listed, shownScene)
      /\ disagreed' = (disagreed \/ Disagrees("players", answers["players"][i]))
    BY DEF PlayersArrive, StartGame
<1>3. StoryTyped'
    BY <1>2, <1>1 DEF ClientInv, StoryTyped
<1>4. DrawnInv'
    <2>1. Listing(listed)
        BY <1>1, ListIsListing DEF ClientInv
    <2>2. shownScene \in SUBSET Objects
        BY DEF SceneAfterList, ClientInv, DrawnInv, DrawnTyped
    <2> HIDE DEF told, listed, shownScene
    <2>3. CASE started' /\ ~started
        <3>1. desired \in Snapshots
            BY <1>2, <2>3 DEF ClientInv, StoryTyped
        <3> QED BY <1>2, <2>1, <2>2, <2>3, <3>1, StateKeepsDrawn DEF ClientInv
    <2>4. CASE ~(started' /\ ~started)
        BY <1>2, <2>1, <2>2, <2>4, ListKeepsDrawn DEF ClientInv
    <2> QED BY <2>3, <2>4
<1> QED BY <1>1, <1>3, <1>4 DEF ClientInv

LEMMA RefusedKeepsTypes ==
    ASSUME ClientInv, NEW kind \in Kinds, NEW i, Refused(kind, i)
    PROVE  ClientInv'
<1>1. /\ Take(kind, i)
      /\ page' = IF kind = "players" THEN "records" ELSE page
      /\ UNCHANGED <<startup, desired, drawn, disagreed>>
    BY DEF Refused
<1>2. ServerTyped' /\ MessagesTyped' /\ PageTyped' /\ UNCHANGED actionOvertaken
    BY <1>1, TakeKeepsTypes DEF ClientInv, PageTyped
<1>3. StoryTyped'
    BY <1>1, <1>2 DEF ClientInv, StoryTyped, startup
<1> QED BY <1>1, <1>2, <1>3, DrawnStays DEF ClientInv

LEMMA StepKeepsTypes ==
    ASSUME ClientInv, [Next]_vars
    PROVE  ClientInv'
<1>1. CASE Browser
    <2>1. "state" \in Kinds /\ "players" \in Kinds
        BY DEF Kinds
    <2> QED BY <1>1, <2>1, PageKeepsTypes, StateArrivesKeepsTypes, PlayersArriveKeepsTypes,
               RefusedKeepsTypes DEF Browser
<1>2. CASE UNCHANGED vars
    <2>1. UNCHANGED <<bounds, world, network, page, loading, polling, startup, pressedKeys,
                      desired, drawn, history>>
        BY <1>2 DEF vars
    <2> QED BY <2>1, DrawnStays DEF ClientInv, ServerTyped, MessagesTyped, PageTyped, StoryTyped,
                world, network, loading, polling, startup, history
<1> QED BY <1>1, <1>2, ServerKeepsTypes, NetworkKeepsTypes DEF Next

LEMMA InitIsTyped ==
    ASSUME Init
    PROVE  ClientInv
<1> USE DEF Init
<1>1. /\ LootTypes \in Nat /\ PlayersUpdateInterval \in Nat \ {0}
      /\ bounds.presses \in Nat /\ bounds.failures \in Nat
      /\ \A kind \in Kinds : bounds.polls[kind] \in Nat
    BY ClientAssumption, ScenarioBounds
<1>2. ServerTyped
    BY DEF ServerTyped, NotListed, Places
<1>3. MessagesTyped
    <2>1. answers \in [Kinds -> Seq(Answers)] /\ actions \in Seq(Actions) /\ Len(actions) = 0
        BY EmptySeq
    <2> QED BY <1>1, <2>1 DEF MessagesTyped
<1>4. PageTyped
    <2>1. pressedKeys \in Seq(Keys)
        BY EmptySeq
    <2>2. objectsToLoad \in 0 .. LootTypes /\ ticks \in 0 .. (PlayersUpdateInterval - 1)
        BY <1>1
    <2>3. /\ page \in {"loading", "game", "records"}
          /\ loadedActor \in BOOLEAN /\ requestInstantUpdate \in BOOLEAN
        OBVIOUS
    <2> QED BY <2>1, <2>2, <2>3 DEF PageTyped
<1>5. StoryTyped
    BY DEF StoryTyped
<1>6. DrawnInv
    <2>1. \A S, T : Empty \in Partial(S, T) /\ DOMAIN Empty = {} /\ Range(Empty) = {}
        BY DEF Empty, Partial, Range
    <2>2. DrawnTyped
        BY <2>1 DEF DrawnTyped
    <2> QED BY <2>1, <2>2 DEF DrawnInv, TablesShareBags, Apart, Injective, DataInUse,
               LootInOnePlace, ObjectsHeldOnce, Disjoint
<1> QED BY <1>2, <1>3, <1>4, <1>5, <1>6 DEF ClientInv

LEMMA ClientInvHolds == Spec => []ClientInv
BY InitIsTyped, StepKeepsTypes, PTL DEF Spec

\* All that the page keeps and all that is under way has its type: tables name players and
\* loot of the session, and no more polls and actions are under way than the scenario has.
THEOREM TypeCorrect == Spec => []TypeOK
BY ClientInvHolds, ClientIsTyped, PTL

\* Whatever the order in which answers arrive, and whatever they say, no object of the
\* scene is in two places: _createLoot, _dropLoot and the tables hand each object on.
THEOREM ObjectsHeldOnceHolds == Spec => []ObjectsHeldOnce
<1>1. ClientInv => ObjectsHeldOnce
    BY DEF ClientInv, DrawnInv
<1> QED BY <1>1, ClientInvHolds, PTL

-----------------------------------------------------------------------------
(* The story the answers tell: what a list of players or a state said once, *)
(* later ones do not take back.                                            *)

\* Answers to polls with a token that was in the game ...
Tells(q) == {i \in DOMAIN q : Me \in q[i].told.inGame}
\* ... that no later one has overtaken.
Told(q) == {i \in Tells(q) : ~q[i].late}

Seen == {p \in Players : life[p] # "new"}
Left == {p \in Players : life[p] = "left"}

\* Overtaken answers come before the others.
LateFirst(q) == \A i, j \in DOMAIN q : i < j /\ q[j].late => q[i].late

\* Players who have been seen leave for good.  Front are the players that the page knows.
PlayersStory(q, front, seen, left) ==
    /\ LateFirst(q)
    /\ front \subseteq seen
    /\ \A i \in Tells(q) : q[i].told.inGame \subseteq seen
    /\ \A i, j \in Tells(q) : i < j => q[i].told.inGame \ q[j].told.inGame \subseteq left
    /\ \A i, j, k \in Tells(q) : i < j /\ j < k =>
        (q[i].told.inGame \ q[j].told.inGame) \cap q[k].told.inGame = {}
    /\ \A i \in Told(q) : front \ q[i].told.inGame \subseteq left
    /\ \A i, j \in Told(q) : i < j =>
        (front \ q[i].told.inGame) \cap q[j].told.inGame = {}

\* A player has left, and no answer to come says otherwise.
GoneFrom(q, left, p) == p \in left /\ \A i \in Told(q) : p \notin q[i].told.inGame

\* Loot lies on the map, is carried by one player, is gone.
Later(before, after) == \A l \in Loots :
    /\ before[l] = "map" => after[l] # "none"
    /\ before[l] \in Players => after[l] \in {before[l], "gone"}
    /\ before[l] = "gone" => after[l] = "gone"

\* Only players in the game carry loot.
Housed(at, members) == \A l \in Loots : at[l] \in Players => at[l] \in members

\* Front is the state the page knows, if it knows one.
LootStory(q, known, front, at, members) ==
    /\ Housed(at, members)
    /\ \A i \in Tells(q) :
        Later(q[i].told.place, at) /\ Housed(q[i].told.place, q[i].told.inGame)
    /\ \A i, j \in Tells(q) : i < j => Later(q[i].told.place, q[j].told.place)
    /\ known =>
        /\ Later(front.place, at) /\ Housed(front.place, front.inGame)
        /\ \A i \in Told(q) : Later(front.place, q[i].told.place)

\* A queue without its i-th member: o says where the others were.  When the i-th was taken,
\* those before it are late.
Thinned(short, q, i, taken, o) ==
    /\ o \in [DOMAIN short -> DOMAIN q]
    /\ \A k \in DOMAIN short :
        /\ o[k] # i
        /\ short[k].told = q[o[k]].told
        /\ short[k].late <=> q[o[k]].late \/ (taken /\ o[k] < i)
        /\ \A j \in DOMAIN short : j < k => o[j] < o[k]

LEMMA QueueThins ==
    ASSUME NEW q \in Seq(Answers), NEW i \in DOMAIN q
    PROVE  /\ \E o : Thinned(Without(q, i), q, i, TRUE, o)
           /\ \E o : Thinned(RemoveAt(q, i), q, i, FALSE, o)
<1> DEFINE n == Len(q)
           o == [k \in 1 .. n - 1 |-> IF k < i THEN k ELSE k + 1]
<1>1. n \in Nat /\ DOMAIN q = 1 .. n /\ i \in 1 .. n /\ n - 1 \in Nat
    BY LenProperties
<1>2. \A k \in 1 .. n : q[k].late \in BOOLEAN /\ [q[k] EXCEPT !.late = TRUE].late
                        /\ [q[k] EXCEPT !.late = TRUE].told = q[k].told
    <2>1. \A k \in 1 .. n : q[k] \in Answers
        BY ElementOfSeq
    <2> QED BY <2>1 DEF Answers
<1>3. \A x \in Answers : [x EXCEPT !.late = TRUE] \in Answers
    BY DEF Answers
<1>4. /\ Without(q, i) \in Seq(Answers) /\ Len(Without(q, i)) = n - 1
      /\ \A k \in 1 .. n - 1 :
            Without(q, i)[k] = IF k < i THEN [q[k] EXCEPT !.late = TRUE] ELSE q[k + 1]
    BY <1>1, <1>3, WithoutProperties
<1>5. /\ RemoveAt(q, i) \in Seq(Answers) /\ Len(RemoveAt(q, i)) = n - 1
      /\ \A k \in 1 .. n - 1 : RemoveAt(q, i)[k] = IF k < i THEN q[k] ELSE q[k + 1]
    BY <1>1, RemoveAtProperties
<1>6. DOMAIN Without(q, i) = 1 .. n - 1 /\ DOMAIN RemoveAt(q, i) = 1 .. n - 1
    BY <1>4, <1>5, LenProperties
<1>7. /\ o \in [1 .. n - 1 -> 1 .. n]
      /\ \A k \in 1 .. n - 1 :
            /\ o[k] = IF k < i THEN k ELSE k + 1
            /\ o[k] # i
            /\ k < i => o[k] < i
            /\ ~(k < i) => ~(o[k] < i)
            /\ \A j \in 1 .. n - 1 : j < k => o[j] < o[k]
    BY <1>1
<1> HIDE DEF n, o
<1>8. ASSUME NEW k \in 1 .. n - 1
      PROVE  /\ Without(q, i)[k].told = q[o[k]].told
             /\ Without(q, i)[k].late <=> q[o[k]].late \/ o[k] < i
             /\ RemoveAt(q, i)[k].told = q[o[k]].told
             /\ RemoveAt(q, i)[k].late <=> q[o[k]].late
    <2>1. CASE k < i
        <3>1. /\ o[k] = k /\ k \in 1 .. n /\ o[k] < i
              /\ Without(q, i)[k] = [q[k] EXCEPT !.late = TRUE]
              /\ RemoveAt(q, i)[k] = q[k]
            BY <1>1, <1>4, <1>5, <1>7, <2>1
        <3> QED BY <1>2, <3>1
    <2>2. CASE ~(k < i)
        <3>1. /\ o[k] = k + 1 /\ ~(o[k] < i)
              /\ Without(q, i)[k] = q[k + 1] /\ RemoveAt(q, i)[k] = q[k + 1]
            BY <1>1, <1>4, <1>5, <1>7, <2>2
        <3> QED BY <3>1
    <2> QED BY <2>1, <2>2
<1> QED BY <1>1, <1>6, <1>7, <1>8 DEF Thinned

LEMMA TellsOfThinned ==
    ASSUME NEW q \in Seq(Answers), NEW i \in DOMAIN q, NEW short, NEW taken \in BOOLEAN, NEW o,
           Thinned(short, q, i, taken, o), LateFirst(q)
    PROVE  /\ LateFirst(short)
           /\ \A k \in Tells(short) :
                o[k] \in Tells(q) /\ o[k] # i /\ short[k].told = q[o[k]].told
           /\ \A k \in Told(short) : o[k] \in Told(q) /\ (taken => i < o[k])
           /\ \A j, k \in DOMAIN short : j < k => o[j] < o[k]
<1>1. \A k \in DOMAIN q : k \in Nat
    BY LenProperties
<1>2. /\ o \in [DOMAIN short -> DOMAIN q]
      /\ \A k \in DOMAIN short :
            /\ o[k] # i
            /\ short[k].told = q[o[k]].told
            /\ short[k].late <=> q[o[k]].late \/ (taken /\ o[k] < i)
            /\ \A j \in DOMAIN short : j < k => o[j] < o[k]
    BY DEF Thinned
<1>3. \A k \in DOMAIN short : o[k] \in Nat /\ o[k] \in DOMAIN q
    BY <1>1, <1>2
<1>4. LateFirst(short)
    <2> SUFFICES ASSUME NEW j \in DOMAIN short, NEW k \in DOMAIN short, j < k, short[k].late
                 PROVE  short[j].late
        BY DEF LateFirst
    <2>1. o[j] < o[k] /\ o[j] \in Nat /\ o[k] \in Nat /\ i \in Nat
        BY <1>1, <1>2, <1>3
    <2>2. CASE q[o[k]].late
        BY <1>2, <1>3, <2>1, <2>2 DEF LateFirst
    <2>3. CASE taken /\ o[k] < i
        BY <1>2, <2>1, <2>3
    <2> QED BY <1>2, <2>2, <2>3
<1>5. ASSUME NEW k \in Tells(short)
      PROVE  o[k] \in Tells(q) /\ o[k] # i /\ short[k].told = q[o[k]].told
    BY <1>2, <1>3 DEF Tells
<1>6. ASSUME NEW k \in Told(short)
      PROVE  o[k] \in Told(q) /\ (taken => i < o[k])
    <2>1. k \in Tells(short) /\ k \in DOMAIN short /\ ~short[k].late
        BY DEF Told, Tells
    <2>2. o[k] \in Nat /\ i \in Nat
        BY <1>1, <1>3, <2>1
    <2> QED BY <1>2, <1>5, <2>1, <2>2 DEF Told
<1> QED BY <1>2, <1>4, <1>5, <1>6

\* A shorter queue tells the same story, and goes on where the answer that was taken ended.
LEMMA PlayersStoryThins ==
    ASSUME NEW q \in Seq(Answers), NEW i \in DOMAIN q, NEW short, NEW taken \in BOOLEAN, NEW o,
           Thinned(short, q, i, taken, o),
           NEW front, NEW seen, NEW left, PlayersStory(q, front, seen, left)
    PROVE  /\ PlayersStory(short, front, seen, left)
           /\ taken /\ i \in Tells(q) => PlayersStory(short, q[i].told.inGame, seen, left)
           /\ \A p : GoneFrom(q, left, p) => GoneFrom(short, left, p)
<1>1. /\ LateFirst(short)
      /\ \A k \in Tells(short) :
            o[k] \in Tells(q) /\ o[k] # i /\ short[k].told = q[o[k]].told
      /\ \A k \in Told(short) : o[k] \in Told(q) /\ (taken => i < o[k])
      /\ \A j, k \in DOMAIN short : j < k => o[j] < o[k]
    BY TellsOfThinned DEF PlayersStory
<1>2. \A k \in Told(short) : k \in Tells(short)
    BY DEF Told
<1>3. \A k \in Tells(short) : k \in DOMAIN short
    BY DEF Tells
<1>4. \A k \in Told(q) : k \in Tells(q)
    BY DEF Told
<1>5. PlayersStory(short, front, seen, left)
    BY <1>1, <1>2, <1>3 DEF PlayersStory
<1>6. ASSUME taken, i \in Tells(q) PROVE PlayersStory(short, q[i].told.inGame, seen, left)
    <2>1. q[i].told.inGame \subseteq seen
        BY <1>6 DEF PlayersStory
    <2>2. ASSUME NEW j \in Told(short)
          PROVE  q[i].told.inGame \ short[j].told.inGame \subseteq left
        <3>1. o[j] \in Tells(q) /\ i < o[j] /\ short[j].told = q[o[j]].told
            BY <1>1, <1>2, <1>6
        <3> QED BY <1>6, <3>1 DEF PlayersStory
    <2>3. ASSUME NEW j \in Told(short), NEW k \in Told(short), j < k
          PROVE  (q[i].told.inGame \ short[j].told.inGame) \cap short[k].told.inGame = {}
        <3>1. /\ o[j] \in Tells(q) /\ i < o[j] /\ short[j].told = q[o[j]].told
              /\ o[k] \in Tells(q) /\ o[j] < o[k] /\ short[k].told = q[o[k]].told
            BY <1>1, <1>2, <1>3, <1>6, <2>3
        <3> QED BY <1>6, <3>1 DEF PlayersStory
    <2> QED BY <1>5, <2>1, <2>2, <2>3 DEF PlayersStory
<1>7. ASSUME NEW p, GoneFrom(q, left, p) PROVE GoneFrom(short, left, p)
    BY <1>1, <1>2, <1>7 DEF GoneFrom
<1> QED BY <1>5, <1>6, <1>7

LEMMA LootStoryThins ==
    ASSUME NEW q \in Seq(Answers), NEW i \in DOMAIN q, NEW short, NEW taken \in BOOLEAN, NEW o,
           Thinned(short, q, i, taken, o), LateFirst(q),
           NEW known \in BOOLEAN, NEW front, NEW at, NEW members, LootStory(q, known, front, at, members)
    PROVE  /\ LootStory(short, known, front, at, members)
           /\ taken /\ i \in Tells(q) => LootStory(short, TRUE, q[i].told, at, members)
<1>1. /\ LateFirst(short)
      /\ \A k \in Tells(short) :
            o[k] \in Tells(q) /\ o[k] # i /\ short[k].told = q[o[k]].told
      /\ \A k \in Told(short) : o[k] \in Told(q) /\ (taken => i < o[k])
      /\ \A j, k \in DOMAIN short : j < k => o[j] < o[k]
    BY TellsOfThinned
<1>2. \A k \in Told(short) : k \in Tells(short)
    BY DEF Told
<1>3. \A k \in Tells(short) : k \in DOMAIN short
    BY DEF Tells
<1>4. LootStory(short, known, front, at, members)
    BY <1>1, <1>2, <1>3 DEF LootStory
<1>5. ASSUME taken, i \in Tells(q) PROVE LootStory(short, TRUE, q[i].told, at, members)
    <2>1. \A j \in Told(short) : Later(q[i].told.place, short[j].told.place)
        BY <1>1, <1>2, <1>5 DEF LootStory
    <2> QED BY <1>4, <1>5, <2>1 DEF LootStory
<1> QED BY <1>4, <1>5

\* The next answer of the server.
LEMMA NextAnswer ==
    ASSUME NEW q \in Seq(Answers), NEW answer \in Answers, ~answer.late
    PROVE  /\ LateFirst(q) => LateFirst(Append(q, answer))
           /\ \A k \in Tells(Append(q, answer)) :
                k \in Tells(q) \/ (k = Len(q) + 1 /\ Me \in answer.told.inGame)
           /\ \A k \in Told(Append(q, answer)) :
                k \in Told(q) \/ (k = Len(q) + 1 /\ Me \in answer.told.inGame)
           /\ \A k \in Tells(q) : Append(q, answer)[k] = q[k]
           /\ Append(q, answer)[Len(q) + 1] = answer
           /\ \A k \in Told(q) : k \in Tells(q)
           /\ \A k \in Told(Append(q, answer)) : k \in Tells(Append(q, answer))
           /\ \A k \in Tells(Append(q, answer)) : ~(Len(q) + 1 < k) /\ ~(k < k)
<1> DEFINE n == Len(q) + 1
           long == Append(q, answer)
<1>1. /\ DOMAIN q = 1 .. Len(q) /\ Len(q) \in Nat
      /\ DOMAIN long = 1 .. n
      /\ long[n] = answer
      /\ \A k \in DOMAIN q : long[k] = q[k] /\ k < n
    <2>1. /\ long \in Seq(Answers) /\ Len(long) = Len(q) + 1
          /\ \A k \in 1 .. Len(q) : long[k] = q[k]
          /\ long[Len(q) + 1] = answer
        BY AppendProperties
    <2> QED BY <2>1, LenProperties
<1>2. DOMAIN long = DOMAIN q \cup {n} /\ n \notin DOMAIN q
    BY <1>1
<1>3. \A k \in DOMAIN long : ~(n < k) /\ ~(k < k)
    BY <1>1
<1> HIDE DEF n, long
<1>4. /\ \A k \in Tells(long) : k \in Tells(q) \/ (k = n /\ Me \in answer.told.inGame)
      /\ \A k \in Told(long) : k \in Told(q) \/ (k = n /\ Me \in answer.told.inGame)
      /\ \A k \in Tells(q) : long[k] = q[k]
      /\ \A k \in Tells(long) : k \in DOMAIN long
      /\ \A k \in Told(q) : k \in Tells(q)
      /\ \A k \in Told(long) : k \in Tells(long)
    BY <1>1, <1>2 DEF Tells, Told
<1>5. LateFirst(q) => LateFirst(long)
    BY <1>1, <1>2, <1>3 DEF LateFirst
<1> QED BY <1>1, <1>3, <1>4, <1>5 DEF n, long

\* It goes on with the story of the players ...
LEMMA PlayersStoryGoesOn ==
    ASSUME NEW q \in Seq(Answers), NEW answer \in Answers, ~answer.late,
           NEW front, NEW seen, NEW left, PlayersStory(q, front, seen, left),
           Me \in answer.told.inGame => answer.told.inGame = seen \ left
    PROVE  /\ PlayersStory(Append(q, answer), front, seen, left)
           /\ \A p : GoneFrom(q, left, p) => GoneFrom(Append(q, answer), left, p)
<1> DEFINE n == Len(q) + 1
           long == Append(q, answer)
<1>1. /\ LateFirst(q) => LateFirst(long)
      /\ \A k \in Tells(long) : k \in Tells(q) \/ (k = n /\ Me \in answer.told.inGame)
      /\ \A k \in Told(long) : k \in Told(q) \/ (k = n /\ Me \in answer.told.inGame)
      /\ \A k \in Tells(q) : long[k] = q[k]
      /\ long[n] = answer
      /\ \A k \in Told(q) : k \in Tells(q)
      /\ \A k \in Told(long) : k \in Tells(long)
      /\ \A k \in Tells(long) : ~(n < k) /\ ~(k < k)
    BY NextAnswer
<1> HIDE DEF n, long
<1>2. LateFirst(long)
    BY <1>1 DEF PlayersStory, LateFirst
<1>3. \A i \in Tells(long) : long[i].told.inGame \subseteq seen
    BY <1>1 DEF PlayersStory
<1>4. ASSUME NEW i \in Tells(long), NEW j \in Tells(long), i < j
      PROVE  long[i].told.inGame \ long[j].told.inGame \subseteq left
    <2>1. i \in Tells(q) /\ long[i] = q[i]
        BY <1>1, <1>4
    <2>2. CASE j \in Tells(q)
        BY <1>1, <1>4, <2>1, <2>2 DEF PlayersStory
    <2>3. CASE j = n /\ Me \in answer.told.inGame
        BY <1>1, <2>1, <2>3 DEF PlayersStory
    <2> QED BY <1>1, <2>2, <2>3
<1>5. ASSUME NEW i \in Tells(long), NEW j \in Tells(long), NEW k \in Tells(long),
             i < j, j < k
      PROVE  (long[i].told.inGame \ long[j].told.inGame) \cap long[k].told.inGame = {}
    <2>1. i \in Tells(q) /\ long[i] = q[i] /\ j \in Tells(q) /\ long[j] = q[j]
        BY <1>1, <1>5
    <2>2. CASE k \in Tells(q)
        BY <1>1, <1>5, <2>1, <2>2 DEF PlayersStory
    <2>3. CASE k = n /\ Me \in answer.told.inGame
        BY <1>1, <1>5, <2>1, <2>3 DEF PlayersStory
    <2> QED BY <1>1, <2>2, <2>3
<1>6. ASSUME NEW i \in Told(long)
      PROVE  front \ long[i].told.inGame \subseteq left
    BY <1>1 DEF PlayersStory
<1>7. ASSUME NEW i \in Told(long), NEW j \in Told(long), i < j
      PROVE  (front \ long[i].told.inGame) \cap long[j].told.inGame = {}
    <2>1. i \in Told(q) /\ i \in Tells(q) /\ long[i] = q[i]
        BY <1>1, <1>7
    <2>2. CASE j \in Told(q)
        BY <1>1, <1>7, <2>1, <2>2 DEF PlayersStory
    <2>3. CASE j = n /\ Me \in answer.told.inGame
        BY <1>1, <2>1, <2>3 DEF PlayersStory
    <2> QED BY <1>1, <2>2, <2>3
<1>8. PlayersStory(long, front, seen, left)
    BY <1>1, <1>2, <1>3, <1>4, <1>5, <1>6, <1>7 DEF PlayersStory
<1>9. ASSUME NEW p, GoneFrom(q, left, p) PROVE GoneFrom(long, left, p)
    BY <1>1, <1>9 DEF GoneFrom
<1> QED BY <1>8, <1>9 DEF long

\* ... and of the loot.
LEMMA LootStoryGoesOn ==
    ASSUME NEW q \in Seq(Answers), NEW answer \in Answers, ~answer.late,
           NEW known \in BOOLEAN, NEW front, NEW at, NEW members, LootStory(q, known, front, at, members),
           Me \in answer.told.inGame =>
                answer.told.place = at /\ answer.told.inGame = members
    PROVE  LootStory(Append(q, answer), known, front, at, members)
<1> DEFINE n == Len(q) + 1
           long == Append(q, answer)
<1>1. /\ LateFirst(q) => LateFirst(long)
      /\ \A k \in Tells(long) : k \in Tells(q) \/ (k = n /\ Me \in answer.told.inGame)
      /\ \A k \in Told(long) : k \in Told(q) \/ (k = n /\ Me \in answer.told.inGame)
      /\ \A k \in Tells(q) : long[k] = q[k]
      /\ long[n] = answer
      /\ \A k \in Told(q) : k \in Tells(q)
      /\ \A k \in Told(long) : k \in Tells(long)
      /\ \A k \in Tells(long) : ~(n < k) /\ ~(k < k)
    BY NextAnswer
<1> HIDE DEF n, long
<1>2. ASSUME NEW i \in Tells(long)
      PROVE  /\ Later(long[i].told.place, at)
             /\ Housed(long[i].told.place, long[i].told.inGame)
    <2>1. Later(at, at)
        BY DEF Later
    <2> QED BY <1>1, <2>1 DEF LootStory
<1>3. ASSUME NEW i \in Tells(long), NEW j \in Tells(long), i < j
      PROVE  Later(long[i].told.place, long[j].told.place)
    <2>1. i \in Tells(q) /\ long[i] = q[i]
        BY <1>1, <1>3
    <2>2. CASE j \in Tells(q)
        BY <1>1, <1>3, <2>1, <2>2 DEF LootStory
    <2>3. CASE j = n /\ Me \in answer.told.inGame
        BY <1>1, <2>1, <2>3 DEF LootStory
    <2> QED BY <1>1, <2>2, <2>3
<1>4. ASSUME known, NEW i \in Told(long) PROVE Later(front.place, long[i].told.place)
    BY <1>1, <1>4 DEF LootStory
<1>5. Housed(at, members) /\ (known => Later(front.place, at) /\ Housed(front.place, front.inGame))
    BY DEF LootStory
<1>6. LootStory(long, known, front, at, members)
    BY <1>2, <1>3, <1>4, <1>5 DEF LootStory
<1> QED BY <1>6 DEF long

\* Time goes on in the game.
LEMMA StoryAges ==
    ASSUME NEW q, NEW front, NEW seen, NEW left, PlayersStory(q, front, seen, left),
           NEW seen2, seen \subseteq seen2, NEW left2, left \subseteq left2
    PROVE  /\ PlayersStory(q, front, seen2, left2)
           /\ \A p : GoneFrom(q, left, p) => GoneFrom(q, left2, p)
BY DEF PlayersStory, GoneFrom

LEMMA LaterIsTransitive ==
    ASSUME NEW a, NEW b \in [Loots -> Places], NEW c, Later(a, b), Later(b, c)
    PROVE  Later(a, c)
<1>1. "none" \notin Players /\ "map" \notin Players /\ "gone" \notin Players
    BY ClientAssumption
<1> SUFFICES ASSUME NEW l \in Loots
             PROVE  /\ a[l] = "map" => c[l] # "none"
                    /\ a[l] \in Players => c[l] \in {a[l], "gone"}
                    /\ a[l] = "gone" => c[l] = "gone"
    BY DEF Later
<1>2. b[l] \in Places
    OBVIOUS
<1> QED BY <1>1, <1>2 DEF Later, Places

LEMMA LootStoryAges ==
    ASSUME NEW q, NEW known \in BOOLEAN, NEW front, NEW at \in [Loots -> Places], NEW members,
           LootStory(q, known, front, at, members),
           NEW at2, Later(at, at2), NEW members2, Housed(at2, members2)
    PROVE  LootStory(q, known, front, at2, members2)
<1>1. \A i \in Tells(q) : Later(q[i].told.place, at2)
    BY LaterIsTransitive DEF LootStory
<1>2. known => Later(front.place, at2)
    BY LaterIsTransitive DEF LootStory
<1> QED BY <1>1, <1>2 DEF LootStory

\* What a step of the game does to players and loot.
LEMMA GameGoesOn ==
    ASSUME ServerTyped, Housed(place, inGame),
           \/ \E p \in Players : Join(p) \/ Retire(p)
           \/ \E l \in Loots : MoveLoot(l)
    PROVE  /\ Seen \subseteq Seen' /\ Left \subseteq Left'
           /\ Later(place, place') /\ Housed(place', inGame')
<1>1. "none" \notin Players /\ "map" \notin Players /\ "gone" \notin Players
    BY ClientAssumption
<1>2. life \in [Players -> {"new", "in", "left"}] /\ place \in [Loots -> Places]
    BY DEF ServerTyped
<1>3. ASSUME NEW p \in Players, Join(p)
      PROVE  /\ Seen \subseteq Seen' /\ Left \subseteq Left'
             /\ Later(place, place') /\ Housed(place', inGame')
    <2>1. place' = place /\ life[p] = "new" /\ life' = [life EXCEPT ![p] = "in"]
        BY <1>3 DEF Join
    <2>2. inGame \subseteq inGame'
        BY <1>2, <2>1 DEF inGame
    <2> QED BY <1>2, <2>1, <2>2 DEF Seen, Left, Later, Housed
<1>4. ASSUME NEW p \in Players, Retire(p)
      PROVE  /\ Seen \subseteq Seen' /\ Left \subseteq Left'
             /\ Later(place, place') /\ Housed(place', inGame')
    <2>1. /\ place' = [l \in Loots |-> IF place[l] = p THEN "gone" ELSE place[l]]
          /\ life[p] = "in" /\ life' = [life EXCEPT ![p] = "left"]
        BY <1>4 DEF Retire, inGame
    <2>2. inGame \ {p} \subseteq inGame'
        BY <1>2, <2>1 DEF inGame
    <2>3. Later(place, place') /\ Housed(place', inGame')
        BY <1>1, <2>1, <2>2 DEF Later, Housed
    <2> QED BY <1>2, <2>1, <2>3 DEF Seen, Left
<1>5. ASSUME NEW l \in Loots, MoveLoot(l)
      PROVE  /\ Seen \subseteq Seen' /\ Left \subseteq Left'
             /\ Later(place, place') /\ Housed(place', inGame')
    <2>1. PICK to \in Places : Goes(place[l], to) /\ place' = [place EXCEPT ![l] = to]
        BY <1>5 DEF MoveLoot
    <2>2. life' = life
        BY <1>5 DEF MoveLoot
    <2>3. inGame \subseteq Players /\ inGame' = inGame
        BY <2>2 DEF inGame
    <2>4. Later(place, place') /\ Housed(place', inGame')
        BY <1>1, <1>2, <2>1, <2>3 DEF Later, Housed, Goes
    <2> QED BY <2>2, <2>4 DEF Seen, Left
<1> QED BY <1>3, <1>4, <1>5

-----------------------------------------------------------------------------
(* The scene.                                                              *)

\* An object that a table holds.
LEMMA HeldByTables ==
    \A object : object \in Held({lostObjects, disappearing} \cup Range(bags)) =>
        \/ \E l \in DOMAIN lostObjects : object = lostObjects[l]
        \/ \E l \in DOMAIN disappearing : object = disappearing[l]
        \/ \E r \in DOMAIN bags : \E l \in DOMAIN bags[r] : object = bags[r][l]
<1> TAKE object
<1>1. object \in Held({lostObjects, disappearing} \cup Range(bags)) <=>
        \/ object \in Range(lostObjects)
        \/ object \in Range(disappearing)
        \/ \E r \in DOMAIN bags : object \in Range(bags[r])
    BY DEF Held, Range
<1> QED BY <1>1 DEF Range

LEMMA HeldAfter ==
    ASSUME NEW object,
           \/ \E l \in DOMAIN lostObjects' : object = lostObjects'[l]
           \/ \E l \in DOMAIN disappearing' : object = disappearing'[l]
           \/ \E r \in DOMAIN bags' : \E l \in DOMAIN bags'[r] : object = bags'[r][l]
    PROVE  object \in Held({lostObjects', disappearing'} \cup Range(bags'))
<1>1. CASE \E l \in DOMAIN lostObjects' : object = lostObjects'[l]
    BY <1>1 DEF Held, Range
<1>2. CASE \E l \in DOMAIN disappearing' : object = disappearing'[l]
    BY <1>2 DEF Held, Range
<1>3. CASE \E r \in DOMAIN bags' : \E l \in DOMAIN bags'[r] : object = bags'[r][l]
    <2>1. PICK r \in DOMAIN bags' : object \in Range(bags'[r])
        BY <1>3 DEF Range
    <2>2. bags'[r] \in Range(bags')
        BY DEF Range
    <2> QED BY <2>1, <2>2 DEF Held
<1> QED BY <1>1, <1>2, <1>3

LEMMA DataOfCurrent ==
    ASSUME DrawnInv
    PROVE  \A p \in DOMAIN current : current[p] \in DOMAIN bags /\ current[p] # NoData
<1>1. \A p \in DOMAIN current : current[p] \in Refs /\ current[p] # NoData
    BY PartialValues, ClientAssumption DEF DrawnInv, DrawnTyped
<1> QED BY <1>1 DEF DrawnInv, DataInUse, Range

\* A state that is applied holds on to all that is in the scene, unless it drops a player
\* with loot whom no list knows, takes a player back, or loot comes back.
LEMMA AppliedHoldsScene ==
    ASSUME DrawnInv, NEW snapshot \in Snapshots, NEW listed, Listing(listed),
           NEW newData, NEW created,
           AppliedWith(snapshot, listed, scene, newData, created),
           scene \subseteq Held({lostObjects, disappearing} \cup Range(bags)),
           \A p \in DOMAIN current \ snapshot.inGame :
                p \in DOMAIN listed \/ bags[current[p]] = Empty,
           \A r \in DOMAIN bags \ Range(current) :
                \E q \in DOMAIN listed \ NewPlayers(snapshot) : listed[q] = r,
           DOMAIN disappearing \cap Dropped(snapshot) = {}
    PROVE  scene' \subseteq Held({lostObjects', disappearing'} \cup Range(bags'))
<1> DEFINE Kept(object) ==
            \/ \E l \in DOMAIN lostObjects' : object = lostObjects'[l]
            \/ \E l \in DOMAIN disappearing' : object = disappearing'[l]
            \/ \E r \in DOMAIN bags' : \E l \in DOMAIN bags'[r] : object = bags'[r][l]
<1>1. /\ scene' = scene \cup Range(created)
      /\ lostObjects' = [l \in OnMap(snapshot) |-> ObjectOf(l, created)]
      /\ DOMAIN bags' = DataInUse(current', players')
      /\ \A r \in DOMAIN bags' \ Range(current') : bags'[r] = bags[r]
      /\ DOMAIN disappearing' = DOMAIN disappearing \cup Dropped(snapshot)
      /\ \A l \in DOMAIN disappearing' :
            IF l \in Dropped(snapshot) THEN DroppedObject(snapshot, l, disappearing'[l])
            ELSE disappearing'[l] = disappearing[l]
    BY DEF AppliedWith
<1>2. ASSUME NEW p \in snapshot.inGame
      PROVE  /\ p \in DOMAIN current'
             /\ current'[p] \in DOMAIN bags'
             /\ DOMAIN bags'[current'[p]] = CarriedBy(snapshot, p)
             /\ \A l \in CarriedBy(snapshot, p) : bags'[current'[p]][l] =
                    IF l \in DOMAIN BagOf(p) THEN BagOf(p)[l] ELSE ObjectOf(l, created)
    <2>1. bags'[current'[p]] = [l \in CarriedBy(snapshot, p) |->
            IF l \in DOMAIN BagOf(p) THEN BagOf(p)[l] ELSE ObjectOf(l, created)]
        BY DEF AppliedWith
    <2>2. p \in DOMAIN current'
        BY DEF AppliedWith
    <2>3. current'[p] # NoData
        <3>1. current' \in Partial(Players, Refs)
            <4>1. /\ FreshData(snapshot, listed, newData)
                  /\ current' = [x \in snapshot.inGame |->
                        IF x \in DOMAIN current THEN current[x] ELSE newData[x]]
                BY DEF AppliedWith
            <4> QED BY <4>1, FreshDataIsApart, ZenonT(25)
        <3> QED BY <2>2, <3>1, PartialValues, ClientAssumption
    <2> QED BY <1>1, <2>1, <2>2, <2>3 DEF DataInUse, Range
<1>3. \A p \in DOMAIN current : current[p] \in DOMAIN bags /\ current[p] # NoData
    BY DataOfCurrent
<1>4. ASSUME NEW l \in NewLoot(snapshot) PROVE Kept(created[l])
    <2>1. CASE l \in OnMap(snapshot) \ DOMAIN lostObjects
        <3>1. l \in DOMAIN lostObjects' /\ lostObjects'[l] = created[l]
            BY <1>1, <2>1 DEF ObjectOf
        <3> QED BY <3>1
    <2>2. CASE l \in AttachedBy(snapshot) \ AbandonedBy(snapshot)
        <3>1. PICK p \in snapshot.inGame : l \in CarriedBy(snapshot, p) \ DOMAIN BagOf(p)
            BY <2>2 DEF AttachedBy
        <3>2. l \notin DOMAIN lostObjects
            BY <2>2, <3>1, LootIsSomewhere DEF AbandonedBy
        <3>3. bags'[current'[p]][l] = created[l]
            BY <1>2, <3>1, <3>2 DEF ObjectOf
        <3> QED BY <1>2, <3>1, <3>3
    <2> QED BY <2>1, <2>2 DEF NewLoot
<1>5. ASSUME NEW l \in DOMAIN lostObjects PROVE Kept(lostObjects[l])
    <2>1. CASE l \in OnMap(snapshot)
        <3>1. l \in DOMAIN lostObjects' /\ lostObjects'[l] = lostObjects[l]
            BY <1>1, <2>1 DEF ObjectOf
        <3> QED BY <3>1
    <2>2. CASE l \in AbandonedBy(snapshot) /\ l \in AttachedBy(snapshot)
        <3>1. PICK p \in snapshot.inGame : l \in CarriedBy(snapshot, p) \ DOMAIN BagOf(p)
            BY <2>2 DEF AttachedBy
        <3>2. bags'[current'[p]][l] = lostObjects[l]
            BY <1>2, <3>1 DEF ObjectOf
        <3> QED BY <1>2, <3>1, <3>2
    <2>3. CASE l \in AbandonedBy(snapshot) \ AttachedBy(snapshot)
        <3>1. l \in Dropped(snapshot)
            BY <2>3 DEF Dropped
        <3>2. l \in DOMAIN disappearing' /\ disappearing'[l] = lostObjects[l]
            BY <1>1, <2>3, <3>1 DEF DroppedObject
        <3> QED BY <3>2
    <2> QED BY <2>1, <2>2, <2>3 DEF AbandonedBy
<1>6. ASSUME NEW l \in DOMAIN disappearing PROVE Kept(disappearing[l])
    <2>1. l \in DOMAIN disappearing' /\ disappearing'[l] = disappearing[l]
        BY <1>1
    <2> QED BY <2>1
<1>7. ASSUME NEW p \in snapshot.inGame \cap DOMAIN current, NEW l \in DOMAIN bags[current[p]]
      PROVE  Kept(bags[current[p]][l])
    <2>1. BagOf(p) = bags[current[p]]
        BY DEF BagOf
    <2>2. CASE l \in CarriedBy(snapshot, p)
        <3>1. bags'[current'[p]][l] = bags[current[p]][l]
            BY <1>2, <2>1, <2>2
        <3> QED BY <1>2, <2>2, <3>1
    <2>3. CASE l \notin CarriedBy(snapshot, p)
        <3>1. l \in Dropped(snapshot)
            BY <2>1, <2>3 DEF Dropped
        <3>2. l \in DOMAIN disappearing' /\ DroppedObject(snapshot, l, disappearing'[l])
            BY <1>1, <3>1
        <3>3. l \notin DOMAIN lostObjects
            BY DEF DrawnInv, LootInOnePlace
        <3>4. PICK s \in snapshot.inGame : l \in DOMAIN BagOf(s) /\ disappearing'[l] = BagOf(s)[l]
            BY <3>2, <3>3 DEF DroppedObject, AbandonedBy
        <3>5. s \in DOMAIN current /\ BagOf(s) = bags[current[s]]
            BY <3>4 DEF BagOf, Empty
        <3>6. s = p
            BY <3>4, <3>5 DEF DrawnInv, LootInOnePlace
        <3> QED BY <2>1, <3>2, <3>4, <3>6
    <2> QED BY <2>2, <2>3
<1>8. ASSUME NEW q \in DOMAIN listed \ NewPlayers(snapshot), listed[q] \in DOMAIN bags,
             q \in snapshot.inGame => listed[q] \notin Range(current),
             NEW l \in DOMAIN bags[listed[q]]
      PROVE  Kept(bags[listed[q]][l])
    <2>1. players'[q] = listed[q] /\ q \in DOMAIN players'
        BY DEF AppliedWith
    <2>2. listed[q] # NoData
        <3>1. DOMAIN bags \subseteq Refs
            BY PartialValues DEF DrawnInv, DrawnTyped
        <3> QED BY <1>8, <3>1, ClientAssumption
    <2>3. listed[q] \in DOMAIN bags'
        BY <1>1, <2>1, <2>2 DEF DataInUse, Range
    <2>4. listed[q] \notin Range(current')
        <3>1. /\ FreshData(snapshot, listed, newData)
              /\ current' = [p \in snapshot.inGame |->
                    IF p \in DOMAIN current THEN current[p] ELSE newData[p]]
              /\ players' = [p \in DOMAIN listed |->
                    IF p \in NewPlayers(snapshot) THEN newData[p] ELSE listed[p]]
            BY DEF AppliedWith
        <3>2. Apart(current', players')
            BY <3>1, FreshDataIsApart, ZenonT(25)
        <3>3. ASSUME NEW p \in DOMAIN current', current'[p] = listed[q] PROVE FALSE
            <4>1. p = q
                BY <2>1, <3>2, <3>3 DEF Apart
            <4>2. q \in snapshot.inGame /\ q \in DOMAIN current
                BY <3>1, <3>3, <4>1 DEF NewPlayers
            <4>3. current[q] = listed[q]
                BY <4>2 DEF Listing, Agree
            <4> QED BY <1>8, <4>2, <4>3 DEF Range
        <3> QED BY <3>3 DEF Range
    <2>5. bags'[listed[q]] = bags[listed[q]]
        BY <1>1, <2>3, <2>4
    <2> QED BY <2>3, <2>5
<1>9. ASSUME NEW r \in DOMAIN bags, NEW l \in DOMAIN bags[r]
      PROVE  Kept(bags[r][l])
    <2>1. CASE r \in Range(current)
        <3>1. PICK p \in DOMAIN current : r = current[p]
            BY <2>1 DEF Range
        <3>2. CASE p \in snapshot.inGame
            BY <1>7, <3>1, <3>2
        <3>3. CASE p \notin snapshot.inGame
            <4>1. p \in DOMAIN listed
                BY <3>1, <3>3 DEF Empty
            <4>2. listed[p] = r
                BY <3>1, <4>1 DEF Listing, Agree
            <4>3. p \notin NewPlayers(snapshot)
                BY <3>3 DEF NewPlayers
            <4> QED BY <1>8, <3>3, <4>1, <4>2, <4>3
        <3> QED BY <3>2, <3>3
    <2>2. CASE r \notin Range(current)
        <3>1. PICK q \in DOMAIN listed \ NewPlayers(snapshot) : listed[q] = r
            BY <2>2
        <3> QED BY <1>8, <2>2, <3>1
    <2> QED BY <2>1, <2>2
<1>10. ASSUME NEW object \in scene' PROVE Kept(object)
    <2> HIDE DEF Kept
    <2>1. CASE object \in scene
        <3>1. object \in Held({lostObjects, disappearing} \cup Range(bags))
            BY <2>1
        <3>2. \/ \E l \in DOMAIN lostObjects : object = lostObjects[l]
              \/ \E l \in DOMAIN disappearing : object = disappearing[l]
              \/ \E r \in DOMAIN bags : \E l \in DOMAIN bags[r] : object = bags[r][l]
            BY <3>1, HeldByTables
        <3> QED BY <1>5, <1>6, <1>9, <3>2
    <2>2. CASE object \in Range(created)
        <3>1. DOMAIN created = NewLoot(snapshot)
            <4>1. created = [l \in NewLoot(snapshot) |-> created[l]]
                BY NewObjectsAreNew DEF AppliedWith
            <4> QED BY <4>1
        <3>2. \E l \in NewLoot(snapshot) : object = created[l]
            BY <2>2, <3>1 DEF Range
        <3> QED BY <1>4, <3>2
    <2> QED BY <1>1, <2>1, <2>2
<1> QED
    <2> QED BY <1>10, HeldAfter

\* Players that the page knew, and that the answer it takes does not name, are gone.
LEMMA PlayersLeave ==
    ASSUME NEW q \in Seq(Answers), NEW i \in Told(q), NEW short, NEW o,
           Thinned(short, q, i, TRUE, o),
           NEW front, NEW seen, NEW left, PlayersStory(q, front, seen, left),
           NEW p \in front \ q[i].told.inGame
    PROVE  GoneFrom(short, left, p)
<1>1. i \in DOMAIN q
    BY DEF Told, Tells
<1>2. \A k \in Told(short) : o[k] \in Told(q) /\ i < o[k]
    BY <1>1, TellsOfThinned DEF PlayersStory
<1>3. \A k \in Told(short) : short[k].told = q[o[k]].told
    BY DEF Thinned, Told, Tells
<1> QED BY <1>2, <1>3 DEF PlayersStory, GoneFrom

\* What a state that is applied puts on the map or into a bag is in the scene, if what was
\* there before is.
LEMMA AppliedShowsObjects ==
    ASSUME DrawnInv, NEW snapshot \in Snapshots, NEW listed, Listing(listed),
           NEW newData, NEW created,
           AppliedWith(snapshot, listed, scene, newData, created),
           Range(lostObjects) \subseteq scene
    PROVE  /\ Range(lostObjects') \subseteq scene'
           /\ \A p \in snapshot.inGame :
                (p \in DOMAIN current => Range(bags[current[p]]) \subseteq scene)
                => Range(bags'[current'[p]]) \subseteq scene'
<1>1. /\ scene' = scene \cup Range(created)
      /\ lostObjects' = [l \in OnMap(snapshot) |-> ObjectOf(l, created)]
    BY DEF AppliedWith
<1>2. DOMAIN created = NewLoot(snapshot)
    <2>1. created = [l \in NewLoot(snapshot) |-> created[l]]
        BY NewObjectsAreNew DEF AppliedWith
    <2> QED BY <2>1
<1>3. ASSUME NEW l, l \in DOMAIN lostObjects \/ l \in NewLoot(snapshot)
      PROVE  ObjectOf(l, created) \in scene'
    BY <1>1, <1>2, <1>3 DEF ObjectOf, Range
<1>4. \A l \in OnMap(snapshot) : l \in DOMAIN lostObjects \/ l \in NewLoot(snapshot)
    BY DEF NewLoot
<1>5. Range(lostObjects') \subseteq scene'
    BY <1>1, <1>3, <1>4 DEF Range
<1>6. ASSUME NEW p \in snapshot.inGame,
             p \in DOMAIN current => Range(bags[current[p]]) \subseteq scene
      PROVE  Range(bags'[current'[p]]) \subseteq scene'
    <2>1. bags'[current'[p]] = [l \in CarriedBy(snapshot, p) |->
            IF l \in DOMAIN BagOf(p) THEN BagOf(p)[l] ELSE ObjectOf(l, created)]
        BY DEF AppliedWith
    <2>2. ASSUME NEW l \in CarriedBy(snapshot, p), l \in DOMAIN BagOf(p)
          PROVE  BagOf(p)[l] \in scene'
        BY <1>1, <1>6, <2>2 DEF BagOf, Empty, Range
    <2>3. ASSUME NEW l \in CarriedBy(snapshot, p), l \notin DOMAIN BagOf(p)
          PROVE  ObjectOf(l, created) \in scene'
        <3>1. l \in AttachedBy(snapshot)
            BY <2>3 DEF AttachedBy
        <3>2. l \in DOMAIN lostObjects \/ l \in NewLoot(snapshot)
            BY <3>1 DEF NewLoot, AbandonedBy
        <3> QED BY <1>3, <3>2
    <2> QED BY <2>1, <2>2, <2>3 DEF Range
<1> QED BY <1>5, <1>6

-----------------------------------------------------------------------------
(* The invariant of the scene.                                             *)

KnownByState == IF stateLoaded THEN desired.inGame ELSE {}

AnswersInv ==
    /\ PlayersStory(answers["state"], KnownByState, Seen, Left)
    /\ PlayersStory(answers["players"], DOMAIN players, Seen, Left)
    /\ LootStory(answers["state"], stateLoaded, desired, place, inGame)

\* What is drawn is the last state.
StateIsShown ==
    /\ started = (stateLoaded /\ playersLoaded)
    /\ IF started
       THEN /\ DOMAIN current = desired.inGame
            /\ DOMAIN lostObjects = OnMap(desired)
            /\ \A p \in DOMAIN current : DOMAIN bags[current[p]] = CarriedBy(desired, p)
       ELSE /\ DOMAIN current = {} /\ DOMAIN lostObjects = {}
            /\ DOMAIN disappearing = {} /\ DOMAIN bags = {} /\ scene = {}

\* Only players that the last list dropped, and that have left, carry loot that is not in
\* the scene.  A list keeps data that the last state does not name only of players who
\* have left.  What is disappearing is gone.
SceneInv ==
    ~disagreed =>
        /\ scene \subseteq Held({lostObjects, disappearing} \cup Range(bags))
        /\ Range(lostObjects) \subseteq scene
        /\ \A p \in DOMAIN current :
            \/ p \notin DOMAIN players /\ GoneFrom(answers["players"], Left, p)
            \/ Range(bags[current[p]]) \subseteq scene
        /\ \A p \in DOMAIN players \ DOMAIN current :
            players[p] # NoData => GoneFrom(answers["state"], Left, p)
        /\ \A l \in DOMAIN disappearing : desired.place[l] = "gone"

StoryInv == AnswersInv /\ StateIsShown /\ SceneInv

\* Steps that change neither what is drawn nor what the page was told, as long as players
\* who are gone stay gone.
LEMMA SceneStays ==
    ASSUME StateIsShown, SceneInv, UNCHANGED <<desired, startup, drawn, disagreed>>,
           \A p : GoneFrom(answers["state"], Left, p) => GoneFrom(answers'["state"], Left', p),
           \A p : GoneFrom(answers["players"], Left, p) => GoneFrom(answers'["players"], Left', p)
    PROVE  StateIsShown' /\ SceneInv'
<1>1. UNCHANGED <<desired, stateLoaded, playersLoaded, started, disagreed,
                  current, players, bags, lostObjects, disappearing, scene>>
    BY DEF startup, drawn
<1>2. StateIsShown'
    BY <1>1 DEF StateIsShown, OnMap, CarriedBy
<1>3. SceneInv'
    BY <1>1 DEF SceneInv
<1> QED BY <1>2, <1>3

LEMMA QuietKeepsStory ==
    ASSUME StoryInv, UNCHANGED <<life, place, answers, desired, startup, drawn, disagreed>>
    PROVE  StoryInv'
<1>1. Seen' = Seen /\ Left' = Left /\ inGame' = inGame /\ KnownByState' = KnownByState
    BY DEF Seen, Left, inGame, KnownByState, startup
<1>2. answers' = answers /\ players' = players /\ stateLoaded' = stateLoaded
      /\ desired' = desired /\ place' = place
    BY DEF startup, drawn
<1>3. AnswersInv'
    BY <1>1, <1>2 DEF StoryInv, AnswersInv
<1>4. StateIsShown' /\ SceneInv'
    BY <1>1, <1>2, SceneStays DEF StoryInv
<1> QED BY <1>3, <1>4 DEF StoryInv

LEMMA GameKeepsStory ==
    ASSUME ClientInv, StoryInv,
           \/ \E p \in Players : Join(p) \/ Retire(p)
           \/ \E l \in Loots : MoveLoot(l)
    PROVE  StoryInv'
<1>1. UnchangedPage /\ UNCHANGED <<network, history>>
    BY DEF Join, Retire, MoveLoot
<1>2. UNCHANGED <<answers, desired, startup, drawn, disagreed>>
    BY <1>1 DEF UnchangedPage, network, history
<1>3. /\ answers' = answers /\ players' = players /\ stateLoaded' = stateLoaded
      /\ desired' = desired /\ KnownByState' = KnownByState
    BY <1>2 DEF startup, drawn, KnownByState
<1>4. /\ Seen \subseteq Seen' /\ Left \subseteq Left'
      /\ Later(place, place') /\ Housed(place', inGame')
    BY GameGoesOn DEF ClientInv, StoryInv, AnswersInv, LootStory
<1>5. /\ PlayersStory(answers["state"], KnownByState, Seen', Left')
      /\ \A p : GoneFrom(answers["state"], Left, p) => GoneFrom(answers["state"], Left', p)
    BY <1>4, StoryAges DEF StoryInv, AnswersInv
<1>6. /\ PlayersStory(answers["players"], DOMAIN players, Seen', Left')
      /\ \A p : GoneFrom(answers["players"], Left, p) => GoneFrom(answers["players"], Left', p)
    BY <1>4, StoryAges DEF StoryInv, AnswersInv
<1>7. LootStory(answers["state"], stateLoaded, desired, place', inGame')
    <2>1. stateLoaded \in BOOLEAN /\ place \in [Loots -> Places]
        BY DEF ClientInv, StoryTyped, ServerTyped
    <2> QED BY <1>4, <2>1, LootStoryAges DEF StoryInv, AnswersInv
<1>8. AnswersInv'
    BY <1>3, <1>5, <1>6, <1>7 DEF AnswersInv
<1>9. StateIsShown' /\ SceneInv'
    BY <1>2, <1>3, <1>5, <1>6, SceneStays DEF StoryInv
<1> QED BY <1>8, <1>9 DEF StoryInv

\* The queue of one kind changes: the invariant of the answers, kind by kind.
LEMMA AnswersByKind ==
    ASSUME ClientInv, StoryInv, NEW kind \in Kinds, NEW q,
           answers' = [answers EXCEPT ![kind] = q],
           UNCHANGED <<life, place, desired, startup, drawn, disagreed>>,
           LET front == IF kind = "state" THEN KnownByState ELSE DOMAIN players
           IN  PlayersStory(q, front, Seen, Left),
           \A p : GoneFrom(answers[kind], Left, p) => GoneFrom(q, Left, p),
           kind = "state" => LootStory(q, stateLoaded, desired, place, inGame)
    PROVE  StoryInv'
<1>1. /\ Seen' = Seen /\ Left' = Left /\ inGame' = inGame /\ KnownByState' = KnownByState
      /\ players' = players /\ stateLoaded' = stateLoaded
      /\ desired' = desired /\ place' = place
    BY DEF Seen, Left, inGame, KnownByState, startup, drawn
<1>2. /\ answers'[kind] = q
      /\ \A other \in Kinds \ {kind} : answers'[other] = answers[other]
    BY DEF ClientInv, MessagesTyped
<1>3. \/ kind = "state" /\ "players" \in Kinds \ {kind}
      \/ kind = "players" /\ "state" \in Kinds \ {kind}
    BY DEF Kinds
<1>4. AnswersInv'
    BY <1>1, <1>2, <1>3 DEF StoryInv, AnswersInv
<1>5. StateIsShown' /\ SceneInv'
    BY <1>1, <1>2, <1>3, SceneStays DEF StoryInv
<1> QED BY <1>4, <1>5 DEF StoryInv

LEMMA ServeKeepsStory ==
    ASSUME ClientInv, StoryInv, NEW kind \in Kinds, Serve(kind)
    PROVE  StoryInv'
<1> DEFINE answer == [late |-> FALSE,
                      told |-> [inGame |-> IF Me \in inGame THEN inGame ELSE {},
                                place |-> IF kind = "state" /\ Me \in inGame THEN place
                                          ELSE NotListed]]
           q == answers[kind]
<1>1. answers' = [answers EXCEPT ![kind] = Append(q, answer)]
    BY DEF Serve
<1>2. UNCHANGED <<life, place, desired, startup, drawn, disagreed>>
    BY DEF Serve, UnchangedPage, world, history
<1>3. life \in [Players -> {"new", "in", "left"}] /\ place \in [Loots -> Places]
    BY DEF ClientInv, ServerTyped
<1>4. answer \in Answers /\ ~answer.late
    BY <1>3 DEF Answers, Snapshots, NotListed, Places, inGame
<1>5. q \in Seq(Answers)
    BY DEF ClientInv, MessagesTyped
<1>6. Me \in answer.told.inGame => /\ answer.told.inGame = inGame
                                   /\ kind = "state" => answer.told.place = place
    OBVIOUS
<1>7. inGame = Seen \ Left
    BY <1>3 DEF inGame, Seen, Left
<1> HIDE DEF answer, q
<1>8. ASSUME NEW front, PlayersStory(q, front, Seen, Left)
      PROVE  /\ PlayersStory(Append(q, answer), front, Seen, Left)
             /\ \A p : GoneFrom(q, Left, p) => GoneFrom(Append(q, answer), Left, p)
    BY <1>4, <1>5, <1>6, <1>7, <1>8, PlayersStoryGoesOn
<1>9. kind = "state" => LootStory(Append(q, answer), stateLoaded, desired, place, inGame)
    <2> SUFFICES ASSUME kind = "state"
                 PROVE  LootStory(Append(q, answer), stateLoaded, desired, place, inGame)
        OBVIOUS
    <2>1. LootStory(q, stateLoaded, desired, place, inGame) /\ stateLoaded \in BOOLEAN
        BY DEF q, StoryInv, AnswersInv, ClientInv, StoryTyped
    <2> QED BY <1>4, <1>5, <1>6, <2>1, LootStoryGoesOn
<1>10. PlayersStory(q, IF kind = "state" THEN KnownByState ELSE DOMAIN players, Seen, Left)
    BY DEF q, Kinds, StoryInv, AnswersInv
<1>11. /\ PlayersStory(Append(q, answer), IF kind = "state" THEN KnownByState ELSE DOMAIN players,
                       Seen, Left)
       /\ \A p : GoneFrom(q, Left, p) => GoneFrom(Append(q, answer), Left, p)
    BY <1>8, <1>10
<1>12. \A p : GoneFrom(answers[kind], Left, p) => GoneFrom(Append(q, answer), Left, p)
    BY <1>11 DEF q
<1> QED BY <1>1, <1>2, <1>9, <1>11, <1>12, AnswersByKind

\* An answer that is lost, or of which the page takes no notice.
LEMMA LossKeepsStory ==
    ASSUME ClientInv, StoryInv, NEW kind \in Kinds, NEW i \in DOMAIN answers[kind],
           UNCHANGED <<life, place, desired, startup, drawn, disagreed>>,
           \E short \in {Without(answers[kind], i), RemoveAt(answers[kind], i)} :
                answers' = [answers EXCEPT ![kind] = short]
    PROVE  StoryInv'
<1> DEFINE q == answers[kind]
<1>1. PICK short \in {Without(q, i), RemoveAt(q, i)} : answers' = [answers EXCEPT ![kind] = short]
    OBVIOUS
<1>2. q \in Seq(Answers) /\ i \in DOMAIN q
    BY DEF ClientInv, MessagesTyped
<1>3. \/ \E o : Thinned(short, q, i, TRUE, o)
      \/ \E o : Thinned(short, q, i, FALSE, o)
    <2> HIDE DEF q
    <2>1. /\ \E o : Thinned(Without(q, i), q, i, TRUE, o)
          /\ \E o : Thinned(RemoveAt(q, i), q, i, FALSE, o)
        BY <1>2, QueueThins
    <2>2. short = Without(q, i) \/ short = RemoveAt(q, i)
        BY <1>1
    <2> QED BY <2>1, <2>2
<1>4. PlayersStory(q, IF kind = "state" THEN KnownByState ELSE DOMAIN players, Seen, Left)
    BY DEF Kinds, StoryInv, AnswersInv
<1>5. kind = "state" => LootStory(q, stateLoaded, desired, place, inGame)
    BY DEF StoryInv, AnswersInv
<1>6. \A p : GoneFrom(answers[kind], Left, p) => GoneFrom(q, Left, p)
    OBVIOUS
<1> HIDE DEF q
<1>7. ASSUME NEW taken \in BOOLEAN, NEW o, Thinned(short, q, i, taken, o)
      PROVE  /\ PlayersStory(short, IF kind = "state" THEN KnownByState ELSE DOMAIN players,
                              Seen, Left)
             /\ \A p : GoneFrom(q, Left, p) => GoneFrom(short, Left, p)
    BY <1>2, <1>4, <1>7, PlayersStoryThins
<1>8. ASSUME kind = "state" PROVE LootStory(short, stateLoaded, desired, place, inGame)
    <2>1. LateFirst(q)
        BY <1>4 DEF PlayersStory
    <2>2. stateLoaded \in BOOLEAN
        BY DEF ClientInv, StoryTyped
    <2>3. LootStory(q, stateLoaded, desired, place, inGame)
        BY <1>5, <1>8
    <2>4. ASSUME NEW o, Thinned(short, q, i, TRUE, o)
          PROVE  LootStory(short, stateLoaded, desired, place, inGame)
        BY <1>2, <2>1, <2>2, <2>3, <2>4, LootStoryThins, ZenonT(25)
    <2>5. ASSUME NEW o, Thinned(short, q, i, FALSE, o)
          PROVE  LootStory(short, stateLoaded, desired, place, inGame)
        BY <1>2, <2>1, <2>2, <2>3, <2>5, LootStoryThins, ZenonT(25)
    <2> QED BY <1>3, <2>4, <2>5
<1>9. /\ PlayersStory(short, IF kind = "state" THEN KnownByState ELSE DOMAIN players, Seen, Left)
      /\ \A p : GoneFrom(q, Left, p) => GoneFrom(short, Left, p)
    BY <1>3, <1>7
<1> QED BY <1>1, <1>6, <1>8, <1>9, AnswersByKind

\* Loot that has been disappearing for a second was in no other table.
LEMMA TickKeepsStory ==
    ASSUME ClientInv, StoryInv, Tick
    PROVE  StoryInv'
<1>1. UNCHANGED <<life, place, answers, startup, desired, current, players, bags, lostObjects, disagreed>>
    BY DEF Tick, world, history
<1>2. CASE ~started
    <2>1. UNCHANGED drawn
        BY <1>1, <1>2 DEF Tick, drawn
    <2> QED BY <1>1, <2>1, QuietKeepsStory
<1>3. CASE started
    <2>1. PICK over \in SUBSET DOMAIN disappearing :
            /\ disappearing' = Restrict(disappearing, DOMAIN disappearing \ over)
            /\ scene' = scene \ {disappearing[l] : l \in over}
        BY <1>3 DEF Tick, ProcessDisappearingLoot
    <2>2. /\ DOMAIN disappearing' = DOMAIN disappearing \ over
          /\ \A l \in DOMAIN disappearing' : disappearing'[l] = disappearing[l]
        BY <2>1 DEF Restrict
    <2>3. /\ Seen' = Seen /\ Left' = Left /\ inGame' = inGame /\ KnownByState' = KnownByState
          /\ stateLoaded' = stateLoaded /\ playersLoaded' = playersLoaded /\ started' = started
        BY <1>1 DEF Seen, Left, inGame, KnownByState, startup
    <2>4. AnswersInv'
        BY <1>1, <2>3 DEF StoryInv, AnswersInv
    <2>5. StateIsShown'
        BY <1>1, <1>3, <2>3 DEF StoryInv, StateIsShown, OnMap, CarriedBy
    <2>6. ASSUME ~disagreed' PROVE scene' \subseteq Held({lostObjects', disappearing'} \cup Range(bags'))
        <3>1. ~disagreed /\ lostObjects' = lostObjects /\ bags' = bags
            BY <1>1, <2>6
        <3>2. \A object : object \in Held({lostObjects, disappearing} \cup Range(bags)) =>
                \/ \E l \in DOMAIN lostObjects : object = lostObjects[l]
                \/ \E l \in DOMAIN disappearing : object = disappearing[l]
                \/ \E r \in DOMAIN bags : \E l \in DOMAIN bags[r] : object = bags[r][l]
            BY HeldByTables
        <3> SUFFICES ASSUME NEW object \in scene'
                     PROVE  object \in Held({lostObjects', disappearing'} \cup Range(bags'))
            OBVIOUS
        <3>3. object \in scene /\ object \in Held({lostObjects, disappearing} \cup Range(bags))
            BY <2>1, <3>1 DEF StoryInv, SceneInv
        <3>4. \/ \E l \in DOMAIN lostObjects' : object = lostObjects'[l]
              \/ \E l \in DOMAIN disappearing' : object = disappearing'[l]
              \/ \E r \in DOMAIN bags' : \E l \in DOMAIN bags'[r] : object = bags'[r][l]
            BY <2>1, <2>2, <3>1, <3>2, <3>3
        <3> QED BY <3>4, HeldAfter
    <2>7. ASSUME ~disagreed' PROVE Range(lostObjects') \subseteq scene'
        <3>1. \A l \in DOMAIN lostObjects, m \in DOMAIN disappearing : lostObjects[l] # disappearing[m]
            BY OldObjectsApart DEF ClientInv
        <3>2. Range(lostObjects) \subseteq scene
            BY <1>1, <2>7 DEF StoryInv, SceneInv
        <3> QED BY <1>1, <2>1, <3>1, <3>2 DEF Range
    <2>8. ASSUME ~disagreed', NEW p \in DOMAIN current', Range(bags[current[p]]) \subseteq scene
          PROVE  Range(bags'[current'[p]]) \subseteq scene'
        <3>1. current[p] \in DOMAIN bags
            BY <1>1, <2>8, DataOfCurrent DEF ClientInv
        <3>2. \A l \in DOMAIN bags[current[p]], m \in DOMAIN disappearing :
                bags[current[p]][l] # disappearing[m]
            BY <3>1, OldObjectsApart DEF ClientInv
        <3> QED BY <1>1, <2>1, <2>8, <3>2 DEF Range
    <2>9. SceneInv'
        BY <1>1, <2>2, <2>3, <2>6, <2>7, <2>8 DEF StoryInv, SceneInv
    <2> QED BY <2>4, <2>5, <2>9 DEF StoryInv
<1> QED BY <1>2, <1>3

\* Loot that a later state drops is gone: it was seen before, and nobody has it.
LEMMA DroppedLootIsGone ==
    ASSUME DrawnInv, StateIsShown, started, desired \in Snapshots,
           NEW snapshot \in Snapshots, Later(desired.place, snapshot.place),
           Housed(snapshot.place, snapshot.inGame), NEW l \in Dropped(snapshot)
    PROVE  snapshot.place[l] = "gone" /\ desired.place[l] # "gone"
<1>1. /\ "none" \notin Players /\ "map" \notin Players /\ "gone" \notin Players
      /\ snapshot.place \in [Loots -> Places] /\ snapshot.inGame \subseteq Players
      /\ desired.inGame \subseteq Players
    BY ClientAssumption DEF Snapshots
<1>2. /\ DOMAIN current = desired.inGame /\ DOMAIN lostObjects = OnMap(desired)
      /\ \A p \in DOMAIN current : DOMAIN bags[current[p]] = CarriedBy(desired, p)
    BY DEF StateIsShown
<1>3. CASE l \in AbandonedBy(snapshot) \ AttachedBy(snapshot)
    <2>1. l \in DOMAIN lostObjects /\ l \in Loots /\ desired.place[l] = "map" /\ snapshot.place[l] # "map"
        BY <1>2, <1>3 DEF AbandonedBy, OnMap
    <2>2. snapshot.place[l] \in Places /\ snapshot.place[l] # "none"
        BY <1>1, <2>1 DEF Later
    <2>3. ASSUME snapshot.place[l] \in Players PROVE FALSE
        <3> DEFINE p == snapshot.place[l]
        <3>1. p \in snapshot.inGame /\ l \in CarriedBy(snapshot, p)
            BY <2>1, <2>3 DEF Housed, CarriedBy
        <3>2. l \notin DOMAIN BagOf(p)
            BY <2>1 DEF BagOf, Empty, DrawnInv, LootInOnePlace
        <3> QED BY <1>3, <3>1, <3>2 DEF AttachedBy
    <2> QED BY <2>1, <2>2, <2>3 DEF Places
<1>4. CASE \E p \in snapshot.inGame : l \in DOMAIN BagOf(p) \ CarriedBy(snapshot, p)
    <2>1. PICK p \in snapshot.inGame : l \in DOMAIN BagOf(p) \ CarriedBy(snapshot, p)
        BY <1>4
    <2>2. p \in DOMAIN current /\ l \in DOMAIN bags[current[p]]
        BY <2>1 DEF BagOf, Empty
    <2>3. l \in Loots /\ desired.place[l] = p
        BY <1>2, <2>2 DEF CarriedBy
    <2>4. snapshot.place[l] \in {p, "gone"} /\ snapshot.place[l] # p
        BY <1>1, <2>1, <2>3 DEF Later, CarriedBy
    <2> QED BY <1>1, <2>1, <2>3, <2>4
<1> QED BY <1>3, <1>4 DEF Dropped

\* A state that is applied is what is drawn.
LEMMA AppliedIsShown ==
    ASSUME DrawnInv, NEW snapshot \in Snapshots, NEW listed, Listing(listed),
           NEW shownScene, NEW newData, NEW created,
           AppliedWith(snapshot, listed, shownScene, newData, created)
    PROVE  /\ DOMAIN current' = snapshot.inGame /\ DOMAIN players' = DOMAIN listed
           /\ DOMAIN lostObjects' = OnMap(snapshot)
           /\ \A p \in DOMAIN current' : DOMAIN bags'[current'[p]] = CarriedBy(snapshot, p)
<1>1. DOMAIN current' = snapshot.inGame /\ DOMAIN players' = DOMAIN listed
    BY DEF AppliedWith
<1>2. /\ DOMAIN lostObjects' = OnMap(snapshot)
      /\ \A p \in snapshot.inGame : DOMAIN bags'[current'[p]] = CarriedBy(snapshot, p)
    BY WhereObjectsComeFrom
<1> QED BY <1>1, <1>2

\* Nothing is drawn before the game has started.
LEMMA EmptyScene ==
    ASSUME DrawnInv', DOMAIN current' = {}, DOMAIN lostObjects' = {}, DOMAIN disappearing' = {},
           DOMAIN bags' = {}, scene' = {}
    PROVE  SceneInv'
<1>1. \A p \in DOMAIN players' : players'[p] = NoData
    BY DEF DrawnInv, DataInUse, Range
<1> QED BY <1>1 DEF SceneInv, Range

\* A state arrives: the answers go on with the story it tells.
LEMMA StateArrivesInStory ==
    ASSUME ClientInv, StoryInv, NEW i, StateArrives(i)
    PROVE  /\ AnswersInv'
           /\ \A p : GoneFrom(answers["state"], Left, p) => GoneFrom(answers'["state"], Left', p)
           /\ answers'["players"] = answers["players"] /\ Left' = Left
           /\ i \in Told(answers["state"]) =>
                \A p \in KnownByState \ desired'.inGame : GoneFrom(answers'["state"], Left', p)
<1> DEFINE q == answers["state"]
           short == Without(q, i)
<1>1. /\ i \in DOMAIN q /\ Me \in q[i].told.inGame
      /\ answers' = [answers EXCEPT !["state"] = short]
      /\ UNCHANGED <<life, place, playersLoaded>>
      /\ desired' = q[i].told /\ stateLoaded' = TRUE
    BY DEF StateArrives, Take, StartGame, Unauthorized, world
<1>2. answers \in [Kinds -> Seq(Answers)] /\ "state" \in Kinds /\ "players" \in Kinds
    BY DEF ClientInv, MessagesTyped, Kinds
<1>3. q \in Seq(Answers) /\ answers'["state"] = short /\ answers'["players"] = answers["players"]
    BY <1>1, <1>2
<1>4. Seen' = Seen /\ Left' = Left /\ inGame' = inGame /\ place' = place
    BY <1>1 DEF Seen, Left, inGame
<1>5. KnownByState' = q[i].told.inGame
    BY <1>1 DEF KnownByState
<1>6. DOMAIN players' = DOMAIN players
    <2>1. CASE started'
        <3>1. ApplyDesiredState(desired', players, scene)
            BY <2>1 DEF StateArrives
        <3> QED BY <3>1 DEF ApplyDesiredState
    <2>2. CASE ~started'
        BY <2>2 DEF StateArrives, drawn
    <2> QED BY <2>1, <2>2
<1>7. /\ PlayersStory(q, KnownByState, Seen, Left)
      /\ LootStory(q, stateLoaded, desired, place, inGame)
      /\ PlayersStory(answers["players"], DOMAIN players, Seen, Left)
    BY DEF StoryInv, AnswersInv
<1>8. i \in Tells(q) /\ LateFirst(q) /\ stateLoaded \in BOOLEAN
    BY <1>1, <1>7 DEF Tells, PlayersStory, ClientInv, StoryTyped
<1>9. \E o : Thinned(short, q, i, TRUE, o)
    <2> HIDE DEF q
    <2> QED BY <1>1, <1>3, QueueThins
<1>10. PICK o : Thinned(short, q, i, TRUE, o)
    BY <1>9
<1> HIDE DEF q, short
<1>11. /\ PlayersStory(short, q[i].told.inGame, Seen, Left)
       /\ \A p : GoneFrom(q, Left, p) => GoneFrom(short, Left, p)
    BY <1>1, <1>3, <1>7, <1>8, <1>10, PlayersStoryThins
<1>12. LootStory(short, TRUE, q[i].told, place, inGame)
    BY <1>1, <1>3, <1>7, <1>8, <1>10, LootStoryThins
<1>13. AnswersInv'
    BY <1>1, <1>3, <1>4, <1>5, <1>6, <1>7, <1>11, <1>12 DEF AnswersInv
<1>14. \A p : GoneFrom(answers["state"], Left, p) => GoneFrom(answers'["state"], Left', p)
    BY <1>3, <1>4, <1>11 DEF q
<1>15. ASSUME i \in Told(q), NEW p \in KnownByState \ q[i].told.inGame
       PROVE  GoneFrom(short, Left, p)
    BY <1>3, <1>7, <1>10, <1>15, PlayersLeave
<1>16. i \in Told(answers["state"]) =>
            \A p \in KnownByState \ desired'.inGame : GoneFrom(answers'["state"], Left', p)
    BY <1>1, <1>3, <1>4, <1>15 DEF q
<1> QED BY <1>3, <1>4, <1>13, <1>14, <1>16

LEMMA StateArrivesKeepsStory ==
    ASSUME ClientInv, StoryInv, NEW i, StateArrives(i)
    PROVE  StoryInv'
<1> DEFINE q == answers["state"]
           snapshot == q[i].told
<1>1. /\ AnswersInv'
      /\ \A p : GoneFrom(answers["state"], Left, p) => GoneFrom(answers'["state"], Left', p)
      /\ answers'["players"] = answers["players"] /\ Left' = Left
      /\ i \in Told(answers["state"]) =>
            \A p \in KnownByState \ desired'.inGame : GoneFrom(answers'["state"], Left', p)
    BY StateArrivesInStory
<1>2. /\ desired' = snapshot /\ stateLoaded' = TRUE /\ playersLoaded' = playersLoaded
      /\ started' = (TRUE /\ playersLoaded)
      /\ i \in DOMAIN q /\ Me \in snapshot.inGame
      /\ disagreed' = (disagreed \/ Disagrees("state", q[i]))
    BY DEF StateArrives, StartGame, Take, Unauthorized
<1>3. DrawnInv /\ DrawnInv' /\ snapshot \in Snapshots /\ (stateLoaded => desired \in Snapshots)
    <2>1. ClientInv'
        BY StateArrivesKeepsTypes
    <2>2. Take("state", i) /\ "state" \in Kinds
        BY DEF StateArrives, Kinds
    <2> QED BY <2>1, <2>2, TakeKeepsTypes DEF ClientInv, StoryTyped
<1>4. StateIsShown /\ SceneInv
    BY DEF StoryInv
<1>7. AnswersInv'
    BY StateArrivesInStory
<1>5. CASE ~started'
    <2>1. UNCHANGED <<current, players, bags, lostObjects, disappearing, scene>>
        BY <1>5 DEF StateArrives, drawn
    <2>2. /\ DOMAIN current = {} /\ DOMAIN lostObjects = {}
          /\ DOMAIN disappearing = {} /\ DOMAIN bags = {} /\ scene = {}
        BY <1>2, <1>4, <1>5 DEF StateIsShown
    <2>3. StateIsShown'
        BY <1>2, <1>5, <2>1, <2>2 DEF StateIsShown
    <2>4. SceneInv'
        BY <1>3, <2>1, <2>2, EmptyScene
    <2> QED BY <1>7, <2>3, <2>4 DEF StoryInv
<1>6. CASE started'
    <2>1. ApplyDesiredState(snapshot, players, scene) /\ Listing(players)
        BY <1>2, <1>3, <1>6, PlayersAreListing DEF StateArrives
    <2> HIDE DEF snapshot
    <2>2. PICK newData, created : AppliedWith(snapshot, players, scene, newData, created)
        BY <1>3, <2>1, Applied
    <2>3. /\ DOMAIN current' = snapshot.inGame /\ DOMAIN players' = DOMAIN players
          /\ DOMAIN lostObjects' = OnMap(snapshot)
          /\ \A p \in DOMAIN current' : DOMAIN bags'[current'[p]] = CarriedBy(snapshot, p)
        BY <1>3, <2>1, <2>2, AppliedIsShown
    <2>4. StateIsShown'
        BY <1>2, <1>6, <2>3 DEF StateIsShown, OnMap, CarriedBy
    <2>6. ASSUME ~disagreed' PROVE SceneInv'
        <3>1. /\ ~disagreed /\ i \in Told(q)
              /\ \A p \in DOMAIN current \ snapshot.inGame :
                    p \in DOMAIN players \/ bags[current[p]] = Empty
            BY <1>2, <2>6 DEF Disagrees, Told, Tells, snapshot
        <3>2. /\ scene \subseteq Held({lostObjects, disappearing} \cup Range(bags))
              /\ Range(lostObjects) \subseteq scene
              /\ \A p \in DOMAIN current :
                    \/ p \notin DOMAIN players /\ GoneFrom(answers["players"], Left, p)
                    \/ Range(bags[current[p]]) \subseteq scene
              /\ \A p \in DOMAIN players \ DOMAIN current :
                    players[p] # NoData => GoneFrom(q, Left, p)
              /\ \A l \in DOMAIN disappearing : desired.place[l] = "gone"
            BY <1>4, <3>1 DEF SceneInv
        <3>3. started => /\ stateLoaded /\ KnownByState = DOMAIN current
                         /\ desired \in Snapshots
                         /\ Later(desired.place, snapshot.place)
                         /\ Housed(snapshot.place, snapshot.inGame)
            <4>1. LootStory(q, stateLoaded, desired, place, inGame) /\ i \in Tells(q)
                BY <3>1 DEF StoryInv, AnswersInv, Told
            <4> QED BY <1>3, <1>4, <3>1, <4>1 DEF StateIsShown, KnownByState, LootStory, snapshot
        <3>4. ~started => /\ DOMAIN current = {} /\ DOMAIN lostObjects = {}
                          /\ DOMAIN disappearing = {} /\ DOMAIN bags = {} /\ scene = {}
            BY <1>4 DEF StateIsShown
        <3>5. ASSUME NEW l \in Dropped(snapshot)
              PROVE  started /\ snapshot.place[l] = "gone" /\ desired.place[l] # "gone"
            <4>1. started
                BY <3>4, <3>5 DEF Dropped, AbandonedBy, BagOf, Empty
            <4> QED BY <1>3, <1>4, <3>3, <3>5, <4>1, DroppedLootIsGone
        <3>6. DOMAIN disappearing \cap Dropped(snapshot) = {}
            BY <3>2, <3>5
        <3>7. ASSUME NEW r \in DOMAIN bags \ Range(current)
              PROVE  \E p \in DOMAIN players \ NewPlayers(snapshot) : players[p] = r
            <4>1. PICK p \in DOMAIN players : players[p] = r /\ players[p] # NoData
                BY <1>3, <3>7 DEF DrawnInv, DataInUse, Range
            <4>2. p \notin DOMAIN current
                BY <1>3, <3>7, <4>1 DEF DrawnInv, TablesShareBags, Range
            <4>3. p \notin snapshot.inGame
                BY <3>1, <3>2, <4>1, <4>2 DEF GoneFrom, snapshot
            <4> QED BY <4>1, <4>3 DEF NewPlayers
        <3>8. scene' \subseteq Held({lostObjects', disappearing'} \cup Range(bags'))
            BY <1>3, <2>1, <2>2, <3>1, <3>2, <3>6, <3>7, AppliedHoldsScene
        <3>9. /\ Range(lostObjects') \subseteq scene'
              /\ \A p \in snapshot.inGame :
                    (p \in DOMAIN current => Range(bags[current[p]]) \subseteq scene)
                    => Range(bags'[current'[p]]) \subseteq scene'
            BY <1>3, <2>1, <2>2, <3>2, AppliedShowsObjects
        <3>10. \A p \in DOMAIN current' :
                    \/ p \notin DOMAIN players' /\ GoneFrom(answers'["players"], Left', p)
                    \/ Range(bags'[current'[p]]) \subseteq scene'
            BY <1>1, <2>3, <3>2, <3>9
        <3>11. ASSUME NEW p \in DOMAIN players' \ DOMAIN current', players'[p] # NoData
               PROVE  GoneFrom(answers'["state"], Left', p)
            <4>1. p \in DOMAIN players /\ p \notin snapshot.inGame /\ players'[p] = players[p]
                BY <2>2, <2>3 DEF AppliedWith, NewPlayers
            <4>2. CASE p \in DOMAIN current
                BY <1>1, <1>2, <3>1, <3>3, <3>4, <4>1, <4>2
            <4>3. CASE p \notin DOMAIN current
                BY <1>1, <3>2, <3>11, <4>1, <4>3
            <4> QED BY <4>2, <4>3
        <3>12. ASSUME NEW l \in DOMAIN disappearing' PROVE desired'.place[l] = "gone"
            <4>1. l \in DOMAIN disappearing \cup Dropped(snapshot)
                BY <2>2 DEF AppliedWith
            <4>2. CASE l \in DOMAIN disappearing
                <5>1. started /\ desired.place[l] = "gone" /\ l \in Loots
                    BY <1>3, <3>2, <3>4, <4>2, PartialValues DEF DrawnInv, DrawnTyped
                <5> QED BY <1>2, <3>3, <5>1 DEF Later
            <4> QED BY <1>2, <3>5, <4>1, <4>2
        <3> QED BY <3>8, <3>9, <3>10, <3>11, <3>12 DEF SceneInv
    <2>7. SceneInv'
        BY <2>6 DEF SceneInv
    <2> QED BY <1>7, <2>4, <2>7 DEF StoryInv
<1> QED BY <1>5, <1>6

\* A list arrives: the answers go on with the story it tells.
LEMMA PlayersArriveInStory ==
    ASSUME ClientInv, StoryInv, NEW i, PlayersArrive(i)
    PROVE  /\ AnswersInv'
           /\ \A p : GoneFrom(answers["players"], Left, p) => GoneFrom(answers'["players"], Left', p)
           /\ answers'["state"] = answers["state"] /\ Left' = Left
           /\ i \in Told(answers["players"]) =>
                \A p \in DOMAIN players \ DOMAIN players' : GoneFrom(answers'["players"], Left', p)
<1> DEFINE q == answers["players"]
           short == Without(q, i)
<1>1. /\ i \in DOMAIN q /\ Me \in q[i].told.inGame
      /\ answers' = [answers EXCEPT !["players"] = short]
      /\ UNCHANGED <<life, place, stateLoaded, desired>>
    BY DEF PlayersArrive, Take, StartGame, Unauthorized, world
<1>2. answers \in [Kinds -> Seq(Answers)] /\ "state" \in Kinds /\ "players" \in Kinds
    BY DEF ClientInv, MessagesTyped, Kinds
<1>3. q \in Seq(Answers) /\ answers'["players"] = short /\ answers'["state"] = answers["state"]
    BY <1>1, <1>2
<1>4. /\ Seen' = Seen /\ Left' = Left /\ inGame' = inGame /\ place' = place
      /\ KnownByState' = KnownByState /\ stateLoaded' = stateLoaded /\ desired' = desired
    BY <1>1 DEF Seen, Left, inGame, KnownByState
<1>5. DOMAIN players' = q[i].told.inGame
    BY DEF PlayersArrive, ApplyDesiredState, KeepDesiredState, Listed
<1>6. /\ PlayersStory(q, DOMAIN players, Seen, Left)
      /\ LootStory(answers["state"], stateLoaded, desired, place, inGame)
      /\ PlayersStory(answers["state"], KnownByState, Seen, Left)
    BY DEF StoryInv, AnswersInv
<1>7. i \in Tells(q)
    BY <1>1 DEF Tells
<1>8. \E o : Thinned(short, q, i, TRUE, o)
    <2> HIDE DEF q
    <2> QED BY <1>1, <1>3, QueueThins
<1>9. PICK o : Thinned(short, q, i, TRUE, o)
    BY <1>8
<1> HIDE DEF q, short
<1>10. /\ PlayersStory(short, q[i].told.inGame, Seen, Left)
       /\ \A p : GoneFrom(q, Left, p) => GoneFrom(short, Left, p)
    BY <1>1, <1>3, <1>6, <1>7, <1>9, PlayersStoryThins
<1>11. AnswersInv'
    BY <1>3, <1>4, <1>5, <1>6, <1>10 DEF AnswersInv
<1>12. \A p : GoneFrom(answers["players"], Left, p) => GoneFrom(answers'["players"], Left', p)
    BY <1>3, <1>4, <1>10 DEF q
<1>13. ASSUME i \in Told(q), NEW p \in DOMAIN players \ q[i].told.inGame
       PROVE  GoneFrom(short, Left, p)
    BY <1>3, <1>6, <1>9, <1>13, PlayersLeave
<1>14. i \in Told(answers["players"]) =>
            \A p \in DOMAIN players \ DOMAIN players' : GoneFrom(answers'["players"], Left', p)
    BY <1>3, <1>4, <1>5, <1>13 DEF q
<1> QED BY <1>3, <1>4, <1>11, <1>12, <1>14

\* A list that comes alone.
LEMMA ListKeepsScene ==
    ASSUME DrawnInv, StateIsShown, SceneInv, NEW told \in Snapshots, NEW q, NEW i \in Told(q),
           q = answers["players"], told = q[i].told, ~disagreed,
           KeepDesiredState(Listed(told), SceneAfterList(told)),
           UNCHANGED <<desired, Left>>, answers'["state"] = answers["state"],
           \A p : GoneFrom(q, Left, p) => GoneFrom(answers'["players"], Left', p),
           \A p \in DOMAIN players \ DOMAIN players' : GoneFrom(answers'["players"], Left', p)
    PROVE  SceneInv'
<1> DEFINE listed == Listed(told)
<1>1. /\ players' = listed
      /\ bags' = [r \in DataInUse(current, listed) |-> bags[r]]
      /\ scene' = scene \ UNION {Range(bags[players[p]]) :
                        p \in {x \in DOMAIN players \ told.inGame : players[x] # NoData}}
      /\ UNCHANGED <<current, lostObjects, disappearing>>
    BY DEF KeepDesiredState, SceneAfterList, Restrict, DataInUse
<1>2. /\ DOMAIN listed = told.inGame
      /\ \A p \in told.inGame : listed[p] =
            IF p \in DOMAIN players THEN players[p]
            ELSE IF p \in DOMAIN current THEN current[p] ELSE NoData
    BY DEF Listed
<1> HIDE DEF listed
<1>3. /\ scene \subseteq Held({lostObjects, disappearing} \cup Range(bags))
      /\ Range(lostObjects) \subseteq scene
      /\ \A p \in DOMAIN current :
            \/ p \notin DOMAIN players /\ GoneFrom(q, Left, p)
            \/ Range(bags[current[p]]) \subseteq scene
      /\ \A p \in DOMAIN players \ DOMAIN current :
            players[p] # NoData => GoneFrom(answers["state"], Left, p)
      /\ \A l \in DOMAIN disappearing : desired.place[l] = "gone"
    BY DEF SceneInv
<1>4. \A p \in DOMAIN players : players[p] # NoData => players[p] \in DOMAIN bags
    BY DEF DrawnInv, DataInUse, Range
<1>5. \A p \in DOMAIN current : /\ current[p] \in DOMAIN bags /\ current[p] # NoData
                                /\ bags'[current[p]] = bags[current[p]]
    BY <1>1, DataOfCurrent DEF DataInUse, Range
<1>6. ASSUME NEW object \in scene'
      PROVE  object \in Held({lostObjects', disappearing'} \cup Range(bags'))
    <2>1. object \in scene /\ object \in Held({lostObjects, disappearing} \cup Range(bags))
        BY <1>1, <1>3
    <2>2. \/ \E l \in DOMAIN lostObjects : object = lostObjects[l]
          \/ \E l \in DOMAIN disappearing : object = disappearing[l]
          \/ \E r \in DOMAIN bags : \E l \in DOMAIN bags[r] : object = bags[r][l]
        BY <2>1, HeldByTables, SMTT(25)
    <2>3. ASSUME NEW r \in DOMAIN bags, NEW l \in DOMAIN bags[r], object = bags[r][l]
          PROVE  r \in DOMAIN bags' /\ bags'[r] = bags[r]
        <3>1. CASE r \in Range(current)
            BY <1>1, <1>5, <3>1 DEF DataInUse, Range
        <3>2. CASE r \notin Range(current)
            <4>1. PICK p \in DOMAIN players : players[p] = r /\ r # NoData
                BY <2>3, <3>2 DEF DrawnInv, DataInUse, Range
            <4>2. CASE p \in told.inGame
                <5>1. r \in DataInUse(current, listed)
                    BY <1>2, <4>1, <4>2 DEF DataInUse, Range
                <5> QED BY <1>1, <5>1
            <4>3. CASE p \notin told.inGame
                <5>1. object \in Range(bags[players[p]])
                    BY <2>3, <4>1 DEF Range
                <5> QED BY <1>1, <4>1, <4>3, <5>1
            <4> QED BY <4>2, <4>3
        <3> QED BY <3>1, <3>2
    <2>4. \/ \E l \in DOMAIN lostObjects' : object = lostObjects'[l]
          \/ \E l \in DOMAIN disappearing' : object = disappearing'[l]
          \/ \E r \in DOMAIN bags' : \E l \in DOMAIN bags'[r] : object = bags'[r][l]
        BY <1>1, <2>2, <2>3
    <2> QED BY <2>4, HeldAfter
<1>7. Range(lostObjects') \subseteq scene'
    <2>1. ASSUME NEW l \in DOMAIN lostObjects, NEW p \in DOMAIN players, players[p] # NoData,
                 lostObjects[l] \in Range(bags[players[p]])
          PROVE  FALSE
        BY <1>4, <2>1, OldObjectsApart DEF Range
    <2> QED BY <1>1, <1>3, <2>1 DEF Range
<1>8. ASSUME NEW p \in DOMAIN current, Range(bags[current[p]]) \subseteq scene,
             p \in told.inGame \/ p \notin DOMAIN players
      PROVE  Range(bags'[current'[p]]) \subseteq scene'
    <2>1. ASSUME NEW l \in DOMAIN bags[current[p]], NEW x \in DOMAIN players \ told.inGame,
                 players[x] # NoData, bags[current[p]][l] \in Range(bags[players[x]])
          PROVE  FALSE
        <3>1. current[p] = players[x]
            BY <1>4, <1>5, <2>1, OldObjectsApart DEF Range
        <3>2. p = x
            BY <2>1, <3>1 DEF DrawnInv, Apart
        <3> QED BY <1>8, <2>1, <3>2
    <2> QED BY <1>1, <1>5, <1>8, <2>1 DEF Range
<1>9. ASSUME NEW p \in DOMAIN current'
      PROVE  \/ p \notin DOMAIN players' /\ GoneFrom(answers'["players"], Left', p)
             \/ Range(bags'[current'[p]]) \subseteq scene'
    <2>1. p \in DOMAIN current /\ DOMAIN players' = told.inGame
        BY <1>1, <1>2, <1>9
    <2>2. CASE p \in told.inGame
        <3>1. ~GoneFrom(q, Left, p)
            BY <2>2 DEF GoneFrom
        <3> QED BY <1>3, <1>8, <2>1, <2>2, <3>1
    <2>3. CASE p \notin told.inGame /\ p \in DOMAIN players
        BY <2>1, <2>3
    <2>4. CASE p \notin told.inGame /\ p \notin DOMAIN players
        BY <1>3, <1>8, <2>1, <2>4
    <2> QED BY <2>2, <2>3, <2>4
<1>10. ASSUME NEW p \in DOMAIN players' \ DOMAIN current', players'[p] # NoData
       PROVE  GoneFrom(answers'["state"], Left', p)
    <2>1. p \notin DOMAIN current /\ p \in told.inGame /\ players'[p] = listed[p]
        BY <1>1, <1>2, <1>10
    <2>2. p \in DOMAIN players /\ players[p] # NoData
        BY <1>2, <1>10, <2>1
    <2> QED BY <1>3, <2>1, <2>2
<1>11. \A l \in DOMAIN disappearing' : desired'.place[l] = "gone"
    BY <1>1, <1>3
<1> QED BY <1>6, <1>7, <1>9, <1>10, <1>11 DEF SceneInv

\* The list that starts the game finds nothing drawn.
LEMMA StartShowsScene ==
    ASSUME DrawnInv, desired \in Snapshots, NEW listed, Listing(listed),
           ApplyDesiredState(desired, listed, scene),
           DOMAIN current = {}, DOMAIN lostObjects = {}, DOMAIN disappearing = {},
           DOMAIN bags = {}, scene = {}
    PROVE  SceneInv'
<1>1. PICK newData, created : AppliedWith(desired, listed, scene, newData, created)
    BY Applied
<1>2. Dropped(desired) = {}
    BY DEF Dropped, AbandonedBy, BagOf, Empty
<1>3. DOMAIN disappearing' = {}
    BY <1>1, <1>2 DEF AppliedWith
<1>4. scene' \subseteq Held({lostObjects', disappearing'} \cup Range(bags'))
    BY <1>1, <1>2, AppliedHoldsScene
<1>5. /\ Range(lostObjects') \subseteq scene'
      /\ \A p \in DOMAIN current' : Range(bags'[current'[p]]) \subseteq scene'
    <2>1. Range(lostObjects) \subseteq scene
        BY DEF Range
    <2>2. /\ Range(lostObjects') \subseteq scene'
          /\ \A p \in desired.inGame :
                (p \in DOMAIN current => Range(bags[current[p]]) \subseteq scene)
                => Range(bags'[current'[p]]) \subseteq scene'
        BY <1>1, <2>1, AppliedShowsObjects
    <2>3. DOMAIN current' = desired.inGame
        BY <1>1 DEF AppliedWith
    <2> QED BY <2>2, <2>3
<1>6. ASSUME NEW p \in DOMAIN players' \ DOMAIN current' PROVE players'[p] = NoData
    <2>1. p \in DOMAIN listed /\ players'[p] = listed[p]
        BY <1>1 DEF AppliedWith, NewPlayers
    <2> QED BY <2>1 DEF Listing, Range
<1> QED BY <1>3, <1>4, <1>5, <1>6 DEF SceneInv

LEMMA PlayersArriveKeepsStory ==
    ASSUME ClientInv, StoryInv, NEW i, PlayersArrive(i)
    PROVE  StoryInv'
<1> DEFINE q == answers["players"]
           told == q[i].told
           shownScene == SceneAfterList(told)
<1>1. AnswersInv'
    BY PlayersArriveInStory
<1>2. /\ \A p : GoneFrom(answers["players"], Left, p) => GoneFrom(answers'["players"], Left', p)
      /\ answers'["state"] = answers["state"] /\ Left' = Left
      /\ i \in Told(answers["players"]) =>
            \A p \in DOMAIN players \ DOMAIN players' : GoneFrom(answers'["players"], Left', p)
    BY PlayersArriveInStory
<1>3. /\ UNCHANGED <<desired, stateLoaded>> /\ playersLoaded' = TRUE
      /\ started' = (stateLoaded /\ TRUE)
      /\ IF started' /\ ~started
         THEN ApplyDesiredState(desired, Listed(told), shownScene)
         ELSE KeepDesiredState(Listed(told), shownScene)
      /\ i \in DOMAIN q /\ Me \in told.inGame
      /\ disagreed' = (disagreed \/ Disagrees("players", q[i]))
    BY DEF PlayersArrive, StartGame, Take, Unauthorized
<1>4. DrawnInv /\ DrawnInv' /\ told \in Snapshots /\ (stateLoaded => desired \in Snapshots)
    <2>1. ClientInv'
        BY PlayersArriveKeepsTypes
    <2>2. Take("players", i) /\ "players" \in Kinds
        BY DEF PlayersArrive, Kinds
    <2> QED BY <2>1, <2>2, TakeKeepsTypes DEF ClientInv, StoryTyped
<1>5. StateIsShown /\ SceneInv
    BY DEF StoryInv
<1>6. Listing(Listed(told))
    BY <1>4, ListIsListing
<1>7. ~disagreed' => ~disagreed /\ i \in Told(q)
    BY <1>3 DEF Disagrees, Told, Tells
<1>8. CASE ~started
    <2>1. /\ DOMAIN current = {} /\ DOMAIN lostObjects = {}
          /\ DOMAIN disappearing = {} /\ DOMAIN bags = {} /\ scene = {}
        BY <1>5, <1>8 DEF StateIsShown
    <2>2. shownScene = scene
        BY <2>1 DEF SceneAfterList
    <2>3. CASE started'
        <3>1. ApplyDesiredState(desired, Listed(told), scene) /\ desired \in Snapshots
            BY <1>3, <1>4, <1>8, <2>2, <2>3
        <3> HIDE DEF told, shownScene
        <3>2. SceneInv'
            BY <1>4, <1>6, <2>1, <3>1, StartShowsScene
        <3>3. PICK newData, created : AppliedWith(desired, Listed(told), scene, newData, created)
            BY <1>4, <1>6, <3>1, Applied
        <3>4. /\ DOMAIN current' = desired.inGame /\ DOMAIN lostObjects' = OnMap(desired)
              /\ \A p \in DOMAIN current' : DOMAIN bags'[current'[p]] = CarriedBy(desired, p)
            BY <1>4, <1>6, <3>1, <3>3, AppliedIsShown
        <3>5. StateIsShown'
            BY <1>3, <2>3, <3>4 DEF StateIsShown, OnMap, CarriedBy
        <3> QED BY <1>1, <3>2, <3>5 DEF StoryInv
    <2>4. CASE ~started'
        <3>1. /\ UNCHANGED <<current, lostObjects, disappearing>> /\ scene' = scene
              /\ DOMAIN bags' = DataInUse(current, Listed(told))
            BY <1>3, <2>2, <2>4 DEF KeepDesiredState, Restrict, DataInUse
        <3>2. DOMAIN bags' = {}
            BY <1>6, <2>1, <3>1 DEF Listing, DataInUse, Range
        <3>3. SceneInv'
            BY <1>4, <2>1, <3>1, <3>2, EmptyScene
        <3>4. StateIsShown'
            BY <1>3, <2>1, <2>4, <3>1, <3>2 DEF StateIsShown
        <3> QED BY <1>1, <3>3, <3>4 DEF StoryInv
    <2> QED BY <2>3, <2>4
<1>9. CASE started
    <2>1. KeepDesiredState(Listed(told), shownScene)
        BY <1>3, <1>9
    <2>2. started' /\ playersLoaded /\ stateLoaded
        BY <1>3, <1>5, <1>9 DEF StateIsShown
    <2>3. \A p \in DOMAIN current : bags'[current[p]] = bags[current[p]]
        BY <1>4, <2>1, DataOfCurrent DEF KeepDesiredState, Restrict, Range
    <2>4. UNCHANGED <<current, lostObjects, disappearing>>
        BY <2>1 DEF KeepDesiredState
    <2>5. StateIsShown'
        BY <1>3, <1>5, <1>9, <2>2, <2>3, <2>4 DEF StateIsShown, OnMap, CarriedBy
    <2>6. ASSUME ~disagreed' PROVE SceneInv'
        BY <1>2, <1>3, <1>4, <1>5, <1>7, <2>1, <2>6, ListKeepsScene
    <2>7. SceneInv'
        BY <2>6 DEF SceneInv
    <2> QED BY <1>1, <2>5, <2>7 DEF StoryInv
<1> QED BY <1>8, <1>9

LEMMA RefusedKeepsStory ==
    ASSUME ClientInv, StoryInv, NEW kind \in Kinds, NEW i, Refused(kind, i)
    PROVE  StoryInv'
<1>1. /\ i \in DOMAIN answers[kind]
      /\ answers' = [answers EXCEPT ![kind] = Without(answers[kind], i)]
      /\ UNCHANGED <<life, place, desired, startup, drawn, disagreed>>
    BY DEF Refused, Take, world
<1> QED BY <1>1, LossKeepsStory

LEMMA StepKeepsStory ==
    ASSUME ClientInv, StoryInv, [Next]_vars
    PROVE  StoryInv'
<1> DEFINE Quiet == UNCHANGED <<life, place, answers, desired, startup, drawn, disagreed>>
<1>1. CASE Server
    <2>1. ASSUME NEW i \in DOMAIN actions, ServeAction(i) PROVE Quiet
        BY <2>1 DEF ServeAction, UnchangedPage
    <2> QED BY <1>1, <2>1, GameKeepsStory, ServeKeepsStory, QuietKeepsStory DEF Server
<1>2. CASE Network
    <2>1. ASSUME NEW i \in DOMAIN actions, ActionFails(i) PROVE Quiet
        BY <2>1 DEF ActionFails, UnchangedPage, world, history
    <2>2. ASSUME NEW kind \in Kinds, NEW i \in DOMAIN answers[kind], AnswerFails(kind, i)
          PROVE  StoryInv'
        <3>1. /\ UNCHANGED <<life, place, desired, startup, drawn, disagreed>>
              /\ answers' = [answers EXCEPT ![kind] = RemoveAt(answers[kind], i)]
            BY <2>2 DEF AnswerFails, UnchangedPage, world, history
        <3> QED BY <3>1, LossKeepsStory
    <2> QED BY <1>2, <2>1, <2>2, QuietKeepsStory DEF Network
<1>3. CASE Browser
    <2>1. ASSUME LoadActor \/ LoadLootType \/ NewGameState \/ ActionDone PROVE Quiet
        BY <2>1 DEF LoadActor, LoadLootType, NewGameState, ActionDone, world, network, history
    <2>2. ASSUME NEW key \in Keys, KeyDown(key) \/ KeyUp(key) PROVE Quiet
        BY <2>2 DEF KeyDown, KeyUp, PressKey, world, history
    <2>3. "state" \in Kinds /\ "players" \in Kinds
        BY DEF Kinds
    <2> QED BY <1>3, <2>1, <2>2, <2>3, QuietKeepsStory, TickKeepsStory, StateArrivesKeepsStory,
               PlayersArriveKeepsStory, RefusedKeepsStory DEF Browser
<1>4. CASE UNCHANGED vars
    <2>1. Quiet
        BY <1>4 DEF vars, world, network, history
    <2> QED BY <2>1, QuietKeepsStory
<1> QED BY <1>1, <1>2, <1>3, <1>4 DEF Next

LEMMA InitTellsStory ==
    ASSUME Init
    PROVE  StoryInv
<1> USE DEF Init
<1>1. \A kind \in Kinds : answers[kind] = <<>> /\ Tells(answers[kind]) = {} /\ Told(answers[kind]) = {}
    BY EmptySeq DEF Tells, Told
<1>2. "state" \in Kinds /\ "players" \in Kinds
    BY DEF Kinds
<1>3. DOMAIN Empty = {} /\ Range(Empty) = {}
    BY DEF Empty, Range
<1>4. KnownByState = {} /\ LateFirst(<<>>)
    BY DEF KnownByState, LateFirst
<1>5. Housed(place, inGame)
    BY ClientAssumption DEF Housed, NotListed
<1>6. AnswersInv
    BY <1>1, <1>2, <1>3, <1>4, <1>5 DEF AnswersInv, PlayersStory, LootStory
<1>7. StateIsShown /\ SceneInv
    BY <1>3 DEF StateIsShown, SceneInv
<1> QED BY <1>6, <1>7 DEF StoryInv

\* As long as the answers tell one story, whatever their order and whichever are lost, the
\* scene shows the loot of the map and of all players listed, and nothing that _dropLoot
\* or _deletePlayer has left behind.
THEOREM SceneMatchesTablesHolds == Spec => []SceneMatchesTables
<1>1. Init => ClientInv /\ StoryInv
    BY InitIsTyped, InitTellsStory
<1>2. ClientInv /\ StoryInv /\ [Next]_vars => ClientInv' /\ StoryInv'
    BY StepKeepsTypes, StepKeepsStory
<1>3. ClientInv /\ StoryInv => SceneMatchesTables
    <2> SUFFICES ASSUME StoryInv, ~disagreed
                 PROVE  /\ scene \subseteq Held({lostObjects, disappearing} \cup Range(bags))
                        /\ Range(lostObjects) \subseteq scene
                        /\ \A p \in DOMAIN current \cap DOMAIN players :
                                Range(bags[current[p]]) \subseteq scene
        BY DEF SceneMatchesTables
    <2> QED BY DEF StoryInv, SceneInv
<1> QED BY <1>1, <1>2, <1>3, PTL DEF Spec

=============================================================================
