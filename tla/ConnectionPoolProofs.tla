------------------------ MODULE ConnectionPoolProofs ------------------------
(***************************************************************************)
(* The connection pool for any number of threads and connections: types,   *)
(* the counter, no connection lost or shared, and the refinement of        *)
(* ConnectionLease.                                                        *)
(***************************************************************************)
EXTENDS ConnectionPool, FiniteSetTheorems, TLAPS

\* The three facts that are inductive together.
IInv == TypeOK /\ CounterCountsUsers /\ NoConnectionLost

\* Null is no connection.
LEMMA NullIsNoConnection == Null \notin Connections
BY PoolAssumption DEF Connections, Slots

\* A new pool has all connections in their slots and no user.
LEMMA InitInvariant == Init => IInv
<1> SUFFICES ASSUME Init PROVE IInv
    OBVIOUS
<1>1. TypeOK
    BY PoolAssumption DEF Init, TypeOK, Connections, Places
<1>2. CounterCountsUsers
    <2>1. Users = {}
        BY DEF Init, Users
    <2> QED BY <2>1, FS_EmptySet DEF Init, CounterCountsUsers
<1>3. NoConnectionLost
    BY PoolAssumption DEF Init, NoConnectionLost, Slots
<1> QED BY <1>1, <1>2, <1>3 DEF IInv

\* The set of users is finite, as the set of threads is.
LEMMA UsersFinite == IsFiniteSet(Users) /\ Cardinality(Users) \in Nat
<1>1. Users \subseteq Threads
    BY DEF Users
<1> QED BY <1>1, PoolAssumption, FS_Subset, FS_CardinalityType

\* A thread that takes a connection is one user more.
LEMMA TakeStep ==
    ASSUME IInv, NEW t \in Threads, Take(t)
    PROVE  IInv'
<1> USE DEF IInv
<1> DEFINE u == used_connections_
           c == pool_[u]
<1>1. u \in Slots /\ c # Null /\ c \in Connections /\ u \in Nat
    BY PoolAssumption DEF Take, HasFree, TypeOK, NoConnectionLost, Slots
<1>2. t \notin Users /\ Users' = Users \cup {t}
    BY <1>1 DEF Take, TypeOK, CounterCountsUsers, Users
<1>3. TypeOK'
    BY <1>1, PoolAssumption DEF Take, TypeOK, HasFree, Places, Slots
<1>4. CounterCountsUsers'
    <2>1. Cardinality(Users') = Cardinality(Users) + 1
        BY <1>2, UsersFinite, FS_AddElement
    <2>2. \A s \in Threads : (pc[s] = "using")' <=> s \in Users'
        BY <1>2 DEF Take, TypeOK, CounterCountsUsers
    <2> QED BY <2>1, <2>2 DEF Take, CounterCountsUsers
<1>5. NoConnectionLost'
    <2>1. \A i \in Slots : pool_'[i] = IF i = u THEN Null ELSE pool_[i]
        BY DEF Take, TypeOK
    <2>2. \A s \in Threads : conn_'[s] = IF s = t THEN c ELSE conn_[s]
        BY DEF Take, TypeOK
    <2>3. u' = u + 1
        BY DEF Take
    <2>4. \A i \in Slots : pool_'[i] = Null <=> i < u'
        BY <1>1, <2>1, <2>3, PoolAssumption DEF NoConnectionLost, Slots
    <2>5. \A i, j \in Slots : pool_'[i] = pool_'[j] /\ pool_'[i] # Null => i = j
        BY <2>1 DEF NoConnectionLost
    <2>6. \A i \in Slots, s \in Threads : pool_'[i] # Null => conn_'[s] # pool_'[i]
        BY <1>1, <2>1, <2>2 DEF NoConnectionLost
    <2>7. \A r, s \in Threads : conn_'[r] = conn_'[s] /\ conn_'[r] # Null => r = s
        BY <1>1, <2>2 DEF NoConnectionLost
    <2> QED BY <2>4, <2>5, <2>6, <2>7 DEF NoConnectionLost
<1> QED BY <1>3, <1>4, <1>5

\* A thread that returns its connection is one user less; since it was one, the
\* counter was not 0.
LEMMA PutBackStep ==
    ASSUME IInv, NEW t \in Threads, PutBack(t)
    PROVE  IInv'
<1> USE DEF IInv
<1> DEFINE u == used_connections_ - 1
           c == conn_[t]
<1>1. t \in Users /\ c # Null /\ c \in Connections
    BY DEF PutBack, TypeOK, CounterCountsUsers, Users
<1>2. Users' = Users \ {t}
    BY DEF PutBack, TypeOK, Users
<1>3. Cardinality(Users') = Cardinality(Users) - 1
    BY <1>1, <1>2, UsersFinite, FS_RemoveElement
<1>4. used_connections_ \in Nat /\ used_connections_ # 0
    <2>1. Cardinality(Users) # 0
        BY <1>1, UsersFinite, FS_EmptySet
    <2> QED BY <2>1, PoolAssumption DEF CounterCountsUsers, TypeOK
<1>5. u \in Slots /\ u \in Nat
    BY <1>4, PoolAssumption DEF TypeOK, Slots
<1>6. TypeOK'
    BY <1>1, <1>5, PoolAssumption DEF PutBack, TypeOK, Places, Slots
<1>7. CounterCountsUsers'
    <2>1. \A s \in Threads : (pc[s] = "using")' <=> s \in Users'
        BY <1>2 DEF PutBack, TypeOK, CounterCountsUsers
    <2> QED BY <1>3, <2>1 DEF PutBack, CounterCountsUsers
<1>8. NoConnectionLost'
    <2>1. \A i \in Slots : pool_'[i] = IF i = u THEN c ELSE pool_[i]
        BY DEF PutBack, TypeOK
    <2>2. \A s \in Threads : conn_'[s] = IF s = t THEN Null ELSE conn_[s]
        BY DEF PutBack, TypeOK
    <2>3. used_connections_' = u
        BY DEF PutBack
    <2>4. \A i \in Slots : pool_'[i] = Null <=> i < u
        BY <1>1, <1>4, <1>5, <2>1, PoolAssumption DEF NoConnectionLost, Slots
    <2>5. \A i, j \in Slots : pool_'[i] = pool_'[j] /\ pool_'[i] # Null => i = j
        BY <1>1, <2>1 DEF NoConnectionLost
    <2>6. \A i \in Slots, s \in Threads : pool_'[i] # Null => conn_'[s] # pool_'[i]
        BY <1>1, <2>1, <2>2 DEF NoConnectionLost
    <2>7. \A r, s \in Threads : conn_'[r] = conn_'[s] /\ conn_'[r] # Null => r = s
        BY <2>2 DEF NoConnectionLost
    <2> QED BY <2>3, <2>4, <2>5, <2>6, <2>7 DEF NoConnectionLost
<1> QED BY <1>6, <1>7, <1>8

\* The other steps move a thread between places where it holds no connection.
LEMMA PlaceStep ==
    ASSUME IInv, NEW t \in Threads,
           Call(t) \/ Wait(t) \/ NotifyOne(t) \/ SpuriousWakeup(t)
    PROVE  IInv'
<1> USE DEF IInv
<1>1. UNCHANGED <<pool_, used_connections_, conn_>> /\ Users' = Users
    BY DEF Call, Wait, NotifyOne, SpuriousWakeup, Users
<1>2. /\ pc' \in [Threads -> Places]
      /\ \A s \in Threads : (pc[s] = "using")' <=> pc[s] = "using"
    <2>1. CASE Call(t)
        BY <2>1 DEF Call, TypeOK, Places
    <2>2. CASE Wait(t)
        BY <2>2 DEF Wait, TypeOK, Places
    <2>3. CASE NotifyOne(t)
        BY <2>3 DEF NotifyOne, TypeOK, Places
    <2>4. CASE SpuriousWakeup(t)
        BY <2>4 DEF SpuriousWakeup, TypeOK, Places
    <2> QED BY <2>1, <2>2, <2>3, <2>4
<1>3. TypeOK'
    BY <1>1, <1>2 DEF TypeOK
<1>4. CounterCountsUsers'
    BY <1>1, <1>2 DEF CounterCountsUsers
<1>5. NoConnectionLost'
    BY <1>1 DEF NoConnectionLost
<1> QED BY <1>3, <1>4, <1>5

\* Types, counter and slots are an invariant of the pool.
THEOREM InvariantHolds == Spec => []IInv
<1>1. IInv /\ [Next]_vars => IInv'
    <2> SUFFICES ASSUME IInv, [Next]_vars PROVE IInv'
        OBVIOUS
    <2>1. CASE UNCHANGED vars
        BY <2>1 DEF vars, IInv, TypeOK, CounterCountsUsers, NoConnectionLost, Users
    <2>2. CASE Next
        <3> PICK t \in Threads : Call(t) \/ ThreadStep(t) \/ SpuriousWakeup(t)
            BY <2>2 DEF Next
        <3> QED BY TakeStep, PutBackStep, PlaceStep DEF ThreadStep
    <2> QED BY <2>1, <2>2
<1> QED BY InitInvariant, <1>1, PTL DEF Spec

\* Slots, counter, wrappers and places keep their types: the counter stays between nothing
\* and the capacity, whatever the threads do.
THEOREM TypeCorrect == Spec => []TypeOK
BY InvariantHolds, PTL DEF IInv

\* The assertion of ReturnConnection holds, and using a connection is having one.
THEOREM CounterCountsUsersHolds == Spec => []CounterCountsUsers
BY InvariantHolds, PTL DEF IInv

\* No connection is lost, duplicated or shared.
THEOREM NoConnectionLostHolds == Spec => []NoConnectionLost
BY InvariantHolds, PTL DEF IInv

\* Threads on their way to a free connection are finitely many.
LEMMA AwakeningFinite == IsFiniteSet(Awakening) /\ Cardinality(Awakening) \in Nat
<1>1. Awakening \subseteq Threads
    BY DEF Awakening
<1> QED BY <1>1, PoolAssumption, FS_Subset, FS_CardinalityType

\* No step loses a wakeup: a connection that becomes free brings its notification,
\* and who consumes a notification consumes the connection or finds none.
LEMMA WakeupStep ==
    ASSUME IInv, NoLostWakeup, NEW t \in Threads,
           Call(t) \/ ThreadStep(t) \/ SpuriousWakeup(t)
    PROVE  NoLostWakeup'
<1> USE DEF IInv
<1> DEFINE free == Capacity - used_connections_
           asleep == \E s \in Threads : pc[s] = "waiting"
<1>0. used_connections_ \in 0 .. Capacity /\ Capacity \in Nat
    BY PoolAssumption DEF TypeOK
<1>1. CASE Call(t)
    <2>1. Awakening' = Awakening
        BY <1>1 DEF Call, Awakening, TypeOK
    <2> QED BY <1>1, <2>1 DEF Call, NoLostWakeup, TypeOK
<1>2. CASE Take(t) /\ pc[t] = "get"
    <2>1. Awakening' = Awakening
        BY <1>2 DEF Take, Awakening, TypeOK
    <2>2. asleep' => asleep
        BY <1>2 DEF Take, TypeOK
    <2> QED BY <1>0, <1>2, <2>1, <2>2, AwakeningFinite DEF Take, NoLostWakeup
<1>3. CASE Take(t) /\ pc[t] = "woken"
    <2>1. Awakening' = Awakening \ {t} /\ t \in Awakening
        BY <1>3 DEF Take, Awakening, TypeOK
    <2>2. Cardinality(Awakening') = Cardinality(Awakening) - 1
        BY <2>1, AwakeningFinite, FS_RemoveElement
    <2>3. asleep' => asleep
        BY <1>3 DEF Take, TypeOK
    <2> QED BY <1>0, <1>3, <2>2, <2>3, AwakeningFinite DEF Take, NoLostWakeup
<1>4. CASE Wait(t)
    <2>1. Awakening' \subseteq Awakening
        BY <1>4 DEF Wait, Awakening, TypeOK
    <2>2. Cardinality(Awakening') \in Nat
        BY <2>1, AwakeningFinite, FS_Subset, FS_CardinalityType
    <2>3. free' = 0
        BY <1>0, <1>4 DEF Wait, HasFree
    <2> QED BY <2>2, <2>3 DEF NoLostWakeup
<1>5. CASE PutBack(t)
    <2>1. Awakening' = Awakening \cup {t} /\ t \notin Awakening
        BY <1>5 DEF PutBack, Awakening, TypeOK
    <2>2. Cardinality(Awakening') = Cardinality(Awakening) + 1
        BY <2>1, AwakeningFinite, FS_AddElement
    <2>3. asleep' => asleep
        BY <1>5 DEF PutBack, TypeOK
    <2> QED BY <1>0, <1>5, <2>2, <2>3, AwakeningFinite DEF PutBack, NoLostWakeup
<1>6. CASE SpuriousWakeup(t)
    <2>1. Awakening' = Awakening \cup {t} /\ t \notin Awakening
        BY <1>6 DEF SpuriousWakeup, Awakening, TypeOK
    <2>2. Cardinality(Awakening') = Cardinality(Awakening) + 1
        BY <2>1, AwakeningFinite, FS_AddElement
    <2> QED BY <1>0, <1>6, <2>2, AwakeningFinite DEF SpuriousWakeup, NoLostWakeup
<1>7. CASE NotifyOne(t)
    <2>1. CASE ~asleep
        BY <1>7, <2>1 DEF NotifyOne, NoLostWakeup, TypeOK
    <2>2. CASE asleep
        <3>1. PICK w \in Threads :
                 pc[w] = "waiting" /\ pc' = [pc EXCEPT ![t] = "idle", ![w] = "woken"]
            BY <1>7, <2>2 DEF NotifyOne
        <3>2. /\ Awakening' = (Awakening \ {t}) \cup {w}
              /\ t \in Awakening /\ w \notin Awakening
            BY <1>7, <3>1 DEF NotifyOne, Awakening, TypeOK
        <3>3. IsFiniteSet(Awakening \ {t})
              /\ Cardinality(Awakening \ {t}) = Cardinality(Awakening) - 1
            BY <3>2, AwakeningFinite, FS_RemoveElement
        <3>4. Cardinality((Awakening \ {t}) \cup {w}) = Cardinality(Awakening \ {t}) + 1
            BY <3>2, <3>3, FS_AddElement
        <3>5. Cardinality(Awakening') = Cardinality(Awakening)
            BY <3>2, <3>3, <3>4, AwakeningFinite
        <3> QED BY <1>7, <2>2, <3>5 DEF NotifyOne, NoLostWakeup
    <2> QED BY <2>1, <2>2
<1> QED BY <1>1, <1>2, <1>3, <1>4, <1>5, <1>6, <1>7 DEF ThreadStep, Take

\* While a thread sleeps, every free connection has a notification on its way.
THEOREM NoLostWakeupHolds == Spec => []NoLostWakeup
<1>1. Init => NoLostWakeup
    BY DEF Init, NoLostWakeup
<1>2. IInv /\ NoLostWakeup /\ [Next]_vars => NoLostWakeup'
    <2>1. IInv /\ NoLostWakeup /\ UNCHANGED vars => NoLostWakeup'
        BY DEF vars, NoLostWakeup, Awakening
    <2> QED BY <2>1, WakeupStep DEF Next
<1> QED BY <1>1, <1>2, InvariantHolds, PTL DEF Spec

\* A thread goes to sleep when the others hold all connections, so sleepers and
\* connections together are no more than the threads; other steps add no sleeper.
LEMMA SleepersStep ==
    ASSUME IInv, SleepersBounded, [Next]_vars
    PROVE  SleepersBounded'
<1> USE DEF IInv
<1>0. /\ IsFiniteSet(Threads) /\ Cardinality(Threads) \in Nat
      /\ Sleepers \subseteq Threads /\ Sleepers' \subseteq Threads
      /\ Cardinality(Sleepers) \in Nat /\ Cardinality(Sleepers') \in Nat
      /\ IsFiniteSet(Sleepers) /\ IsFiniteSet(Sleepers')
    <2>1. Sleepers \subseteq Threads /\ Sleepers' \subseteq Threads
        BY DEF Sleepers
    <2> QED BY <2>1, PoolAssumption, FS_Subset, FS_CardinalityType
<1>1. CASE \E t \in Threads : Wait(t)
    <2> PICK t \in Threads : Wait(t)
        BY <1>1
    <2>1. Sleepers' \subseteq Threads \ Users
        BY DEF Wait, Sleepers, CounterCountsUsers, TypeOK
    <2>2. /\ IsFiniteSet(Threads \ Users)
          /\ Cardinality(Threads \ Users) = Cardinality(Threads) - Cardinality(Users)
        <3>1. Threads \cap Users = Users
            BY DEF Users
        <3> QED BY <3>1, PoolAssumption, FS_Difference
    <2>3. Cardinality(Sleepers') <= Cardinality(Threads \ Users)
        BY <2>1, <2>2, FS_Subset
    <2>4. Cardinality(Users) = Capacity
        BY PoolAssumption DEF Wait, HasFree, TypeOK, CounterCountsUsers
    <2> QED BY <1>0, <2>2, <2>3, <2>4, PoolAssumption DEF SleepersBounded
<1>2. CASE ~ \E t \in Threads : Wait(t)
    <2>1. Sleepers' \subseteq Sleepers
        BY <1>2 DEF Sleepers, Next, ThreadStep, Call, Take, PutBack, NotifyOne,
                    SpuriousWakeup, vars, TypeOK
    <2>2. Cardinality(Sleepers') <= Cardinality(Sleepers)
        BY <1>0, <2>1, FS_Subset
    <2> QED BY <1>0, <2>1, <2>2, PoolAssumption DEF SleepersBounded
<1> QED BY <1>1, <1>2

\* Nobody sleeps but for want of connections, and nobody at all when there is a
\* connection for every thread.
THEOREM SleepersBoundedHolds == Spec => []SleepersBounded
<1>1. Init => SleepersBounded
    BY DEF Init, SleepersBounded, Sleepers
<1> QED BY <1>1, SleepersStep, InvariantHolds, PTL DEF Spec

\* main's pool: GetConnection never puts a thread to sleep.
THEOREM NobodySleeps ==
    Spec => [](Capacity >= Cardinality(Threads) => Sleepers = {})
<1>1. SleepersBounded => (Capacity >= Cardinality(Threads) => Sleepers = {})
    <2> SUFFICES ASSUME SleepersBounded, Capacity >= Cardinality(Threads),
                        Sleepers # {}
                 PROVE  FALSE
        OBVIOUS
    <2>1. IsFiniteSet(Sleepers) /\ Cardinality(Sleepers) \in Nat
        <3>1. Sleepers \subseteq Threads
            BY DEF Sleepers
        <3> QED BY <3>1, PoolAssumption, FS_Subset, FS_CardinalityType
    <2>2. Cardinality(Sleepers) # 0
        BY <2>1, FS_EmptySet
    <2>3. Cardinality(Threads) \in Nat
        BY PoolAssumption, FS_CardinalityType
    <2> QED BY <2>1, <2>2, <2>3, PoolAssumption DEF SleepersBounded
<1> QED BY <1>1, SleepersBoundedHolds, PTL

\* The pool implements exclusive leases: Take is Acquire, PutBack is Release and
\* every other step leaves the wrappers alone.
THEOREM PoolImplementsLease == Spec => ImplementsLease
<1>1. Init => Lease!Init
    BY DEF Init, Lease!Init
<1>2. IInv /\ [Next]_vars => [Lease!Next]_conn_
    <2> SUFFICES ASSUME IInv, [Next]_vars, conn_' # conn_ PROVE Lease!Next
        OBVIOUS
    <2>1. PICK t \in Threads : Take(t) \/ PutBack(t)
        BY DEF Next, ThreadStep, Call, Wait, NotifyOne, SpuriousWakeup, vars
    <2>2. CASE Take(t)
        <3> DEFINE c == pool_[used_connections_]
        <3>1. used_connections_ \in Slots /\ c # Null /\ c \in Connections
            BY <2>2, PoolAssumption
               DEF Take, HasFree, IInv, TypeOK, NoConnectionLost, Slots
        <3>2. conn_[t] = Null
            BY <2>2 DEF Take, IInv, CounterCountsUsers, Users
        <3>3. \A other \in Threads : conn_[other] # c
            BY <3>1 DEF IInv, NoConnectionLost
        <3>4. Lease!Acquire(t, c)
            BY <2>2, <3>2, <3>3 DEF Take, Lease!Acquire
        <3> QED BY <3>1, <3>4 DEF Lease!Next
    <2>3. CASE PutBack(t)
        <3>1. conn_[t] # Null
            BY <2>3 DEF PutBack, IInv, CounterCountsUsers, Users
        <3> QED BY <2>3, <3>1 DEF PutBack, Lease!Next, Lease!Release
    <2> QED BY <2>1, <2>2, <2>3
<1> QED BY <1>1, <1>2, InvariantHolds, PTL DEF Spec, ImplementsLease, Lease!Spec
=============================================================================
