--------------------------- MODULE ConnectionPool ---------------------------
(***************************************************************************)
(* postgres::ConnectionPool: a vector of connections behind a mutex and a  *)
(* condition variable.  Slots below used_connections_ are empty, the rest  *)
(* hold the connections nobody uses.                                       *)
(*                                                                         *)
(* All accesses of the vector and of the counter are under mutex_, so a    *)
(* critical section is one action: GetConnection is one action when it     *)
(* finds a connection and one that goes to sleep when it does not;         *)
(* ReturnConnection is one action up to the unlock, and one for the        *)
(* notify_one that follows it.                                             *)
(*                                                                         *)
(* A thread is one that executes a function of Database: it holds at most  *)
(* one wrapper, and returns it in the wrapper's destructor whether the     *)
(* query succeeds or throws.                                               *)
(***************************************************************************)
EXTENDS Naturals, FiniteSets

CONSTANTS
    Threads,    \* threads that call Database
    Capacity,   \* the number of connections the pool is created with
    Null        \* an empty std::shared_ptr

Slots == 0 .. (Capacity - 1)

\* The i-th call of the connection factory makes connection i.
Connections == Slots

ASSUME PoolAssumption ==
    /\ IsFiniteSet(Threads)
    /\ Capacity \in Nat \ {0}
    /\ Null \notin Nat

VARIABLES
    pool_,              \* slot -> connection or Null
    used_connections_,
    conn_,              \* the connection of the wrapper of a thread
    pc                  \* where the thread is

vars == <<pool_, used_connections_, conn_, pc>>

Places == {"idle", "get", "waiting", "woken", "using", "notify"}

TypeOK ==
    /\ pool_ \in [Slots -> Connections \cup {Null}]
    /\ used_connections_ \in 0 .. Capacity
    /\ conn_ \in [Threads -> Connections \cup {Null}]
    /\ pc \in [Threads -> Places]

Init ==
    /\ pool_ = [i \in Slots |-> i]
    /\ used_connections_ = 0
    /\ conn_ = [t \in Threads |-> Null]
    /\ pc = [t \in Threads |-> "idle"]

-----------------------------------------------------------------------------

\* A function of Database starts: it wants a connection.
Call(t) ==
    /\ pc[t] = "idle"
    /\ pc' = [pc EXCEPT ![t] = "get"]
    /\ UNCHANGED <<pool_, used_connections_, conn_>>

\* Mutant: the last connection is kept back.
HasSpare == used_connections_ + 1 < Capacity

\* The predicate of cond_var_.wait.
HasFree == used_connections_ < Capacity

\* Mutant: the predicate is evaluated once, not again after a wakeup.
TakeWhenWoken(t) ==
    /\ pc[t] = "woken" \/ (pc[t] = "get" /\ HasFree)
    /\ conn_' = [conn_ EXCEPT ![t] = IF HasFree THEN pool_[used_connections_] ELSE Null]
    /\ pool_' = [pool_ EXCEPT ![used_connections_] = Null]
    /\ used_connections_' = used_connections_ + 1
    /\ pc' = [pc EXCEPT ![t] = "using"]

\* Mutant: ++used_connections_ instead of used_connections_++.
TakeAfterIncrement(t) ==
    /\ pc[t] \in {"get", "woken"}
    /\ HasFree
    /\ used_connections_' = used_connections_ + 1
    /\ conn_' = [conn_ EXCEPT ![t] = pool_[(used_connections_ + 1) % Capacity]]
    /\ pool_' = [pool_ EXCEPT ![(used_connections_ + 1) % Capacity] = Null]
    /\ pc' = [pc EXCEPT ![t] = "using"]

\* GetConnection with a free connection: it is moved out of the first full slot.
Take(t) ==
    /\ pc[t] \in {"get", "woken"}
    /\ HasFree
    /\ conn_' = [conn_ EXCEPT ![t] = pool_[used_connections_]]
    /\ pool_' = [pool_ EXCEPT ![used_connections_] = Null]
    /\ used_connections_' = used_connections_ + 1
    /\ pc' = [pc EXCEPT ![t] = "using"]

\* GetConnection without one: wait releases the mutex and sleeps.
Wait(t) ==
    /\ pc[t] \in {"get", "woken"}
    /\ ~HasFree
    /\ pc' = [pc EXCEPT ![t] = "waiting"]
    /\ UNCHANGED <<pool_, used_connections_, conn_>>

\* A condition variable may wake a thread on its own.
SpuriousWakeup(t) ==
    /\ pc[t] = "waiting"
    /\ pc' = [pc EXCEPT ![t] = "woken"]
    /\ UNCHANGED <<pool_, used_connections_, conn_>>

\* Mutant: nobody is notified of the returned connection.
PutBackSilently(t) ==
    /\ pc[t] = "using"
    /\ used_connections_' = used_connections_ - 1
    /\ pool_' = [pool_ EXCEPT ![used_connections_ - 1] = conn_[t]]
    /\ conn_' = [conn_ EXCEPT ![t] = Null]
    /\ pc' = [pc EXCEPT ![t] = "idle"]

\* Mutant: the connection is copied back, the wrapper keeps it as well.
PutBackCopy(t) ==
    /\ pc[t] = "using"
    /\ used_connections_' = used_connections_ - 1
    /\ pool_' = [pool_ EXCEPT ![used_connections_ - 1] = conn_[t]]
    /\ pc' = [pc EXCEPT ![t] = "notify"]
    /\ UNCHANGED conn_

\* The destructor of the wrapper: ReturnConnection up to the unlock.
PutBack(t) ==
    /\ pc[t] = "using"
    /\ used_connections_' = used_connections_ - 1
    /\ pool_' = [pool_ EXCEPT ![used_connections_ - 1] = conn_[t]]
    /\ conn_' = [conn_ EXCEPT ![t] = Null]
    /\ pc' = [pc EXCEPT ![t] = "notify"]

\* cond_var_.notify_one, after the mutex was released.
NotifyOne(t) ==
    /\ pc[t] = "notify"
    /\ \/ /\ \A w \in Threads : pc[w] # "waiting"
          /\ pc' = [pc EXCEPT ![t] = "idle"]
       \/ \E w \in Threads :
             /\ pc[w] = "waiting"
             /\ pc' = [pc EXCEPT ![t] = "idle", ![w] = "woken"]
    /\ UNCHANGED <<pool_, used_connections_, conn_>>

ThreadStep(t) == Take(t) \/ Wait(t) \/ PutBack(t) \/ NotifyOne(t)

Next == \E t \in Threads : Call(t) \/ ThreadStep(t) \/ SpuriousWakeup(t)

Spec == Init /\ [][Next]_vars

\* A thread runs on, a query comes to an end; the mutex and the condition
\* variable promise no order, and nobody has to call Database again.
FairSpec == Spec /\ \A t \in Threads : WF_vars(ThreadStep(t))

-----------------------------------------------------------------------------

Users == {t \in Threads : conn_[t] # Null}

\* The counter is the number of leased connections, so ReturnConnection's
\* assert(used_connections_ != 0) holds whenever a wrapper dies: a thread that
\* uses a connection has one.
CounterCountsUsers ==
    /\ used_connections_ = Cardinality(Users)
    /\ \A t \in Threads : pc[t] = "using" <=> t \in Users

\* No connection is lost or in two places: the slots from the counter on hold
\* different connections, none of which a thread holds, the slots below it are
\* empty, and no two threads hold the same connection.
NoConnectionLost ==
    /\ \A i \in Slots : pool_[i] = Null <=> i < used_connections_
    /\ \A i, j \in Slots : pool_[i] = pool_[j] /\ pool_[i] # Null => i = j
    /\ \A i \in Slots, t \in Threads : pool_[i] # Null => conn_[t] # pool_[i]
    /\ \A t, s \in Threads : conn_[t] = conn_[s] /\ conn_[t] # Null => t = s

\* While a thread sleeps, every free connection has a notification on its way: a
\* thread about to call notify_one, or a woken one about to look again.
Awakening == {t \in Threads : pc[t] \in {"notify", "woken"}}
NoLostWakeup ==
    (\E t \in Threads : pc[t] = "waiting")
        => Capacity - used_connections_ <= Cardinality(Awakening)

\* A thread sleeps only for want of connections: with one sleeper there are as
\* many threads more than connections as there are sleepers.  main gives the pool
\* a connection for every thread of the io_context, so there nobody ever sleeps.
Sleepers == {t \in Threads : pc[t] = "waiting"}
SleepersBounded ==
    Sleepers # {} => Cardinality(Sleepers) + Capacity <= Cardinality(Threads)

\* When threads want a connection, one of them gets one in the end.
PoolNeverStalls ==
    (\E t \in Threads : pc[t] \in {"get", "waiting", "woken"})
        ~> (\E t \in Threads : pc[t] = "using")

\* The pool implements exclusive leases.
Lease == INSTANCE ConnectionLease
ImplementsLease == Lease!Spec
=============================================================================
