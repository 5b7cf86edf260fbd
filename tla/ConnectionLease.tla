-------------------------- MODULE ConnectionLease --------------------------
(***************************************************************************)
(* What postgres::ConnectionPool promises to Database: a ConnectionWrapper *)
(* is the only owner of its connection for as long as it lives, and the    *)
(* connection of a dead wrapper can be leased again.                       *)
(***************************************************************************)
CONSTANTS Threads, Connections, Null

VARIABLE conn_      \* the connection of the wrapper a thread holds, or Null

Init == conn_ = [t \in Threads |-> Null]

Acquire(t, c) ==
    /\ conn_[t] = Null
    /\ \A other \in Threads : conn_[other] # c
    /\ conn_' = [conn_ EXCEPT ![t] = c]

Release(t) ==
    /\ conn_[t] # Null
    /\ conn_' = [conn_ EXCEPT ![t] = Null]

Next == \E t \in Threads : Release(t) \/ \E c \in Connections : Acquire(t, c)

Spec == Init /\ [][Next]_conn_
=============================================================================
