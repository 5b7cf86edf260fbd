-------------------------- MODULE HttpConversation --------------------------
(***************************************************************************)
(* What the server promises to each connection: requests are taken one at  *)
(* a time, each runs at most once, each that ran is answered at most once  *)
(* and after it ran, the answers come in the order of the requests, and    *)
(* nothing comes after the end.  Connections may end at any step.          *)
(***************************************************************************)
EXTENDS Naturals, Sequences

CONSTANT Conns

VARIABLES
    taken,      \* how many requests were taken from a connection
    ran,        \* the numbers of those that ran, in the order they did
    told,       \* the numbers of those that were answered, in that order
    ended       \* connections that ended

vars == <<taken, ran, told, ended>>

Init ==
    /\ taken = [c \in Conns |-> 0]
    /\ ran = [c \in Conns |-> <<>>]
    /\ told = [c \in Conns |-> <<>>]
    /\ ended = {}

AnswersAll(c) == Len(told[c]) = taken[c]

Take(c) ==
    /\ AnswersAll(c)
    /\ taken' = [taken EXCEPT ![c] = @ + 1]
    /\ ran' \in {ran, [ran EXCEPT ![c] = Append(@, taken[c] + 1)]}
    /\ UNCHANGED told

Run(c) ==
    /\ Len(ran[c]) < taken[c]
    /\ ran' = [ran EXCEPT ![c] = Append(@, taken[c])]
    /\ UNCHANGED <<taken, told>>

Tell(c) ==
    /\ Len(told[c]) < Len(ran[c])
    /\ told' = [told EXCEPT ![c] = Append(@, taken[c])]
    /\ UNCHANGED <<taken, ran>>

End == UNCHANGED <<taken, ran, told>>

Next ==
    /\ ended \subseteq ended'
    /\ ended' \subseteq Conns
    /\ End \/ \E c \in Conns \ ended : Take(c) \/ Run(c) \/ Tell(c)

Spec == Init /\ [][Next]_vars
=============================================================================
