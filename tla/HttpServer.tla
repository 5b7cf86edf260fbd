----------------------------- MODULE HttpServer -----------------------------
(***************************************************************************)
(* The HTTP server: Listener, Session and RequestHandler.                  *)
(*                                                                         *)
(* A session reads a request, hands it to RequestHandler, writes the       *)
(* reply, and reads again.  Requests for the API go through api_strand,    *)
(* one after the other; files are answered at once.  A session lives as    *)
(* long as a handler refers to it: when no answer is sent it is destroyed, *)
(* and its socket with it.                                                 *)
(*                                                                         *)
(* Exceptions.  net::dispatch runs the handler on the caller's stack if    *)
(* the strand is free, but io_context's executor keeps what it throws and  *)
(* throws it again when the caller's handler is done; on a busy strand the *)
(* handler runs later.  Either way the exception of an API handler passes  *)
(* RequestHandler's catch by and leaves io_context::run, which ends the    *)
(* process on a worker thread, and on the main thread leaves that thread   *)
(* waiting for the workers.                                                *)
(***************************************************************************)
EXTENDS RequestApi, Sequences

CONSTANTS
    Conns,          \* connections clients may open
    Requests,       \* the requests clients send, without their tokens
    MaxRequests,    \* bound: how many requests a client sends on each connection
    Workers,        \* threads of the io_context besides the main one
    TestingMode     \* no --tick-period: GetTickPeriod() == TICK_TESTING_MODE

ASSUME HttpAssumption == MaxRequests \in [Conns -> Nat]

VARIABLES
    process,        \* "up" or "down"
    main,           \* "runs", or "lost" after an exception
    listener,       \* "accepts", or "failed"
    link,           \* what the client did with the connection
    inbox,          \* requests on their way to a session
    at,             \* where the session of a connection is
    overdue,        \* the deadline of expires_after has passed
    taken,          \* how many requests a session has read
    reply,          \* the reply a session writes
    api_strand,     \* handlers of RequestAPI::process that wait
    spinning,       \* the handler on the strand does not come back
    players,        \* tokens of the players in the game
    ran, told       \* per connection, the requests executed and answered

clientVars == <<link, inbox>>
threadVars == <<process, main>>
vars == <<threadVars, listener, clientVars, at, overdue, taken, reply,
          api_strand, spinning, players, ran, told>>

NoReply == [status |-> 0]

\* The token made for the i-th request of connection c, if it joins.
TokenOf(c, i) == <<c, i>>
Tokens == UNION {{TokenOf(c, i) : i \in 1 .. MaxRequests[c]} : c \in Conns}

WithToken(req, token) ==
    [verb |-> req.verb, target |-> req.target, body |-> req.body, arg |-> req.arg,
     keep |-> req.keep, token |-> token]
SentRequests == {WithToken(req, t) : req \in Requests, t \in Tokens \cup {BadToken}}

\* A reply on its way: the request it is for, its number, and what is written.
IsReply(r) ==
    /\ r.req \in SentRequests
    /\ r.id \in Nat \ {0}
    /\ r.status \in {200, 400, 401, 404, 405}
    /\ r.allow \subseteq Verbs
    /\ r.effect \in Effects
    /\ r.sized \in BOOLEAN

TypeOK ==
    /\ process \in {"up", "down"}
    /\ main \in {"runs", "lost"}
    /\ listener \in {"accepts", "failed"}
    /\ link \in [Conns -> {"none", "connecting", "open", "half", "reset"}]
    /\ \A c \in Conns :
        /\ taken[c] + Len(inbox[c]) <= MaxRequests[c]
        /\ \A k \in DOMAIN inbox[c] : inbox[c][k] \in SentRequests
        /\ reply[c] = NoReply \/ IsReply(reply[c])
        /\ at[c] = "writing" <=> reply[c] # NoReply
    /\ at \in [Conns -> {"none", "reading", "handling", "writing", "gone"}]
    /\ overdue \subseteq Conns
    /\ taken \in [Conns -> Nat]
    /\ \A k \in DOMAIN api_strand : api_strand[k].conn \in Conns
    /\ spinning \in BOOLEAN
    /\ players \subseteq Tokens

Init ==
    /\ process = "up"
    /\ main = "runs"
    /\ listener = "accepts"
    /\ link = [c \in Conns |-> "none"]
    /\ inbox = [c \in Conns |-> <<>>]
    /\ at = [c \in Conns |-> "none"]
    /\ overdue = {}
    /\ taken = [c \in Conns |-> 0]
    /\ reply = [c \in Conns |-> NoReply]
    /\ api_strand = <<>>
    /\ spinning = FALSE
    /\ players = {}
    /\ ran = [c \in Conns |-> <<>>]
    /\ told = [c \in Conns |-> <<>>]

-----------------------------------------------------------------------------
\* Clients.

\* The tokens clients were told, for use on any connection.  The number of a request
\* that was no join stands for a token that no player has.
ToldTokens == {t \in Tokens : \E k \in DOMAIN told[t[1]] : told[t[1]][k] = t[2]}

Connect(c) ==
    /\ link[c] = "none"
    /\ link' = [link EXCEPT ![c] = "connecting"]
    /\ UNCHANGED <<threadVars, listener, inbox, at, overdue, taken, reply,
                   api_strand, spinning, players, ran, told>>

\* The replies to other requests do not depend on the token.
TokensFor(req) ==
    IF req.target \in {"players", "state", "action"} THEN ToldTokens \cup {BadToken}
    ELSE {BadToken}

\* A client need not wait for the answer to its last request.
Send(c) ==
    /\ link[c] = "open"
    /\ at[c] # "gone"
    /\ taken[c] + Len(inbox[c]) < MaxRequests[c]
    /\ \E req \in Requests : \E t \in TokensFor(req) :
        inbox' = [inbox EXCEPT ![c] = Append(@, WithToken(req, t))]
    /\ UNCHANGED <<threadVars, listener, link, at, overdue, taken, reply,
                   api_strand, spinning, players, ran, told>>

\* The client closes its side, in order or not.
Leave(c) ==
    /\ link[c] \in {"open", "half"}
    /\ at[c] # "gone"
    /\ link' \in {[link EXCEPT ![c] = "half"], [link EXCEPT ![c] = "reset"]}
    /\ UNCHANGED <<threadVars, listener, inbox, at, overdue, taken, reply,
                   api_strand, spinning, players, ran, told>>

-----------------------------------------------------------------------------
\* Listener.

\* Listener::OnAccept: the session starts with SessionBase::Read.
OnAccept(c) ==
    /\ listener = "accepts"
    /\ link[c] = "connecting"
    /\ link' = [link EXCEPT ![c] = "open"]
    /\ at' = [at EXCEPT ![c] = "reading"]
    /\ UNCHANGED <<threadVars, listener, inbox, overdue, taken, reply,
                   api_strand, spinning, players, ran, told>>

\* Listener::OnAccept with an error returns without another DoAccept.
AcceptFails ==
    /\ listener = "accepts"
    /\ \E c \in Conns : link[c] = "connecting"
    /\ listener' = "failed"
    /\ UNCHANGED <<threadVars, clientVars, at, overdue, taken, reply,
                   api_strand, spinning, players, ran, told>>

-----------------------------------------------------------------------------
\* Session.

\* The session is destroyed, or has shut its socket down and is about to be.
EndSession(c) ==
    /\ at' = [at EXCEPT ![c] = "gone"]
    /\ reply' = [reply EXCEPT ![c] = NoReply]
    /\ inbox' = [inbox EXCEPT ![c] = <<>>]
    /\ overdue' = overdue \ {c}

\* The process is over, and all its connections with it.
EndProcess ==
    /\ process' = "down"
    /\ at' = [c \in Conns |-> "gone"]
    /\ reply' = [c \in Conns |-> NoReply]
    /\ inbox' = [c \in Conns |-> <<>>]
    /\ overdue' = {}
    /\ api_strand' = <<>>
    /\ spinning' = FALSE

\* An exception leaves a handler of session c and io_context::run, and the rest of
\* the strand waits on.  On a worker thread, or the only one, it ends the process;
\* the main thread waits for the workers, which serve on.
LoseThread(c, rest) ==
    \/ EndProcess /\ UNCHANGED main
    \/ /\ Workers > 0
       /\ main = "runs"
       /\ main' = "lost"
       /\ EndSession(c)
       /\ api_strand' = rest
       /\ UNCHANGED <<process, spinning>>

\* Mutant: Run sets the deadline, Read does not.
ExpireOnce(c) ==
    /\ at[c] \in {"reading", "handling", "writing"}
    /\ c \notin overdue
    /\ taken[c] <= 1
    /\ overdue' = overdue \cup {c}
    /\ UNCHANGED <<threadVars, listener, clientVars, at, taken, reply,
                   api_strand, spinning, players, ran, told>>

\* 30 seconds after SessionBase::Read.  The deadline holds for whatever the stream
\* does until the next Read, but only an operation that is under way notices.
Expire(c) ==
    /\ at[c] \in {"reading", "handling", "writing"}
    /\ c \notin overdue
    /\ overdue' = overdue \cup {c}
    /\ UNCHANGED <<threadVars, listener, clientVars, at, taken, reply,
                   api_strand, spinning, players, ran, told>>

\* SessionBase::OnRead with an error: the end of the stream, where Close follows, a
\* broken connection, or the deadline.
OnReadError(c) ==
    /\ at[c] = "reading"
    /\ \/ link[c] = "half" /\ inbox[c] = <<>>
       \/ link[c] = "reset"
       \/ c \in overdue
    /\ EndSession(c)
    /\ UNCHANGED <<threadVars, listener, link, taken, api_strand, spinning,
                   players, ran, told>>

\* Session::Write.
Write(c, id, req, r) ==
    /\ at' = [at EXCEPT ![c] = "writing"]
    /\ reply' = [reply EXCEPT ![c] =
                    [status |-> r.status, allow |-> r.allow, effect |-> r.effect,
                     sized |-> r.sized, id |-> id, req |-> req]]
    /\ UNCHANGED overdue

HasRequest(c) == at[c] = "reading" /\ inbox[c] # <<>>

\* SessionBase::OnRead, when the peer is gone: remote_endpoint throws.
NoRemoteEndpoint(c) ==
    /\ HasRequest(c)
    /\ link[c] = "reset"
    /\ LoseThread(c, api_strand)
    /\ UNCHANGED <<listener, link, taken, players, ran, told>>

\* Mutant: the session reads on while the strand has its request.
DispatchAndRead(c) ==
    LET req == Head(inbox[c]) IN
    /\ HasRequest(c)
    /\ IsApi(req)
    /\ inbox' = [inbox EXCEPT ![c] = Tail(@)]
    /\ taken' = [taken EXCEPT ![c] = @ + 1]
    /\ api_strand' = Append(api_strand, [conn |-> c, id |-> taken[c] + 1, req |-> req])
    /\ UNCHANGED <<threadVars, listener, link, at, overdue, reply, spinning,
                   players, ran, told>>

\* SessionBase::OnRead and RequestHandler::operator() for the API.
DispatchRequest(c) ==
    LET req == Head(inbox[c]) IN
    /\ HasRequest(c)
    /\ IsApi(req)
    /\ inbox' = [inbox EXCEPT ![c] = Tail(@)]
    /\ at' = [at EXCEPT ![c] = "handling"]
    /\ taken' = [taken EXCEPT ![c] = @ + 1]
    /\ api_strand' = Append(api_strand, [conn |-> c, id |-> taken[c] + 1, req |-> req])
    /\ UNCHANGED <<threadVars, listener, link, overdue, reply, spinning, players,
                   ran, told>>

\* SessionBase::OnRead and RequestHandler::operator() for a file.
ServeFile(c) ==
    LET req == Head(inbox[c]) IN
    /\ HasRequest(c)
    /\ ~IsApi(req)
    /\ inbox' = [inbox EXCEPT ![c] = Tail(@)]
    /\ taken' = [taken EXCEPT ![c] = @ + 1]
    /\ ran' = [ran EXCEPT ![c] = Append(@, taken'[c])]
    /\ Write(c, taken'[c], req, FileReply(req))
    /\ UNCHANGED <<threadVars, listener, link, api_strand, spinning, players,
                   told>>

\* An ErrorResponse, which is not sent, or an exception, which is caught.
FileUnanswered(c) ==
    /\ HasRequest(c)
    /\ ~IsApi(Head(inbox[c]))
    /\ Head(inbox[c]).verb \in GET_HEAD
    /\ taken' = [taken EXCEPT ![c] = @ + 1]
    /\ EndSession(c)
    /\ UNCHANGED <<threadVars, listener, link, api_strand, spinning, players, ran,
                   told>>

-----------------------------------------------------------------------------
\* The API strand.

\* What an accepted request does to the players: a join adds one, an update may
\* retire one, which the next request for it must find out.
PlayersAfter(effect, token) ==
    CASE effect = "join" -> {players \cup {token}}
      [] effect = "tick" -> {players} \cup {players \ {t} : t \in players}
      [] OTHER -> {players}

Serving == api_strand # <<>> /\ ~spinning

\* Mutant: an answer is not written when the deadline has passed.
HandleInTime ==
    /\ Serving
    /\ LET c == Head(api_strand).conn
           id == Head(api_strand).id
           req == Head(api_strand).req
           r == ReplyTo(req, players, TestingMode)
       IN /\ ~AlwaysThrows(req)
          /\ players' \in PlayersAfter(r.effect, TokenOf(c, id))
          /\ ran' = [ran EXCEPT ![c] = Append(@, id)]
          /\ IF c \in overdue
             THEN at' = [at EXCEPT ![c] = "reading"] /\ UNCHANGED <<reply, overdue>>
             ELSE Write(c, id, req, r)
    /\ api_strand' = Tail(api_strand)
    /\ UNCHANGED <<threadVars, listener, clientVars, taken, spinning, told>>

\* The handler on the strand: RequestAPI::process and send.
Handle ==
    /\ Serving
    /\ LET c == Head(api_strand).conn
           id == Head(api_strand).id
           req == Head(api_strand).req
           r == ReplyTo(req, players, TestingMode)
       IN /\ ~AlwaysThrows(req)
          /\ players' \in PlayersAfter(r.effect, TokenOf(c, id))
          /\ ran' = [ran EXCEPT ![c] = Append(@, id)]
          /\ Write(c, id, req, r)
    /\ api_strand' = Tail(api_strand)
    /\ UNCHANGED <<threadVars, listener, clientVars, taken, spinning, told>>

\* Mutant: an exception leaves the session waiting for its answer.
HandleThrowsAndWaits ==
    /\ Serving
    /\ LET req == Head(api_strand).req
       IN AlwaysThrows(req) \/ MayThrow(req, ReplyTo(req, players, TestingMode))
    /\ main = "runs"
    /\ main' = "lost"
    /\ api_strand' = Tail(api_strand)
    /\ UNCHANGED <<process, listener, clientVars, at, overdue, taken, reply, spinning,
                   players, ran, told>>

\* The handler throws: nothing is sent, and the strand goes on.
HandleThrows ==
    /\ Serving
    /\ LET c == Head(api_strand).conn
           req == Head(api_strand).req
           r == ReplyTo(req, players, TestingMode)
       IN /\ \/ AlwaysThrows(req) /\ UNCHANGED players
             \/ /\ ~AlwaysThrows(req)
                /\ MayThrow(req, r)
                /\ players' \in PlayersAfter(r.effect, BadToken)
          /\ ran' = [ran EXCEPT ![c] = Append(@, Head(api_strand).id)]
          /\ LoseThread(c, Tail(api_strand))
    /\ UNCHANGED <<listener, link, taken, told>>

\* An update that never comes back (module PetGame): the strand is lost.
HandleSpins ==
    /\ Serving
    /\ LET req == Head(api_strand).req
           r == ReplyTo(req, players, TestingMode)
       IN r.effect = "tick" /\ ~AlwaysThrows(req)
    /\ spinning' = TRUE
    /\ UNCHANGED <<threadVars, listener, clientVars, at, overdue, taken, reply,
                   api_strand, players, ran, told>>

-----------------------------------------------------------------------------

\* need_eof: without a length the end of the connection is the end of the body.
NeedEof(r) == ~r.req.keep \/ ~r.sized

\* Mutant: the next request is read with the reply to the last one in place.
OnWriteKeepsReply(c) ==
    /\ at[c] = "writing"
    /\ link[c] # "reset"
    /\ told' = [told EXCEPT ![c] = Append(@, reply[c].id)]
    /\ at' = [at EXCEPT ![c] = "reading"]
    /\ overdue' = overdue \ {c}
    /\ UNCHANGED <<threadVars, listener, clientVars, taken, reply, api_strand, spinning,
                   players, ran>>

\* SessionBase::OnWrite: Close, or Read with a new deadline.
OnWrite(c) ==
    /\ at[c] = "writing"
    /\ link[c] # "reset"
    /\ told' = [told EXCEPT ![c] = Append(@, reply[c].id)]
    /\ IF NeedEof(reply[c])
       THEN EndSession(c)
       ELSE /\ at' = [at EXCEPT ![c] = "reading"]
            /\ reply' = [reply EXCEPT ![c] = NoReply]
            /\ overdue' = overdue \ {c}
            /\ UNCHANGED inbox
    /\ UNCHANGED <<threadVars, listener, link, taken, api_strand, spinning,
                   players, ran>>

\* SessionBase::OnWrite with an error: the peer is gone, or the deadline passed.
OnWriteError(c) ==
    /\ at[c] = "writing"
    /\ link[c] = "reset" \/ c \in overdue
    /\ EndSession(c)
    /\ UNCHANGED <<threadVars, listener, link, taken, api_strand, spinning,
                   players, ran, told>>

\* A signal stops the io_context: no handler runs any more.
Stop ==
    /\ EndProcess
    /\ UNCHANGED <<main, listener, link, taken, players, ran, told>>

Client(c) == Connect(c) \/ Send(c) \/ Leave(c)

SessionStep(c) ==
    /\ process = "up"
    /\ \/ OnReadError(c) \/ NoRemoteEndpoint(c)
       \/ DispatchRequest(c) \/ ServeFile(c) \/ FileUnanswered(c)
       \/ OnWrite(c) \/ OnWriteError(c)

StrandStep == process = "up" /\ (Handle \/ HandleThrows \/ HandleSpins)

Next ==
    /\ process = "up"
    /\ \/ \E c \in Conns : Client(c) \/ OnAccept(c) \/ Expire(c) \/ SessionStep(c)
       \/ StrandStep
       \/ AcceptFails
       \/ Stop

Spec == Init /\ [][Next]_vars

\* Threads run the handlers that are ready, timers fire.  Clients owe nothing.
FairSpec ==
    /\ Spec
    /\ WF_vars(StrandStep)
    /\ \A c \in Conns :
        /\ WF_vars(SessionStep(c))
        /\ WF_vars(process = "up" /\ OnAccept(c))
        /\ WF_vars(process = "up" /\ Expire(c))

-----------------------------------------------------------------------------

\* A player is in the game only if a client knows its token, is being told, or had
\* its connection end.  An answer that cannot be written (the peer is gone, or the
\* wait for the strand used the deadline up) leaves a player nobody can move.
JoinsAreTold ==
    \A t \in players :
        LET c == t[1] IN
        \/ t \in ToldTokens
        \/ at[c] = "gone"
        \/ at[c] = "writing" /\ reply[c].effect = "join" /\ reply[c].id = t[2]

\* A refusal with 405 names methods that the target does not refuse with 405, and
\* not the one it just refused: RequestAPI keeps these lists in three branches.
AllowedMethodsAreNotRefused ==
    \A c \in Conns : at[c] = "writing" /\ reply[c].status = 405 =>
        LET r == reply[c] IN
        /\ r.req.verb \notin r.allow
        /\ \A v \in r.allow :
               ReplyTo([r.req EXCEPT !.verb = v], players, TestingMode).status # 405

\* Every connection is a conversation: one request at a time, run at most once,
\* answered at most once and in order, nothing after the end.
Conversation == INSTANCE HttpConversation WITH ended <- {c \in Conns : at[c] = "gone"}
ImplementsConversation == Conversation!Spec

\* A request that was read is answered or its connection ends, unless an update
\* spins on the API strand or the process stops.
RequestsEnd ==
    \A c \in Conns :
        at[c] \in {"handling", "writing"}
            ~> (at[c] \in {"reading", "gone"} \/ spinning \/ process = "down")

\* A session whose client is silent ends: the deadline of expires_after is set
\* anew by every Read, so it holds for the first request and for later ones.
SilentClientsAreDropped ==
    \A c \in Conns :
        at[c] = "reading" ~> (at[c] # "reading" \/ process = "down")
=============================================================================
