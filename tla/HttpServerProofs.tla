-------------------------- MODULE HttpServerProofs --------------------------
(***************************************************************************)
(* The HTTP server for any number of connections, requests and threads:    *)
(* types, the refinement of HttpConversation, no join that nobody is told  *)
(* of, and methods of a 405 that can be used.                              *)
(***************************************************************************)
EXTENDS HttpServer, SequenceTheorems, TLAPS

-----------------------------------------------------------------------------
(* Replies.                                                                *)

Replies == [status : {200, 400, 401, 404, 405}, allow : SUBSET Verbs, effect : Effects,
            sized : BOOLEAN]

\* Every branch of RequestAPI and RequestFile makes one of these replies.
LEMMA ReplyType ==
    ASSUME NEW req, NEW tokens, NEW testing
    PROVE  ReplyTo(req, tokens, testing) \in Replies
<1> USE DEF Replies, Verbs, GET_HEAD, POST, GET_HEAD_POST, Effects
<1> DEFINE Reply == ReplyTo(req, tokens, testing)
<1>1. \A s \in {400, 401, 404} : Refused(s) \in Replies
    BY DEF Refused
<1>2. NotAllowed(POST) \in Replies /\ NotAllowed(GET_HEAD) \in Replies
      /\ NotAllowed(GET_HEAD_POST) \in Replies
    BY DEF NotAllowed
<1>3. \A e \in Effects : Done(e) \in Replies
    BY DEF Done
<1>4. Untouched \in Replies
    BY DEF Untouched
<1>5. FileReply(req) \in Replies
    BY <1>1, <1>2, <1>3 DEF FileReply
<1>6. GetReply(req, tokens) \in Replies
    BY <1>1, <1>2, <1>3, <1>4 DEF GetReply, ForPlayer
<1>7. PostReply(req, tokens, testing) \in Replies
    <2>1. TickReply(req, testing) \in Replies /\ JoinReply(req) \in Replies
        BY <1>1, <1>3 DEF TickReply, JoinReply
    <2> QED BY <1>1, <1>2, <1>3, <2>1 DEF PostReply, ForPlayer
<1>8. OtherReply(req) \in Replies
    BY <1>2 DEF OtherReply
<1> HIDE DEF Replies
<1> QED BY <1>5, <1>6, <1>7, <1>8 DEF ReplyTo

\* A handler that may throw is no join.
LEMMA ThrowersDoNotJoin ==
    ASSUME NEW req, NEW tokens, NEW testing, MayThrow(req, ReplyTo(req, tokens, testing))
    PROVE  ReplyTo(req, tokens, testing).effect # "join"
BY DEF MayThrow, ReplyTo, IsApi, FileReply, GetReply, PostReply, OtherReply, ForPlayer,
       TickReply, JoinReply, Refused, NotAllowed, Done, Untouched, GET_HEAD

\* What a 405 names can be used: it is not the method refused, and whoever is in the
\* game, none of the methods named gets a 405.
MethodsWork(req, allow) ==
    /\ req.verb \notin allow
    /\ \A tokens : \A v \in allow :
        ReplyTo([req EXCEPT !.verb = v], tokens, TestingMode).status # 405

LEMMA RefusalsNameMethods ==
    ASSUME NEW r, NEW token, NEW tokens,
           ReplyTo(WithToken(r, token), tokens, TestingMode).status = 405
    PROVE  MethodsWork(WithToken(r, token),
                       ReplyTo(WithToken(r, token), tokens, TestingMode).allow)
<1> DEFINE req == WithToken(r, token)
           Reply == ReplyTo(req, tokens, TestingMode)
           With(v) == [req EXCEPT !.verb = v]
<1> USE DEF GET_HEAD, POST, GET_HEAD_POST, IsApi, Refused, NotAllowed, Done, Untouched
<1>1. \A v : /\ With(v).verb = v /\ With(v).target = req.target
             /\ With(v).body = req.body /\ With(v).arg = req.arg
    BY DEF WithToken
<1> HIDE DEF req, With
<1>2. CASE req.target = "file"
    <2>1. req.verb \notin GET_HEAD /\ Reply.allow = GET_HEAD
        BY <1>2 DEF ReplyTo, FileReply, req
    <2>2. \A v \in GET_HEAD, other \in {tokens} : FileReply(With(v)).status # 405
        BY <1>1, <1>2 DEF FileReply
    <2>3. \A other : \A v \in GET_HEAD :
            ReplyTo(With(v), other, TestingMode) = FileReply(With(v))
        BY <1>1, <1>2 DEF ReplyTo
    <2> QED BY <2>1, <2>2, <2>3 DEF MethodsWork, req, With
<1>3. CASE req.target # "file"
    <2>1. \A other : \A v \in GET_HEAD :
            /\ ReplyTo(With(v), other, TestingMode) = GetReply(With(v), other)
            /\ req.target \notin {"join", "tick"} => GetReply(With(v), other).status # 405
        BY <1>1, <1>3 DEF ReplyTo, GetReply, ForPlayer
    <2>2. \A other :
            /\ ReplyTo(With("POST"), other, TestingMode)
                = PostReply(With("POST"), other, TestingMode)
            /\ req.target \notin {"players", "state", "map"}
                => PostReply(With("POST"), other, TestingMode).status # 405
        BY <1>1, <1>3 DEF ReplyTo, PostReply, TickReply, JoinReply, ForPlayer
    <2>3. CASE req.verb \in GET_HEAD
        <3>1. req.target \in {"join", "tick"} /\ Reply.allow = POST
            BY <1>3, <2>3 DEF ReplyTo, GetReply, ForPlayer, req
        <3> QED BY <2>2, <2>3, <3>1 DEF MethodsWork, req, With
    <2>4. CASE req.verb = "POST"
        <3>1. req.target \in {"players", "state", "map"} /\ Reply.allow = GET_HEAD
            BY <1>3, <2>4 DEF ReplyTo, PostReply, TickReply, JoinReply, ForPlayer, req
        <3> QED BY <2>1, <2>4, <3>1 DEF MethodsWork, req, With
    <2>5. CASE req.verb \notin GET_HEAD_POST
        <3>1. Reply = OtherReply(req)
            BY <1>3, <2>5 DEF ReplyTo, req
        <3>2. \/ Reply.allow = GET_HEAD /\ req.target \notin {"join", "tick"}
              \/ Reply.allow = POST /\ req.target \in {"join", "tick"}
              \/ /\ Reply.allow = GET_HEAD_POST
                 /\ req.target \notin {"join", "tick", "players", "state", "map"}
            BY <3>1 DEF OtherReply
        <3> HIDE DEF Reply
        <3>3. req.verb \notin Reply.allow
            BY <2>5, <3>2
        <3>4. \A other : \A v \in Reply.allow :
                ReplyTo(With(v), other, TestingMode).status # 405
            BY <2>1, <2>2, <3>2
        <3> QED BY <3>3, <3>4 DEF MethodsWork, Reply, req, With
    <2> QED BY <2>3, <2>4, <2>5
<1> QED BY <1>2, <1>3

-----------------------------------------------------------------------------
(* The invariant.                                                          *)

Entries == [conn : Conns, id : Nat \ {0}, req : SentRequests]
SentReplies == [status : {200, 400, 401, 404, 405}, allow : SUBSET Verbs, effect : Effects,
                sized : BOOLEAN, id : Nat \ {0}, req : SentRequests]

\* The types as far as the steps need them; TypeOK follows.
Types ==
    /\ process \in {"up", "down"}
    /\ main \in {"runs", "lost"}
    /\ listener \in {"accepts", "failed"}
    /\ link \in [Conns -> {"none", "connecting", "open", "half", "reset"}]
    /\ inbox \in [Conns -> Seq(SentRequests)]
    /\ at \in [Conns -> {"none", "reading", "handling", "writing", "gone"}]
    /\ overdue \subseteq Conns
    /\ taken \in [Conns -> Nat]
    /\ reply \in [Conns -> SentReplies \cup {NoReply}]
    /\ api_strand \in Seq(Entries)
    /\ spinning \in BOOLEAN
    /\ players \subseteq Tokens
    /\ ran \in [Conns -> Seq(Nat)]
    /\ told \in [Conns -> Seq(Nat)]

\* The requests taken, run and answered on one connection, by where its session is.
Counted(c) ==
    /\ taken[c] + Len(inbox[c]) <= MaxRequests[c]
    /\ at[c] = "writing" <=> reply[c] # NoReply
    /\ at[c] \in {"none", "reading"} =>
          Len(ran[c]) = taken[c] /\ Len(told[c]) = taken[c]
    /\ at[c] = "handling" =>
          taken[c] > 0 /\ Len(ran[c]) = taken[c] - 1 /\ Len(told[c]) = taken[c] - 1
    /\ at[c] = "writing" =>
          /\ Len(ran[c]) = taken[c] /\ Len(told[c]) = taken[c] - 1
          /\ reply[c].id = taken[c] /\ taken[c] > 0

\* A connection is not gone before it was accepted.
Accepted(c) == process = "up" /\ link[c] \in {"none", "connecting"} => at[c] = "none"

\* Every handler on the strand serves the last request of a session of its own.
StrandServesSessions ==
    /\ \A k \in 1 .. Len(api_strand) :
        /\ at[api_strand[k].conn] = "handling"
        /\ api_strand[k].id = taken[api_strand[k].conn]
    /\ \A k, m \in 1 .. Len(api_strand) :
        api_strand[k].conn = api_strand[m].conn => k = m

RefusalWorks(c) ==
    at[c] = "writing" /\ reply[c].status = 405 => MethodsWork(reply[c].req, reply[c].allow)

IInv ==
    /\ Types
    /\ \A c \in Conns : Counted(c) /\ Accepted(c) /\ RefusalWorks(c)
    /\ StrandServesSessions
    /\ JoinsAreTold

LEMMA InvariantImpliesTypes == IInv => TypeOK
<1> SUFFICES ASSUME IInv PROVE TypeOK
    OBVIOUS
<1>1. ASSUME NEW c \in Conns, NEW k \in DOMAIN inbox[c] PROVE inbox[c][k] \in SentRequests
    BY <1>1, ElementOfSeq, LenProperties DEF IInv, Types
<1>2. ASSUME NEW k \in DOMAIN api_strand PROVE api_strand[k].conn \in Conns
    <2>1. api_strand[k] \in Entries
        BY <1>2, ElementOfSeq, LenProperties DEF IInv, Types
    <2> QED BY <2>1 DEF Entries
<1>3. ASSUME NEW c \in Conns PROVE reply[c] = NoReply \/ IsReply(reply[c])
    BY DEF IInv, Types, SentReplies, IsReply
<1> QED BY <1>1, <1>2, <1>3 DEF IInv, Types, Counted, TypeOK

LEMMA InitInvariant == Init => IInv
<1> SUFFICES ASSUME Init PROVE IInv
    OBVIOUS
<1>1. Types
    <2>1. <<>> \in Seq(SentRequests) /\ <<>> \in Seq(Entries) /\ <<>> \in Seq(Nat)
        BY EmptySeq
    <2> QED BY <2>1 DEF Init, Types
<1>2. \A c \in Conns : Counted(c) /\ Accepted(c) /\ RefusalWorks(c)
    BY HttpAssumption DEF Init, Counted, Accepted, RefusalWorks, NoReply
<1>3. StrandServesSessions
    BY DEF Init, StrandServesSessions
<1>4. JoinsAreTold
    BY DEF Init, JoinsAreTold
<1> QED BY <1>1, <1>2, <1>3, <1>4 DEF IInv

\* A token names its connection and the number of its request.
LEMMA TokensAreNumbers ==
    ASSUME NEW t \in Tokens
    PROVE  t[1] \in Conns /\ t[2] \in 1 .. MaxRequests[t[1]] /\ t = TokenOf(t[1], t[2])
BY DEF Tokens, TokenOf

\* The end of the process ends every conversation, whatever the last handler did.
LEMMA EndProcessStep ==
    ASSUME IInv, EndProcess,
           main' \in {"runs", "lost"}, UNCHANGED <<listener, link>>,
           taken' \in [Conns -> Nat],
           \A c \in Conns : taken'[c] <= taken[c] + Len(inbox[c]),
           ran' \in [Conns -> Seq(Nat)], told' \in [Conns -> Seq(Nat)],
           players' \subseteq Tokens
    PROVE  IInv'
<1>1. Types'
    <2>1. <<>> \in Seq(SentRequests) /\ <<>> \in Seq(Entries)
        BY EmptySeq
    <2> QED BY <2>1 DEF IInv, Types, EndProcess
<1>2. \A c \in Conns : Counted(c)' /\ Accepted(c)' /\ RefusalWorks(c)'
    <2> SUFFICES ASSUME NEW c \in Conns
                 PROVE  Counted(c)' /\ Accepted(c)' /\ RefusalWorks(c)'
        OBVIOUS
    <2>1. at'[c] = "gone" /\ reply'[c] = NoReply /\ inbox'[c] = <<>> /\ process' = "down"
        BY DEF EndProcess
    <2>2. taken'[c] + 0 <= MaxRequests[c]
        <3>1. Len(inbox[c]) \in Nat
            BY LenProperties DEF IInv, Types
        <3> QED BY <3>1, HttpAssumption DEF IInv, Types, Counted
    <2> QED BY <2>1, <2>2 DEF Counted, Accepted, RefusalWorks
<1>3. StrandServesSessions'
    BY DEF EndProcess, StrandServesSessions
<1>4. JoinsAreTold'
    BY <1>1, TokensAreNumbers DEF Types, EndProcess, JoinsAreTold
<1> QED BY <1>1, <1>2, <1>3, <1>4 DEF IInv

-----------------------------------------------------------------------------
(* What steps have in common.                                              *)

\* What a session knows of its connection.
SameRow(d) ==
    /\ at'[d] = at[d] /\ taken'[d] = taken[d] /\ reply'[d] = reply[d]
    /\ inbox'[d] = inbox[d] /\ link'[d] = link[d]
    /\ ran'[d] = ran[d] /\ told'[d] = told[d]

\* A step of one session leaves the others alone.
LEMMA OtherSessions ==
    ASSUME IInv, NEW c \in Conns, process' = process,
           \A d \in Conns \ {c} : SameRow(d),
           Counted(c)', Accepted(c)', RefusalWorks(c)'
    PROVE  \A d \in Conns : Counted(d)' /\ Accepted(d)' /\ RefusalWorks(d)'
<1> SUFFICES ASSUME NEW d \in Conns \ {c}
             PROVE  Counted(d)' /\ Accepted(d)' /\ RefusalWorks(d)'
    OBVIOUS
<1>1. SameRow(d)
    OBVIOUS
<1>2. Counted(d) /\ Accepted(d) /\ RefusalWorks(d)
    BY DEF IInv
<1> QED BY <1>1, <1>2 DEF SameRow, Counted, Accepted, RefusalWorks

\* A session that nobody on the strand serves may do what it likes.
LEMMA StrandUnconcerned ==
    ASSUME IInv, NEW c \in Conns, at[c] # "handling",
           \A d \in Conns \ {c} : at'[d] = at[d] /\ taken'[d] = taken[d],
           UNCHANGED api_strand
    PROVE  StrandServesSessions'
<1> SUFFICES ASSUME NEW k \in 1 .. Len(api_strand)
             PROVE  /\ at'[api_strand[k].conn] = "handling"
                    /\ api_strand[k].id = taken'[api_strand[k].conn]
    BY DEF IInv, StrandServesSessions
<1>1. api_strand[k] \in Entries
    BY ElementOfSeq DEF IInv, Types
<1>2. api_strand[k].conn \in Conns \ {c}
    BY <1>1 DEF IInv, StrandServesSessions, Entries
<1> QED BY <1>2 DEF IInv, StrandServesSessions

\* Nobody who joined is forgotten: answers are kept, and who was being told has been
\* told, is still being told, or is gone.
LEMMA JoinsKept ==
    ASSUME IInv, players' \subseteq players, Types',
           \A d \in Conns :
            /\ at[d] = "gone" => at'[d] = "gone"
            /\ \A k \in DOMAIN told[d] : k \in DOMAIN told'[d] /\ told'[d][k] = told[d][k]
            /\ at[d] = "writing" =>
                \/ at'[d] = "writing" /\ reply'[d] = reply[d]
                \/ at'[d] = "gone"
                \/ \E k \in DOMAIN told'[d] : told'[d][k] = reply[d].id
    PROVE  JoinsAreTold'
<1> SUFFICES ASSUME NEW t \in players'
             PROVE  \/ t \in ToldTokens'
                    \/ at'[t[1]] = "gone"
                    \/ /\ at'[t[1]] = "writing"
                       /\ reply'[t[1]].effect = "join" /\ reply'[t[1]].id = t[2]
    BY DEF JoinsAreTold
<1>1. t \in Tokens /\ t[1] \in Conns /\ t \in players
    BY TokensAreNumbers DEF Types
<1>2. CASE t \in ToldTokens
    BY <1>1, <1>2 DEF ToldTokens
<1>3. CASE at[t[1]] = "gone"
    BY <1>1, <1>3
<1>4. CASE at[t[1]] = "writing" /\ reply[t[1]].effect = "join" /\ reply[t[1]].id = t[2]
    <2>1. CASE \E k \in DOMAIN told'[t[1]] : told'[t[1]][k] = reply[t[1]].id
        BY <1>1, <1>4, <2>1 DEF ToldTokens
    <2> QED BY <1>1, <1>4, <2>1
<1> QED BY <1>1, <1>2, <1>3, <1>4 DEF IInv, JoinsAreTold

-----------------------------------------------------------------------------
(* The steps.                                                              *)

\* Clients, timers and the listener change neither strand nor players.
LEMMA QuietSteps ==
    ASSUME IInv, process = "up",
           \/ \E c \in Conns : Client(c) \/ OnAccept(c) \/ Expire(c)
           \/ AcceptFails \/ HandleSpins
    PROVE  IInv'
<1> USE DEF threadVars, clientVars
<1>1. ASSUME UNCHANGED <<process, main, link, inbox, at, taken, reply, api_strand, players,
                         ran, told>>,
             listener' \in {"accepts", "failed"}, overdue' \subseteq Conns,
             spinning' \in BOOLEAN
      PROVE  IInv'
    BY <1>1 DEF IInv, Types, Counted, Accepted, RefusalWorks, StrandServesSessions,
                JoinsAreTold, ToldTokens
<1>2. CASE AcceptFails \/ HandleSpins
    BY <1>1, <1>2 DEF AcceptFails, HandleSpins, IInv, Types
<1>3. ASSUME NEW c \in Conns, Expire(c) PROVE IInv'
    BY <1>1, <1>3 DEF Expire, IInv, Types
<1>4. ASSUME NEW c \in Conns, Connect(c) \/ Leave(c) \/ Send(c) \/ OnAccept(c) PROVE IInv'
    <2>1. UNCHANGED <<process, main, listener, overdue, taken, reply, api_strand, spinning,
                      players, ran, told>>
        BY <1>4 DEF Connect, Leave, Send, OnAccept
    <2>2. /\ inbox' \in [Conns -> Seq(SentRequests)]
          /\ \A d \in Conns \ {c} : inbox'[d] = inbox[d]
          /\ taken[c] + Len(inbox'[c]) <= MaxRequests[c]
        <3>1. CASE UNCHANGED inbox
            BY <3>1 DEF IInv, Types, Counted
        <3>2. CASE Send(c)
            <4>0. PICK req \in Requests : \E t \in TokensFor(req) :
                    inbox' = [inbox EXCEPT ![c] = Append(@, WithToken(req, t))]
                BY <3>2 DEF Send
            <4>1. PICK t \in TokensFor(req) :
                    inbox' = [inbox EXCEPT ![c] = Append(@, WithToken(req, t))]
                BY <4>0
            <4>2. WithToken(req, t) \in SentRequests
                BY DEF SentRequests, TokensFor, ToldTokens
            <4>3. /\ Append(inbox[c], WithToken(req, t)) \in Seq(SentRequests)
                  /\ Len(Append(inbox[c], WithToken(req, t))) = Len(inbox[c]) + 1
                  /\ Len(inbox[c]) \in Nat
                BY <4>2, AppendProperties, LenProperties DEF IInv, Types
            <4>4. taken[c] + Len(inbox[c]) < MaxRequests[c]
                BY <3>2 DEF Send
            <4>5. inbox \in [Conns -> Seq(SentRequests)] /\ taken[c] \in Nat
                  /\ MaxRequests[c] \in Nat
                BY HttpAssumption DEF IInv, Types
            <4> HIDE DEF SentRequests
            <4>6. /\ inbox' \in [Conns -> Seq(SentRequests)]
                  /\ \A d \in Conns \ {c} : inbox'[d] = inbox[d]
                  /\ inbox'[c] = Append(inbox[c], WithToken(req, t))
                BY <4>1, <4>3, <4>5
            <4> QED BY <4>3, <4>4, <4>5, <4>6
        <3> QED BY <1>4, <3>1, <3>2 DEF Connect, Leave, OnAccept
    <2>3. /\ link' \in [Conns -> {"none", "connecting", "open", "half", "reset"}]
          /\ \A d \in Conns \ {c} : link'[d] = link[d]
          /\ link'[c] \in {"none", "connecting"} => at'[c] = "none"
          /\ at' \in [Conns -> {"none", "reading", "handling", "writing", "gone"}]
          /\ \A d \in Conns \ {c} : at'[d] = at[d]
          /\ \/ at'[c] = at[c]
             \/ at[c] = "none" /\ at'[c] = "reading"
        <3>1. /\ link[c] \in {"none", "connecting"} => at[c] = "none"
              /\ link \in [Conns -> {"none", "connecting", "open", "half", "reset"}]
              /\ at \in [Conns -> {"none", "reading", "handling", "writing", "gone"}]
            BY DEF IInv, Types, Accepted
        <3>2. CASE Connect(c)
            BY <3>1, <3>2 DEF Connect
        <3>3. CASE Leave(c)
            BY <3>1, <3>3 DEF Leave
        <3>4. CASE Send(c)
            BY <3>1, <3>4 DEF Send
        <3>5. CASE OnAccept(c)
            BY <3>1, <3>5 DEF OnAccept
        <3> QED BY <1>4, <3>2, <3>3, <3>4, <3>5
    <2>4. Types'
        BY <2>1, <2>2, <2>3 DEF IInv, Types
    <2>5. \A d \in Conns : Counted(d)' /\ Accepted(d)' /\ RefusalWorks(d)'
        <3>1. Counted(c)' /\ Accepted(c)' /\ RefusalWorks(c)'
            BY <2>1, <2>2, <2>3 DEF IInv, Counted, Accepted, RefusalWorks
        <3>2. \A d \in Conns \ {c} : SameRow(d)
            BY <2>1, <2>2, <2>3 DEF SameRow
        <3> QED BY <2>1, <3>1, <3>2, OtherSessions
    <2>6. StrandServesSessions'
        <3>1. ASSUME NEW k \in 1 .. Len(api_strand) PROVE at'[api_strand[k].conn] = "handling"
            <4>1. api_strand[k] \in Entries
                BY ElementOfSeq DEF IInv, Types
            <4>2. api_strand[k].conn \in Conns /\ at[api_strand[k].conn] = "handling"
                BY <4>1 DEF Entries, IInv, StrandServesSessions
            <4> QED BY <2>3, <4>2
        <3> QED BY <2>1, <3>1 DEF IInv, StrandServesSessions
    <2>7. JoinsAreTold'
        BY <2>1, <2>3, <2>4, JoinsKept
    <2> QED BY <2>4, <2>5, <2>6, <2>7 DEF IInv
<1> QED BY <1>2, <1>3, <1>4 DEF Client

\* The end of a session: nothing is told any more, and no strand waits for it.
LEMMA EndSessionStep ==
    ASSUME IInv, NEW c \in Conns, EndSession(c), at[c] \in {"reading", "writing"},
           process = "up", UNCHANGED <<process, listener, link, api_strand, spinning,
                                       players, ran, told>>,
           main' \in {"runs", "lost"},
           taken' \in [Conns -> Nat], \A d \in Conns \ {c} : taken'[d] = taken[d],
           taken'[c] <= taken[c] + Len(inbox[c])
    PROVE  IInv'
<1>1. /\ at' \in [Conns -> {"none", "reading", "handling", "writing", "gone"}]
      /\ at'[c] = "gone" /\ \A d \in Conns \ {c} : at'[d] = at[d]
    BY DEF EndSession, IInv, Types
<1>2. /\ reply' \in [Conns -> SentReplies \cup {NoReply}]
      /\ reply'[c] = NoReply /\ \A d \in Conns \ {c} : reply'[d] = reply[d]
    BY DEF EndSession, IInv, Types
<1>3. /\ inbox' \in [Conns -> Seq(SentRequests)]
      /\ inbox'[c] = <<>> /\ \A d \in Conns \ {c} : inbox'[d] = inbox[d]
    <2>1. <<>> \in Seq(SentRequests)
        BY EmptySeq
    <2> QED BY <2>1 DEF EndSession, IInv, Types
<1>4. Types'
    BY <1>1, <1>2, <1>3 DEF EndSession, IInv, Types
<1>5. Counted(c)' /\ Accepted(c)' /\ RefusalWorks(c)'
    <2>1. Len(inbox[c]) \in Nat /\ taken[c] + Len(inbox[c]) <= MaxRequests[c]
        BY LenProperties DEF IInv, Types, Counted
    <2>2. taken'[c] + Len(inbox'[c]) <= MaxRequests[c]
        BY <1>3, <2>1, HttpAssumption DEF IInv, Types
    <2>3. link[c] \notin {"none", "connecting"}
        BY DEF IInv, Accepted
    <2> QED BY <1>1, <1>2, <2>2, <2>3 DEF Counted, Accepted, RefusalWorks
<1>6. \A d \in Conns : Counted(d)' /\ Accepted(d)' /\ RefusalWorks(d)'
    <2>1. \A d \in Conns \ {c} : SameRow(d)
        BY <1>1, <1>2, <1>3 DEF SameRow
    <2> QED BY <1>5, <2>1, OtherSessions
<1>7. StrandServesSessions'
    BY <1>1, StrandUnconcerned
<1>8. JoinsAreTold'
    BY <1>1, <1>2, <1>4, JoinsKept
<1> QED BY <1>4, <1>6, <1>7, <1>8 DEF IInv

\* The first request of an inbox, and what stays behind it.
LEMMA InboxProperties ==
    ASSUME IInv, NEW c \in Conns, HasRequest(c)
    PROVE  /\ Head(inbox[c]) \in SentRequests /\ Tail(inbox[c]) \in Seq(SentRequests)
           /\ Len(inbox[c]) \in Nat \ {0} /\ Len(Tail(inbox[c])) = Len(inbox[c]) - 1
           /\ taken[c] + 1 <= MaxRequests[c] /\ taken[c] \in Nat /\ MaxRequests[c] \in Nat
<1>1. inbox[c] \in Seq(SentRequests) /\ inbox[c] # <<>>
    BY DEF IInv, Types, HasRequest
<1>2. /\ Head(inbox[c]) \in SentRequests /\ Tail(inbox[c]) \in Seq(SentRequests)
      /\ Len(inbox[c]) \in Nat \ {0} /\ Len(Tail(inbox[c])) = Len(inbox[c]) - 1
    BY <1>1, HeadTailProperties, EmptySeq
<1> QED BY <1>2, HttpAssumption DEF IInv, Types, Counted

\* Sessions that end before or after a request, and the process that ends with one.
LEMMA EndingSteps ==
    ASSUME IInv, process = "up", NEW c \in Conns,
           OnReadError(c) \/ OnWriteError(c) \/ FileUnanswered(c) \/ NoRemoteEndpoint(c)
    PROVE  IInv'
<1> USE DEF threadVars
<1>1. CASE OnReadError(c) \/ OnWriteError(c)
    <2>1. /\ EndSession(c) /\ at[c] \in {"reading", "writing"}
          /\ UNCHANGED <<process, main, listener, link, taken, api_strand, spinning,
                         players, ran, told>>
        BY <1>1 DEF OnReadError, OnWriteError
    <2>2. /\ taken' \in [Conns -> Nat] /\ main' \in {"runs", "lost"}
          /\ taken'[c] <= taken[c] + Len(inbox[c])
        BY <2>1, LenProperties DEF IInv, Types
    <2> QED BY <2>1, <2>2, EndSessionStep
<1>2. CASE FileUnanswered(c)
    <2>1. /\ EndSession(c) /\ at[c] = "reading"
          /\ UNCHANGED <<process, main, listener, link, api_strand, spinning,
                         players, ran, told>>
          /\ taken' = [taken EXCEPT ![c] = @ + 1]
        BY <1>2 DEF FileUnanswered, HasRequest
    <2>2. Len(inbox[c]) \in Nat \ {0}
        BY <1>2, InboxProperties DEF FileUnanswered
    <2>3. /\ taken' \in [Conns -> Nat] /\ main' \in {"runs", "lost"}
          /\ \A d \in Conns \ {c} : taken'[d] = taken[d]
          /\ taken'[c] <= taken[c] + Len(inbox[c])
        BY <2>1, <2>2 DEF IInv, Types
    <2> QED BY <2>1, <2>3, EndSessionStep
<1>3. CASE NoRemoteEndpoint(c)
    <2>1. /\ at[c] = "reading"
          /\ UNCHANGED <<listener, link, taken, players, ran, told>>
        BY <1>3 DEF NoRemoteEndpoint, HasRequest
    <2>2. /\ taken' \in [Conns -> Nat]
          /\ \A d \in Conns : taken'[d] = taken[d] /\ taken'[d] <= taken[d] + Len(inbox[d])
          /\ ran' \in [Conns -> Seq(Nat)] /\ told' \in [Conns -> Seq(Nat)]
          /\ players' \subseteq Tokens /\ main \in {"runs", "lost"}
        BY <2>1, LenProperties DEF IInv, Types
    <2>3. CASE EndProcess /\ UNCHANGED main
        BY <2>1, <2>2, <2>3, EndProcessStep
    <2>4. CASE EndSession(c) /\ main' = "lost" /\ UNCHANGED <<process, api_strand, spinning>>
        BY <2>1, <2>2, <2>4, EndSessionStep
    <2> QED BY <1>3, <2>3, <2>4 DEF NoRemoteEndpoint, LoseThread
<1> QED BY <1>1, <1>2, <1>3

\* A request goes to the strand, and its session waits for it.
LEMMA DispatchStep ==
    ASSUME IInv, process = "up", NEW c \in Conns, DispatchRequest(c)
    PROVE  IInv'
<1> DEFINE entry == [conn |-> c, id |-> taken[c] + 1, req |-> Head(inbox[c])]
<1> USE DEF threadVars
<1>1. /\ at[c] = "reading" /\ HasRequest(c)
      /\ UNCHANGED <<process, main, listener, link, overdue, reply, spinning, players,
                     ran, told>>
    BY DEF DispatchRequest, HasRequest
<1>2. /\ Tail(inbox[c]) \in Seq(SentRequests) /\ Head(inbox[c]) \in SentRequests
      /\ Len(inbox[c]) \in Nat \ {0} /\ Len(Tail(inbox[c])) = Len(inbox[c]) - 1
      /\ taken[c] \in Nat /\ MaxRequests[c] \in Nat
    BY <1>1, InboxProperties
<1>3. entry \in Entries
    BY <1>2 DEF Entries
<1> HIDE DEF entry
<1>4. /\ inbox' \in [Conns -> Seq(SentRequests)] /\ inbox'[c] = Tail(inbox[c])
      /\ \A d \in Conns \ {c} : inbox'[d] = inbox[d]
    BY <1>2 DEF DispatchRequest, IInv, Types
<1>5. /\ at' \in [Conns -> {"none", "reading", "handling", "writing", "gone"}]
      /\ at'[c] = "handling" /\ \A d \in Conns \ {c} : at'[d] = at[d]
    BY DEF DispatchRequest, IInv, Types
<1>6. /\ taken' \in [Conns -> Nat] /\ taken'[c] = taken[c] + 1
      /\ \A d \in Conns \ {c} : taken'[d] = taken[d]
    BY <1>2 DEF DispatchRequest, IInv, Types
<1>7. /\ api_strand' = Append(api_strand, entry) /\ api_strand \in Seq(Entries)
      /\ Len(api_strand) \in Nat
    BY LenProperties DEF DispatchRequest, IInv, Types, entry
<1>8. /\ api_strand' \in Seq(Entries) /\ Len(api_strand') = Len(api_strand) + 1
      /\ \A k \in 1 .. Len(api_strand) : api_strand'[k] = api_strand[k]
      /\ api_strand'[Len(api_strand) + 1] = entry
    BY <1>3, <1>7, AppendProperties
<1>9. Types'
    BY <1>1, <1>4, <1>5, <1>6, <1>8 DEF IInv, Types
<1>10. \A d \in Conns : Counted(d)' /\ Accepted(d)' /\ RefusalWorks(d)'
    <2>1. Counted(c) /\ Accepted(c)
        BY DEF IInv
    <2>2. Counted(c)' /\ Accepted(c)' /\ RefusalWorks(c)'
        BY <1>1, <1>2, <1>4, <1>5, <1>6, <2>1, SMTT(25) DEF Counted, Accepted, RefusalWorks
    <2>3. \A d \in Conns \ {c} : SameRow(d)
        BY <1>1, <1>4, <1>5, <1>6 DEF SameRow
    <2> QED BY <1>1, <2>2, <2>3, OtherSessions
<1>11. StrandServesSessions'
    <2>1. \A k \in 1 .. Len(api_strand) :
            /\ api_strand[k].conn \in Conns \ {c}
            /\ at[api_strand[k].conn] = "handling"
            /\ api_strand[k].id = taken[api_strand[k].conn]
        <3> SUFFICES ASSUME NEW k \in 1 .. Len(api_strand)
                     PROVE  /\ api_strand[k].conn \in Conns \ {c}
                            /\ at[api_strand[k].conn] = "handling"
                            /\ api_strand[k].id = taken[api_strand[k].conn]
            OBVIOUS
        <3>1. api_strand[k].conn \in Conns
            <4>1. api_strand[k] \in Entries
                BY <1>7, ElementOfSeq
            <4> QED BY <4>1 DEF Entries
        <3> QED BY <1>1, <3>1 DEF IInv, StrandServesSessions
    <2>2. entry.conn = c /\ entry.id = taken'[c]
        BY <1>6 DEF entry
    <2>3. \A k \in 1 .. Len(api_strand') :
            /\ at'[api_strand'[k].conn] = "handling"
            /\ api_strand'[k].id = taken'[api_strand'[k].conn]
        BY <1>5, <1>6, <1>7, <1>8, <2>1, <2>2
    <2>4. ASSUME NEW k \in 1 .. Len(api_strand'), NEW m \in 1 .. Len(api_strand'),
                 api_strand'[k].conn = api_strand'[m].conn
          PROVE  k = m
        <3>1. CASE k \in 1 .. Len(api_strand) /\ m \in 1 .. Len(api_strand)
            BY <1>8, <2>4, <3>1 DEF IInv, StrandServesSessions
        <3>2. CASE k = Len(api_strand) + 1 /\ m \in 1 .. Len(api_strand)
            BY <1>8, <2>1, <2>2, <2>4, <3>2
        <3>3. CASE m = Len(api_strand) + 1 /\ k \in 1 .. Len(api_strand)
            BY <1>8, <2>1, <2>2, <2>4, <3>3
        <3> QED BY <1>7, <1>8, <3>1, <3>2, <3>3
    <2> QED BY <2>3, <2>4 DEF StrandServesSessions
<1>12. JoinsAreTold'
    BY <1>1, <1>5, <1>9, JoinsKept
<1> QED BY <1>9, <1>10, <1>11, <1>12 DEF IInv

\* What Session::Write makes of a reply of the program.
LEMMA WriteProperties ==
    ASSUME IInv, NEW c \in Conns, NEW id \in Nat \ {0}, NEW req \in SentRequests,
           NEW r \in Replies, Write(c, id, req, r),
           r.status = 405 => MethodsWork(req, r.allow)
    PROVE  /\ reply' \in [Conns -> SentReplies \cup {NoReply}]
           /\ reply'[c] # NoReply /\ reply'[c].id = id /\ reply'[c].effect = r.effect
           /\ reply'[c].status = 405 => MethodsWork(reply'[c].req, reply'[c].allow)
           /\ \A d \in Conns \ {c} : reply'[d] = reply[d]
           /\ at' \in [Conns -> {"none", "reading", "handling", "writing", "gone"}]
           /\ at'[c] = "writing" /\ \A d \in Conns \ {c} : at'[d] = at[d]
           /\ overdue' = overdue
<1> DEFINE sent == [status |-> r.status, allow |-> r.allow, effect |-> r.effect,
                    sized |-> r.sized, id |-> id, req |-> req]
<1>1. reply \in [Conns -> SentReplies \cup {NoReply}]
    BY DEF IInv, Types
<1>2. reply' = [reply EXCEPT ![c] = sent]
    BY DEF Write
<1>3. sent \in SentReplies
    BY DEF Replies, SentReplies
<1>4. sent # NoReply
    BY DEF Replies, NoReply
<1>5. /\ sent.id = id /\ sent.effect = r.effect /\ sent.status = r.status
      /\ sent.req = req /\ sent.allow = r.allow
    OBVIOUS
<1> HIDE DEF sent
<1>6. /\ reply' \in [Conns -> SentReplies \cup {NoReply}]
      /\ reply'[c] = sent /\ \A d \in Conns \ {c} : reply'[d] = reply[d]
    BY <1>1, <1>2, <1>3
<1>7. /\ at' \in [Conns -> {"none", "reading", "handling", "writing", "gone"}]
      /\ at'[c] = "writing" /\ \A d \in Conns \ {c} : at'[d] = at[d]
      /\ overdue' = overdue
    BY DEF Write, IInv, Types
<1> QED BY <1>4, <1>5, <1>6, <1>7

\* A file is answered at once.
LEMMA ServeFileStep ==
    ASSUME IInv, process = "up", NEW c \in Conns, ServeFile(c)
    PROVE  IInv'
<1> USE DEF threadVars
<1> DEFINE req == Head(inbox[c])
<1>1. /\ at[c] = "reading" /\ HasRequest(c) /\ ~IsApi(req)
      /\ UNCHANGED <<process, main, listener, link, api_strand, spinning, players, told>>
    BY DEF ServeFile, HasRequest
<1>2. /\ Tail(inbox[c]) \in Seq(SentRequests) /\ req \in SentRequests
      /\ Len(inbox[c]) \in Nat \ {0} /\ Len(Tail(inbox[c])) = Len(inbox[c]) - 1
      /\ taken[c] \in Nat /\ MaxRequests[c] \in Nat
    BY <1>1, InboxProperties
<1>3. /\ inbox' \in [Conns -> Seq(SentRequests)] /\ inbox'[c] = Tail(inbox[c])
      /\ \A d \in Conns \ {c} : inbox'[d] = inbox[d]
    BY <1>2 DEF ServeFile, IInv, Types
<1>4. /\ taken' \in [Conns -> Nat] /\ taken'[c] = taken[c] + 1
      /\ \A d \in Conns \ {c} : taken'[d] = taken[d]
    BY <1>2 DEF ServeFile, IInv, Types
<1>5. /\ ran' \in [Conns -> Seq(Nat)] /\ Len(ran'[c]) = Len(ran[c]) + 1
      /\ \A d \in Conns \ {c} : ran'[d] = ran[d]
    <2>1. ran \in [Conns -> Seq(Nat)] /\ ran' = [ran EXCEPT ![c] = Append(@, taken'[c])]
        BY DEF ServeFile, IInv, Types
    <2>2. taken'[c] \in Nat
        BY <1>2, <1>4
    <2>3. /\ Append(ran[c], taken'[c]) \in Seq(Nat)
          /\ Len(Append(ran[c], taken'[c])) = Len(ran[c]) + 1
        BY <2>1, <2>2, AppendProperties
    <2> QED BY <2>1, <2>3
<1>6. /\ FileReply(req) \in Replies
      /\ FileReply(req).status = 405 => MethodsWork(req, FileReply(req).allow)
    <2>1. FileReply(req) = ReplyTo(req, players, TestingMode)
        BY <1>1 DEF ReplyTo
    <2>2. PICK r \in Requests, token \in Tokens \cup {BadToken} : req = WithToken(r, token)
        BY <1>2 DEF SentRequests
    <2> HIDE DEF req
    <2> QED BY <2>1, <2>2, ReplyType, RefusalsNameMethods
<1>7. /\ reply' \in [Conns -> SentReplies \cup {NoReply}]
      /\ reply'[c] # NoReply /\ reply'[c].id = taken'[c]
      /\ reply'[c].status = 405 => MethodsWork(reply'[c].req, reply'[c].allow)
      /\ \A d \in Conns \ {c} : reply'[d] = reply[d]
      /\ at' \in [Conns -> {"none", "reading", "handling", "writing", "gone"}]
      /\ at'[c] = "writing" /\ \A d \in Conns \ {c} : at'[d] = at[d]
      /\ overdue' = overdue
    <2>1. Write(c, taken'[c], req, FileReply(req)) /\ taken'[c] \in Nat \ {0}
        BY <1>2, <1>4 DEF ServeFile
    <2> HIDE DEF req
    <2> QED BY <1>2, <1>6, <2>1, WriteProperties
<1>8. Types'
    BY <1>1, <1>3, <1>4, <1>5, <1>7 DEF IInv, Types
<1>9. \A d \in Conns : Counted(d)' /\ Accepted(d)' /\ RefusalWorks(d)'
    <2>1. Counted(c) /\ Accepted(c)
        BY DEF IInv
    <2>2. Counted(c)' /\ Accepted(c)' /\ RefusalWorks(c)'
        <3>1. Len(ran'[c]) = taken[c] + 1 /\ Len(told[c]) = taken[c]
            BY <1>1, <1>5, <2>1 DEF Counted
        <3>2. link[c] \notin {"none", "connecting"}
            BY <1>1, <2>1 DEF Accepted
        <3>3. taken'[c] + Len(inbox'[c]) <= MaxRequests[c] /\ taken'[c] > 0
            BY <1>2, <1>3, <1>4, <2>1 DEF Counted
        <3>4. told'[c] = told[c] /\ link'[c] = link[c]
            BY <1>1
        <3> QED BY <1>2, <1>4, <1>7, <3>1, <3>2, <3>3, <3>4 DEF Counted, Accepted, RefusalWorks
    <2>3. \A d \in Conns \ {c} : SameRow(d)
        BY <1>1, <1>3, <1>4, <1>5, <1>7 DEF SameRow
    <2> QED BY <1>1, <2>2, <2>3, OtherSessions
<1>10. StrandServesSessions'
    BY <1>1, <1>4, <1>7, StrandUnconcerned
<1>11. JoinsAreTold'
    BY <1>1, <1>7, <1>8, JoinsKept
<1> QED BY <1>8, <1>9, <1>10, <1>11 DEF IInv

\* An answer is told, and its session reads on or ends.
LEMMA OnWriteStep ==
    ASSUME IInv, process = "up", NEW c \in Conns, OnWrite(c)
    PROVE  IInv'
<1> USE DEF threadVars
<1>1. /\ at[c] = "writing"
      /\ UNCHANGED <<process, main, listener, link, taken, api_strand, spinning, players,
                     ran>>
    BY DEF OnWrite
<1>2. reply[c] \in SentReplies /\ reply[c].id \in Nat /\ taken[c] \in Nat
    <2>1. reply[c] \in SentReplies
        BY <1>1 DEF IInv, Types, Counted
    <2> QED BY <2>1 DEF SentReplies, IInv, Types
<1>3. /\ told' \in [Conns -> Seq(Nat)] /\ Len(told'[c]) = Len(told[c]) + 1
      /\ Len(told[c]) \in Nat
      /\ told'[c][Len(told[c]) + 1] = reply[c].id
      /\ \A k \in 1 .. Len(told[c]) : told'[c][k] = told[c][k]
      /\ \A d \in Conns \ {c} : told'[d] = told[d]
    <2>1. told \in [Conns -> Seq(Nat)] /\ told' = [told EXCEPT ![c] = Append(@, reply[c].id)]
        BY DEF OnWrite, IInv, Types
    <2>2. /\ Append(told[c], reply[c].id) \in Seq(Nat) /\ Len(told[c]) \in Nat
          /\ Len(Append(told[c], reply[c].id)) = Len(told[c]) + 1
          /\ Append(told[c], reply[c].id)[Len(told[c]) + 1] = reply[c].id
          /\ \A k \in 1 .. Len(told[c]) : Append(told[c], reply[c].id)[k] = told[c][k]
        BY <1>2, <2>1, AppendProperties, LenProperties
    <2> QED BY <2>1, <2>2
<1>4. /\ at' \in [Conns -> {"none", "reading", "handling", "writing", "gone"}]
      /\ at'[c] \in {"reading", "gone"} /\ \A d \in Conns \ {c} : at'[d] = at[d]
      /\ reply' \in [Conns -> SentReplies \cup {NoReply}]
      /\ reply'[c] = NoReply /\ \A d \in Conns \ {c} : reply'[d] = reply[d]
      /\ overdue' \subseteq Conns
    BY DEF OnWrite, EndSession, IInv, Types
<1>5. /\ inbox' \in [Conns -> Seq(SentRequests)]
      /\ inbox'[c] \in {inbox[c], <<>>} /\ \A d \in Conns \ {c} : inbox'[d] = inbox[d]
    <2>1. <<>> \in Seq(SentRequests)
        BY EmptySeq
    <2> QED BY <2>1, ZenonT(25) DEF OnWrite, EndSession, IInv, Types
<1>6. Types'
    BY <1>1, <1>3, <1>4, <1>5 DEF IInv, Types
<1>7. \A d \in Conns : Counted(d)' /\ Accepted(d)' /\ RefusalWorks(d)'
    <2>1. Counted(c) /\ Accepted(c)
        BY DEF IInv
    <2>2. taken[c] + Len(inbox'[c]) <= MaxRequests[c]
        <3>1. Len(inbox[c]) \in Nat /\ MaxRequests[c] \in Nat
            BY HttpAssumption, LenProperties DEF IInv, Types
        <3> QED BY <1>2, <1>5, <2>1, <3>1 DEF Counted
    <2>3. Counted(c)' /\ Accepted(c)' /\ RefusalWorks(c)'
        <3>1. Len(ran'[c]) = taken[c] /\ Len(told'[c]) = taken[c]
            BY <1>1, <1>2, <1>3, <2>1 DEF Counted
        <3>2. link[c] \notin {"none", "connecting"}
            BY <1>1, <2>1 DEF Accepted
        <3>3. taken'[c] = taken[c] /\ ran'[c] = ran[c] /\ link'[c] = link[c]
            BY <1>1
        <3> QED BY <1>4, <2>2, <3>1, <3>2, <3>3 DEF Counted, Accepted, RefusalWorks
    <2>4. \A d \in Conns \ {c} : SameRow(d)
        BY <1>1, <1>3, <1>4, <1>5 DEF SameRow
    <2> QED BY <1>1, <2>3, <2>4, OtherSessions
<1>8. StrandServesSessions'
    BY <1>1, <1>4, StrandUnconcerned
<1>9. JoinsAreTold'
    <2>1. \A d \in Conns : \A k \in DOMAIN told[d] :
            k \in DOMAIN told'[d] /\ told'[d][k] = told[d][k]
        <3>1. DOMAIN told[c] = 1 .. Len(told[c]) /\ DOMAIN told'[c] = 1 .. Len(told[c]) + 1
            BY <1>3, LenProperties DEF IInv, Types
        <3>2. \A k \in DOMAIN told[c] : k \in DOMAIN told'[c] /\ told'[c][k] = told[c][k]
            BY <1>3, <3>1
        <3>3. \A d \in Conns \ {c} : told'[d] = told[d]
            BY <1>3
        <3> QED BY <3>2, <3>3
    <2>2. \E k \in DOMAIN told'[c] : told'[c][k] = reply[c].id
        <3>1. Len(told[c]) + 1 \in DOMAIN told'[c]
            BY <1>3, LenProperties
        <3> QED BY <1>3, <3>1
    <2>3. \A d \in Conns : at[d] = "gone" => at'[d] = "gone"
        BY <1>1, <1>4
    <2>4. \A d \in Conns \ {c} : at'[d] = at[d] /\ reply'[d] = reply[d]
        BY <1>4
    <2> QED BY <1>1, <1>6, <2>1, <2>2, <2>3, <2>4, JoinsKept
<1> QED BY <1>6, <1>7, <1>8, <1>9 DEF IInv

\* The first handler of the strand, and those behind it.
LEMMA StrandHead ==
    ASSUME IInv, api_strand # <<>>
    PROVE  /\ Head(api_strand) \in Entries
           /\ at[Head(api_strand).conn] = "handling"
           /\ Head(api_strand).id = taken[Head(api_strand).conn]
           /\ Tail(api_strand) \in Seq(Entries)
           /\ \A k \in 1 .. Len(Tail(api_strand)) :
                /\ k + 1 \in 1 .. Len(api_strand)
                /\ Tail(api_strand)[k] = api_strand[k + 1]
                /\ Tail(api_strand)[k].conn \in Conns \ {Head(api_strand).conn}
<1>1. api_strand \in Seq(Entries) /\ Len(api_strand) \in Nat \ {0}
    BY EmptySeq DEF IInv, Types
<1>2. /\ Head(api_strand) = api_strand[1] /\ 1 \in 1 .. Len(api_strand)
      /\ Head(api_strand) \in Entries
    BY <1>1, HeadTailProperties
<1>3. /\ Tail(api_strand) \in Seq(Entries) /\ Len(Tail(api_strand)) = Len(api_strand) - 1
      /\ \A k \in 1 .. Len(Tail(api_strand)) : Tail(api_strand)[k] = api_strand[k + 1]
    BY <1>1, HeadTailProperties
<1>4. ASSUME NEW k \in 1 .. Len(Tail(api_strand))
      PROVE  /\ k + 1 \in 1 .. Len(api_strand)
             /\ Tail(api_strand)[k].conn \in Conns \ {Head(api_strand).conn}
    <2>1. k + 1 \in 1 .. Len(api_strand) /\ k + 1 # 1
        BY <1>1, <1>3
    <2>2. api_strand[k + 1] \in Entries
        BY <1>1, <2>1, ElementOfSeq
    <2>3. api_strand[k + 1].conn \in Conns
        BY <2>2 DEF Entries
    <2>4. api_strand[k + 1].conn # api_strand[1].conn
        BY <1>2, <2>1 DEF IInv, StrandServesSessions
    <2> QED BY <1>2, <1>3, <2>1, <2>3, <2>4
<1> QED BY <1>2, <1>3, <1>4 DEF IInv, StrandServesSessions

LEMMA StrandAdvances ==
    ASSUME IInv, api_strand # <<>>, api_strand' = Tail(api_strand),
           \A d \in Conns \ {Head(api_strand).conn} : at'[d] = at[d] /\ taken'[d] = taken[d]
    PROVE  StrandServesSessions'
<1> DEFINE rest == Tail(api_strand)
<1>1. \A k \in 1 .. Len(rest) : /\ k + 1 \in 1 .. Len(api_strand)
                                /\ rest[k] = api_strand[k + 1]
                                /\ rest[k].conn \in Conns \ {Head(api_strand).conn}
    BY StrandHead
<1> HIDE DEF rest
<1>2. \A k \in 1 .. Len(rest) : /\ at'[rest[k].conn] = "handling"
                                /\ rest[k].id = taken'[rest[k].conn]
    BY <1>1 DEF IInv, StrandServesSessions
<1>3. ASSUME NEW k \in 1 .. Len(rest), NEW m \in 1 .. Len(rest), rest[k].conn = rest[m].conn
      PROVE  k = m
    <2>1. k + 1 = m + 1
        BY <1>1, <1>3 DEF IInv, StrandServesSessions
    <2> QED BY <2>1
<1>4. api_strand' = rest
    BY DEF rest
<1> QED BY <1>2, <1>3, <1>4 DEF StrandServesSessions

\* A request is counted as run.
LEMMA RanProperties ==
    ASSUME IInv, NEW c \in Conns, NEW id \in Nat, ran' = [ran EXCEPT ![c] = Append(@, id)]
    PROVE  /\ ran' \in [Conns -> Seq(Nat)] /\ Len(ran'[c]) = Len(ran[c]) + 1
           /\ Len(ran[c]) \in Nat
           /\ \A d \in Conns \ {c} : ran'[d] = ran[d]
<1>1. ran \in [Conns -> Seq(Nat)]
    BY DEF IInv, Types
<1>2. /\ Append(ran[c], id) \in Seq(Nat) /\ Len(Append(ran[c], id)) = Len(ran[c]) + 1
      /\ Len(ran[c]) \in Nat
    BY <1>1, AppendProperties, LenProperties
<1> QED BY <1>1, <1>2

\* Only a join adds a player.
LEMMA NewPlayerJoined ==
    ASSUME NEW effect, NEW token, NEW after \in PlayersAfter(effect, token)
    PROVE  \A t \in after : \/ t \in players
                            \/ t = token /\ effect = "join"
<1>1. CASE effect = "join"
    <2>1. after = players \cup {token}
        BY <1>1 DEF PlayersAfter
    <2> QED BY <1>1, <2>1
<1>2. CASE effect = "tick"
    <2>1. after \in {players} \cup {players \ {t} : t \in players}
        BY <1>2 DEF PlayersAfter
    <2> QED BY <2>1
<1>3. CASE effect \notin {"join", "tick"}
    <2>1. after = players
        BY <1>3 DEF PlayersAfter
    <2> QED BY <2>1
<1> QED BY <1>1, <1>2, <1>3

\* The handler on the strand runs, and its reply is written.
LEMMA HandleStep ==
    ASSUME IInv, process = "up", Handle
    PROVE  IInv'
<1> USE DEF threadVars, clientVars
<1>0. PICK entry \in Entries : entry = Head(api_strand)
    BY StrandHead DEF Handle, Serving
<1> DEFINE c == entry.conn
           id == entry.id
           req == entry.req
           r == ReplyTo(req, players, TestingMode)
<1>1. /\ api_strand # <<>> /\ api_strand' = Tail(api_strand)
      /\ UNCHANGED <<process, main, listener, link, inbox, taken, spinning, told>>
    BY DEF Handle, Serving
<1>2. /\ c \in Conns /\ id \in Nat \ {0} /\ req \in SentRequests
      /\ at[c] = "handling" /\ id = taken[c] /\ Tail(api_strand) \in Seq(Entries)
    BY <1>0, <1>1, StrandHead DEF Entries
<1>3. /\ players' \in PlayersAfter(r.effect, TokenOf(c, id))
      /\ ran' = [ran EXCEPT ![c] = Append(@, id)]
      /\ Write(c, id, req, r)
    BY <1>0 DEF Handle
<1>4. r \in Replies /\ (r.status = 405 => MethodsWork(req, r.allow))
    <2>1. PICK sent \in Requests, token \in Tokens \cup {BadToken} :
            req = WithToken(sent, token)
        BY <1>2 DEF SentRequests
    <2> HIDE DEF req
    <2> QED BY <2>1, ReplyType, RefusalsNameMethods
<1> HIDE DEF c, id, req, r
<1>5. Counted(c) /\ Accepted(c)
    BY <1>2 DEF IInv
<1>6. TokenOf(c, id) \in Tokens
    <2>1. Len(inbox[c]) \in Nat /\ MaxRequests[c] \in Nat
        BY <1>2, HttpAssumption, LenProperties DEF IInv, Types
    <2>2. id \in 1 .. MaxRequests[c]
        BY <1>2, <1>5, <2>1 DEF Counted
    <2> QED BY <1>2, <2>2 DEF Tokens
<1>7. /\ reply' \in [Conns -> SentReplies \cup {NoReply}]
      /\ reply'[c] # NoReply /\ reply'[c].id = id /\ reply'[c].effect = r.effect
      /\ reply'[c].status = 405 => MethodsWork(reply'[c].req, reply'[c].allow)
      /\ \A d \in Conns \ {c} : reply'[d] = reply[d]
      /\ at' \in [Conns -> {"none", "reading", "handling", "writing", "gone"}]
      /\ at'[c] = "writing" /\ \A d \in Conns \ {c} : at'[d] = at[d]
      /\ overdue' = overdue
    BY <1>2, <1>3, <1>4, WriteProperties
<1>8. /\ ran' \in [Conns -> Seq(Nat)] /\ Len(ran'[c]) = Len(ran[c]) + 1
      /\ \A d \in Conns \ {c} : ran'[d] = ran[d]
      /\ Len(ran[c]) \in Nat
    BY <1>2, <1>3, RanProperties
<1>9. \A t \in players' : \/ t \in players
                          \/ t = TokenOf(c, id) /\ r.effect = "join"
    BY <1>3, NewPlayerJoined
<1>10. Types'
    <2>1. players' \subseteq Tokens
        BY <1>6, <1>9 DEF IInv, Types
    <2> QED BY <1>1, <1>2, <1>7, <1>8, <2>1 DEF IInv, Types
<1>11. \A d \in Conns : Counted(d)' /\ Accepted(d)' /\ RefusalWorks(d)'
    <2>1. Len(ran'[c]) = taken[c] /\ Len(told[c]) = taken[c] - 1 /\ taken[c] > 0
        <3>1. taken[c] \in Nat
            BY <1>2
        <3>2. taken[c] > 0 /\ Len(ran[c]) = taken[c] - 1 /\ Len(told[c]) = taken[c] - 1
            BY <1>2, <1>5 DEF Counted
        <3> QED BY <1>8, <3>1, <3>2
    <2>2. link[c] \notin {"none", "connecting"}
        BY <1>2, <1>5 DEF Accepted
    <2>3. Counted(c)' /\ Accepted(c)' /\ RefusalWorks(c)'
        <3>1. /\ taken'[c] = taken[c] /\ told'[c] = told[c] /\ link'[c] = link[c]
              /\ inbox'[c] = inbox[c]
            BY <1>1
        <3> QED BY <1>2, <1>5, <1>7, <2>1, <2>2, <3>1 DEF Counted, Accepted, RefusalWorks
    <2>4. \A d \in Conns \ {c} : SameRow(d)
        <3>1. \A d \in Conns : /\ taken'[d] = taken[d] /\ told'[d] = told[d]
                               /\ link'[d] = link[d] /\ inbox'[d] = inbox[d]
            BY <1>1
        <3> QED BY <1>7, <1>8, <3>1 DEF SameRow
    <2> QED BY <1>1, <1>2, <2>3, <2>4, OtherSessions
<1>12. StrandServesSessions'
    <2>1. c = Head(api_strand).conn /\ \A d \in Conns : taken'[d] = taken[d]
        BY <1>0, <1>1 DEF c
    <2> QED BY <1>1, <1>7, <2>1, StrandAdvances
<1>13. JoinsAreTold'
    <2> SUFFICES ASSUME NEW t \in players'
                 PROVE  \/ t \in ToldTokens'
                        \/ at'[t[1]] = "gone"
                        \/ /\ at'[t[1]] = "writing"
                           /\ reply'[t[1]].effect = "join" /\ reply'[t[1]].id = t[2]
        BY DEF JoinsAreTold
    <2>1. CASE t = TokenOf(c, id) /\ r.effect = "join"
        BY <1>7, <2>1 DEF TokenOf
    <2>2. CASE t \in players
        <3>1. t[1] \in Conns
            BY <1>10, TokensAreNumbers DEF Types
        <3>2. CASE t[1] = c
            <4>1. t \in ToldTokens
                BY <1>2, <2>2, <3>2 DEF IInv, JoinsAreTold
            <4> QED BY <1>1, <4>1 DEF ToldTokens
        <3>3. CASE t[1] # c
            <4>1. at'[t[1]] = at[t[1]] /\ reply'[t[1]] = reply[t[1]]
                BY <1>7, <3>1, <3>3
            <4>2. t \in ToldTokens => t \in ToldTokens'
                BY <1>1 DEF ToldTokens
            <4> QED BY <2>2, <4>1, <4>2 DEF IInv, JoinsAreTold
        <3> QED BY <3>2, <3>3
    <2> QED BY <1>9, <2>1, <2>2
<1> QED BY <1>10, <1>11, <1>12, <1>13 DEF IInv

\* The handler on the strand throws: its session ends, or the process does.
LEMMA HandleThrowsStep ==
    ASSUME IInv, process = "up", HandleThrows
    PROVE  IInv'
<1>1. PICK entry \in Entries : entry = Head(api_strand)
    BY StrandHead DEF HandleThrows, Serving
<1> DEFINE c == entry.conn
           id == entry.id
           r == ReplyTo(entry.req, players, TestingMode)
<1>2. /\ c \in Conns /\ id \in Nat \ {0} /\ api_strand # <<>>
      /\ at[c] = "handling" /\ id = taken[c] /\ Tail(api_strand) \in Seq(Entries)
    BY <1>1, StrandHead DEF HandleThrows, Serving, Entries
<1>3. /\ ran' = [ran EXCEPT ![c] = Append(@, id)]
      /\ LoseThread(c, Tail(api_strand))
      /\ UNCHANGED <<listener, link, taken, told>>
    BY <1>1 DEF HandleThrows
<1>4. players' \subseteq players
    <2>1. CASE UNCHANGED players
        BY <2>1
    <2>2. CASE MayThrow(entry.req, r) /\ players' \in PlayersAfter(r.effect, BadToken)
        <3>1. r.effect # "join"
            BY <2>2, ThrowersDoNotJoin
        <3> QED BY <2>2, <3>1, NewPlayerJoined
    <2> QED BY <1>1, <2>1, <2>2 DEF HandleThrows
<1> HIDE DEF c, id, r
<1>5. /\ ran' \in [Conns -> Seq(Nat)]
      /\ \A d \in Conns \ {c} : ran'[d] = ran[d]
    BY <1>2, <1>3, RanProperties
<1>6. CASE EndProcess /\ UNCHANGED main
    <2>1. /\ taken' \in [Conns -> Nat] /\ told' \in [Conns -> Seq(Nat)]
          /\ \A d \in Conns : taken'[d] <= taken[d] + Len(inbox[d])
          /\ players' \subseteq Tokens /\ main' \in {"runs", "lost"}
        BY <1>3, <1>4, <1>6, LenProperties DEF IInv, Types
    <2> QED BY <1>3, <1>5, <1>6, <2>1, EndProcessStep
<1>7. CASE /\ main' = "lost" /\ EndSession(c) /\ api_strand' = Tail(api_strand)
           /\ UNCHANGED <<process, spinning>>
    <2>1. /\ at' \in [Conns -> {"none", "reading", "handling", "writing", "gone"}]
          /\ at'[c] = "gone" /\ \A d \in Conns \ {c} : at'[d] = at[d]
        BY <1>2, <1>7 DEF EndSession, IInv, Types
    <2>2. /\ reply' \in [Conns -> SentReplies \cup {NoReply}]
          /\ reply'[c] = NoReply /\ \A d \in Conns \ {c} : reply'[d] = reply[d]
        BY <1>2, <1>7 DEF EndSession, IInv, Types
    <2>3. /\ inbox' \in [Conns -> Seq(SentRequests)]
          /\ inbox'[c] = <<>> /\ \A d \in Conns \ {c} : inbox'[d] = inbox[d]
        <3>1. <<>> \in Seq(SentRequests)
            BY EmptySeq
        <3> QED BY <1>2, <1>7, <3>1 DEF EndSession, IInv, Types
    <2>4. Types'
        <3>1. overdue' \subseteq Conns /\ players' \subseteq Tokens
            BY <1>4, <1>7 DEF EndSession, IInv, Types
        <3> QED BY <1>2, <1>3, <1>5, <1>7, <2>1, <2>2, <2>3, <3>1 DEF IInv, Types
    <2>5. \A d \in Conns : Counted(d)' /\ Accepted(d)' /\ RefusalWorks(d)'
        <3>1. taken'[c] + Len(inbox'[c]) <= MaxRequests[c]
            <4>1. /\ Len(inbox[c]) \in Nat /\ taken[c] \in Nat /\ MaxRequests[c] \in Nat
                  /\ taken[c] + Len(inbox[c]) <= MaxRequests[c]
                BY <1>2, LenProperties, HttpAssumption DEF IInv, Types, Counted
            <4> QED BY <1>3, <2>3, <4>1
        <3>2. link'[c] \notin {"none", "connecting"}
            BY <1>2, <1>3 DEF IInv, Accepted
        <3>3. Counted(c)' /\ Accepted(c)' /\ RefusalWorks(c)'
            BY <2>1, <2>2, <3>1, <3>2 DEF Counted, Accepted, RefusalWorks
        <3>4. \A d \in Conns \ {c} : SameRow(d)
            <4>1. \A d \in Conns : /\ taken'[d] = taken[d] /\ told'[d] = told[d]
                                   /\ link'[d] = link[d]
                BY <1>3
            <4> QED BY <1>5, <2>1, <2>2, <2>3, <4>1 DEF SameRow
        <3> QED BY <1>2, <1>7, <3>3, <3>4, OtherSessions
    <2>6. StrandServesSessions'
        <3>1. c = Head(api_strand).conn /\ \A d \in Conns : taken'[d] = taken[d]
            BY <1>1, <1>3 DEF c
        <3> QED BY <1>2, <1>7, <2>1, <3>1, StrandAdvances
    <2>7. JoinsAreTold'
        <3>1. \A d \in Conns : /\ at[d] = "gone" => at'[d] = "gone"
                               /\ told'[d] = told[d]
                               /\ at[d] = "writing" =>
                                    at'[d] = "writing" /\ reply'[d] = reply[d]
            BY <1>2, <1>3, <2>1, <2>2
        <3> QED BY <1>4, <2>4, <3>1, JoinsKept
    <2> QED BY <2>4, <2>5, <2>6, <2>7 DEF IInv
<1> QED BY <1>3, <1>6, <1>7 DEF LoseThread

\* A signal ends everything.
LEMMA StopStep ==
    ASSUME IInv, Stop
    PROVE  IInv'
<1>1. /\ EndProcess /\ UNCHANGED <<main, listener, link, taken, players, ran, told>>
    BY DEF Stop
<1>2. /\ taken' \in [Conns -> Nat] /\ told' \in [Conns -> Seq(Nat)]
      /\ ran' \in [Conns -> Seq(Nat)]
      /\ \A d \in Conns : taken'[d] <= taken[d] + Len(inbox[d])
      /\ players' \subseteq Tokens /\ main' \in {"runs", "lost"}
    BY <1>1, LenProperties DEF IInv, Types
<1> QED BY <1>1, <1>2, EndProcessStep

LEMMA NextStep ==
    ASSUME IInv, [Next]_vars
    PROVE  IInv'
<1>1. CASE Next
    <2>1. process = "up"
        BY <1>1 DEF Next
    <2>2. ASSUME NEW c \in Conns, Client(c) \/ OnAccept(c) \/ Expire(c) PROVE IInv'
        BY <2>1, <2>2, QuietSteps
    <2>3. ASSUME NEW c \in Conns, SessionStep(c) PROVE IInv'
        BY <2>1, <2>3, EndingSteps, DispatchStep, ServeFileStep, OnWriteStep DEF SessionStep
    <2>4. CASE StrandStep
        BY <2>1, <2>4, HandleStep, HandleThrowsStep, QuietSteps DEF StrandStep
    <2>5. CASE AcceptFails
        BY <2>1, <2>5, QuietSteps
    <2>6. CASE Stop
        BY <2>6, StopStep
    <2> QED BY <1>1, <2>2, <2>3, <2>4, <2>5, <2>6 DEF Next
<1>2. CASE UNCHANGED vars
    BY <1>2 DEF vars, threadVars, clientVars, IInv, Types, Counted, Accepted, RefusalWorks,
                StrandServesSessions, JoinsAreTold, ToldTokens
<1> QED BY <1>1, <1>2

LEMMA InvariantHolds == Spec => []IInv
BY InitInvariant, NextStep, PTL DEF Spec

-----------------------------------------------------------------------------
(* The theorems.                                                           *)

\* Sessions, strand, replies and players keep their types; a session has a reply exactly
\* while it writes one, and no client is served more requests than it sent.
THEOREM TypeCorrect == Spec => []TypeOK
BY InvariantHolds, InvariantImpliesTypes, PTL

\* Whoever has joined was told its token, is being told, or lost its connection: no other
\* answer ever takes the place of that to a join.
THEOREM JoinsAreToldHolds == Spec => []JoinsAreTold
<1>1. IInv => JoinsAreTold
    BY DEF IInv
<1> QED BY <1>1, InvariantHolds, PTL

\* The methods that the Allow header of a 405 names are those the target takes, on
\* whichever of RequestAPI's branches the refusal was made.
THEOREM AllowedMethodsAreNotRefusedHolds == Spec => []AllowedMethodsAreNotRefused
<1>1. IInv => AllowedMethodsAreNotRefused
    BY DEF IInv, RefusalWorks, MethodsWork, AllowedMethodsAreNotRefused
<1> QED BY <1>1, InvariantHolds, PTL

-----------------------------------------------------------------------------
(* The refinement.                                                         *)

\* A connection that is gone stays so.
LEMMA GoneForGood ==
    ASSUME IInv, Next, NEW d \in Conns, at[d] = "gone"
    PROVE  at'[d] = "gone"
<1> USE DEF threadVars, clientVars
<1>1. process = "up" /\ at \in [Conns -> {"none", "reading", "handling", "writing", "gone"}]
    BY DEF Next, IInv, Types
<1>2. ASSUME EndProcess \/ UNCHANGED at PROVE at'[d] = "gone"
    BY <1>2 DEF EndProcess
<1>3. ASSUME NEW c \in Conns, EndSession(c) PROVE at'[d] = "gone"
    BY <1>1, <1>3 DEF EndSession
<1>4. ASSUME NEW c \in Conns, Client(c) \/ OnAccept(c) \/ Expire(c) PROVE at'[d] = "gone"
    <2>1. CASE OnAccept(c)
        <3>1. at[c] = "none"
            BY <1>1, <2>1 DEF OnAccept, IInv, Accepted
        <3> QED BY <1>1, <2>1, <3>1 DEF OnAccept
    <2>2. CASE Client(c) \/ Expire(c)
        BY <2>2 DEF Client, Connect, Send, Leave, Expire
    <2> QED BY <1>4, <2>1, <2>2
<1>5. ASSUME NEW c \in Conns, SessionStep(c) PROVE at'[d] = "gone"
    <2>1. CASE OnReadError(c) \/ FileUnanswered(c) \/ OnWriteError(c) \/ NoRemoteEndpoint(c)
        BY <1>2, <1>3, <2>1 DEF OnReadError, FileUnanswered, OnWriteError, NoRemoteEndpoint,
                                LoseThread
    <2>2. CASE DispatchRequest(c) \/ ServeFile(c) \/ OnWrite(c)
        BY <1>1, <1>3, <2>2 DEF DispatchRequest, ServeFile, Write, OnWrite, HasRequest
    <2> QED BY <1>5, <2>1, <2>2 DEF SessionStep
<1>6. CASE StrandStep
    <2>1. CASE Handle
        <3>1. Head(api_strand).conn \in Conns /\ at[Head(api_strand).conn] = "handling"
            BY <2>1, StrandHead DEF Handle, Serving, Entries
        <3> QED BY <1>1, <2>1, <3>1 DEF Handle, Write
    <2>2. CASE HandleThrows
        <3>1. Head(api_strand).conn \in Conns
            BY <2>2, StrandHead DEF HandleThrows, Serving, Entries
        <3>2. EndProcess \/ EndSession(Head(api_strand).conn)
            BY <2>2 DEF HandleThrows, LoseThread
        <3> QED BY <1>2, <1>3, <3>1, <3>2
    <2>3. CASE HandleSpins
        BY <2>3 DEF HandleSpins
    <2> QED BY <1>6, <2>1, <2>2, <2>3 DEF StrandStep
<1>7. CASE AcceptFails \/ Stop
    BY <1>2, <1>7 DEF AcceptFails, Stop
<1> QED BY <1>4, <1>5, <1>6, <1>7 DEF Next

Ended == {c \in Conns : at[c] = "gone"}

\* What a step does to the counts of a connection.
LEMMA StepConverses ==
    ASSUME IInv, Next
    PROVE  \/ UNCHANGED <<taken, ran, told>>
           \/ \E c \in Conns \ Ended :
                Conversation!Take(c) \/ Conversation!Run(c) \/ Conversation!Tell(c)
<1> USE DEF threadVars, clientVars
<1>1. ASSUME NEW c \in Conns, Client(c) \/ OnAccept(c) \/ Expire(c)
      PROVE  UNCHANGED <<taken, ran, told>>
    BY <1>1 DEF Client, Connect, Send, Leave, OnAccept, Expire
<1>2. ASSUME NEW c \in Conns, OnReadError(c) \/ OnWriteError(c) \/ NoRemoteEndpoint(c)
      PROVE  UNCHANGED <<taken, ran, told>>
    BY <1>2 DEF OnReadError, OnWriteError, NoRemoteEndpoint
<1>3. ASSUME NEW c \in Conns, DispatchRequest(c) \/ ServeFile(c) \/ FileUnanswered(c)
      PROVE  c \in Conns \ Ended /\ Conversation!Take(c)
    <2>1. at[c] = "reading" /\ taken' = [taken EXCEPT ![c] = @ + 1] /\ UNCHANGED told
        BY <1>3 DEF DispatchRequest, ServeFile, FileUnanswered, HasRequest
    <2>2. Len(told[c]) = taken[c] /\ taken \in [Conns -> Nat]
        BY <2>1 DEF IInv, Types, Counted
    <2>3. ran' \in {ran, [ran EXCEPT ![c] = Append(@, taken[c] + 1)]}
        <3>1. CASE DispatchRequest(c) \/ FileUnanswered(c)
            BY <3>1 DEF DispatchRequest, FileUnanswered
        <3>2. CASE ServeFile(c)
            <4>1. taken'[c] = taken[c] + 1
                BY <2>1, <2>2
            <4> QED BY <3>2, <4>1 DEF ServeFile
        <3> QED BY <1>3, <3>1, <3>2
    <2> QED BY <2>1, <2>2, <2>3 DEF Ended, Conversation!Take, Conversation!AnswersAll
<1>4. ASSUME NEW c \in Conns, OnWrite(c)
      PROVE  c \in Conns \ Ended /\ Conversation!Tell(c)
    <2>1. /\ at[c] = "writing" /\ UNCHANGED <<taken, ran>>
          /\ told' = [told EXCEPT ![c] = Append(@, reply[c].id)]
        BY <1>4 DEF OnWrite
    <2>2. /\ reply[c].id = taken[c] /\ taken[c] \in Nat
          /\ Len(told[c]) = taken[c] - 1 /\ Len(ran[c]) = taken[c]
        BY <2>1 DEF IInv, Types, Counted
    <2> QED BY <2>1, <2>2 DEF Ended, Conversation!Tell
<1>5. CASE Handle \/ HandleThrows
    <2>1. PICK entry \in Entries : entry = Head(api_strand)
        BY <1>5, StrandHead DEF Handle, HandleThrows, Serving
    <2> DEFINE c == entry.conn
    <2>2. /\ c \in Conns /\ at[c] = "handling" /\ entry.id = taken[c]
        BY <1>5, <2>1, StrandHead DEF Handle, HandleThrows, Serving, Entries
    <2>3. Len(ran[c]) = taken[c] - 1 /\ taken[c] \in Nat
        BY <2>2 DEF IInv, Types, Counted
    <2>4. ran' = [ran EXCEPT ![c] = Append(@, taken[c])] /\ UNCHANGED <<taken, told>>
        BY <1>5, <2>1, <2>2 DEF Handle, HandleThrows
    <2>5. c \in Conns \ Ended /\ Conversation!Run(c)
        BY <2>2, <2>3, <2>4 DEF Ended, Conversation!Run
    <2> QED BY <2>5
<1>6. CASE HandleSpins \/ AcceptFails \/ Stop
    BY <1>6 DEF HandleSpins, AcceptFails, Stop
<1>7. ASSUME NEW c \in Conns, SessionStep(c)
      PROVE  \/ UNCHANGED <<taken, ran, told>>
             \/ c \in Conns \ Ended /\ (Conversation!Take(c) \/ Conversation!Tell(c))
    BY <1>2, <1>3, <1>4, <1>7 DEF SessionStep
<1> QED BY <1>1, <1>5, <1>6, <1>7 DEF Next, StrandStep

\* Whatever clients, timers, failing sends, exceptions and signals do, each connection is a
\* conversation: one request at a time, run at most once, answered at most once, in order,
\* and nothing after the end.
THEOREM ServerImplementsConversation == Spec => ImplementsConversation
<1>1. Init => Conversation!Init
    BY DEF Init, Conversation!Init
<1>2. IInv /\ [Next]_vars => [Conversation!Next]_(Conversation!vars)
    <2> SUFFICES ASSUME IInv, [Next]_vars
                 PROVE  [Conversation!Next]_(Conversation!vars)
        OBVIOUS
    <2>1. CASE Next
        <3>1. Ended \subseteq Ended' /\ Ended' \subseteq Conns
            BY <2>1, GoneForGood DEF Ended
        <3> QED BY <2>1, <3>1, StepConverses
                DEF Ended, Conversation!Next, Conversation!End
    <2>2. CASE UNCHANGED vars
        BY <2>2 DEF vars, Conversation!vars
    <2> QED BY <2>1, <2>2
<1> QED BY <1>1, <1>2, InvariantHolds, PTL DEF Spec, ImplementsConversation, Conversation!Spec

=============================================================================
