----------------------------- MODULE RequestApi -----------------------------
(***************************************************************************)
(* How a request is answered: RequestAPI::process for the targets of the   *)
(* API and RequestFile::process for all others, as operators on a request. *)
(*                                                                         *)
(* A request is a record of what the code asks about it.                   *)
(*   verb    the method; all methods but three are treated alike           *)
(*   target  which of the known targets the decoded path is                *)
(*   body    "asked": JSON with the content type and the keys the target   *)
(*           wants; "list": JSON that is not an object; "other": the rest  *)
(*   arg     whether the values are accepted, name nothing known, or are   *)
(*           refused (a name, a map, a time, a number of rows, a path)     *)
(*   token   the token the authorization contains, or BadToken             *)
(*   keep    whether the client wants to keep the connection               *)
(* A reply is its status, the methods of its Allow header, what was done   *)
(* to the game, and whether it has a Content-Length.                       *)
(***************************************************************************)
EXTENDS Naturals

CONSTANT BadToken   \* no authorization, or one that is not 32 hex digits

Verbs == {"GET", "HEAD", "POST", "OTHER"}

GET_HEAD == {"GET", "HEAD"}
POST == {"POST"}
GET_HEAD_POST == GET_HEAD \cup POST

Targets == {"maps", "map", "join", "players", "state", "action", "records", "tick",
            "file"}

Effects == {"none", "join", "action", "tick"}

\* target_is_api of RequestHandler: everything that is not of the API is a file.
IsApi(req) == req.target # "file"

Done(effect) == [status |-> 200, allow |-> {}, effect |-> effect, sized |-> TRUE]
Refused(status) == [status |-> status, allow |-> {}, effect |-> "none", sized |-> TRUE]
NotAllowed(methods) ==
    [status |-> 405, allow |-> methods, effect |-> "none", sized |-> TRUE]

\* The response as it was constructed: no branch of the switch assigned another.
Untouched == [status |-> 200, allow |-> {}, effect |-> "none", sized |-> FALSE]

\* this_is_bad_autorization and FindPlayerByToken, then the reply for a player.
ForPlayer(req, players, reply) ==
    IF req.token \in players THEN reply ELSE Refused(401)

GetReply(req, players) ==
    CASE req.target \in {"join", "tick"} -> NotAllowed(POST)
      [] req.target \in {"players", "state"} -> ForPlayer(req, players, Done("none"))
      [] req.target = "records" -> IF req.arg = "refused" THEN Refused(400) ELSE Done("none")
      [] req.target = "map" -> IF req.arg = "unknown" THEN Refused(404) ELSE Done("none")
      [] req.target = "maps" -> Done("none")
      [] OTHER -> Untouched

TickReply(req, testing) ==
    IF testing /\ req.arg = "accepted" THEN Done("tick") ELSE Refused(400)

JoinReply(req) ==
    CASE req.arg = "refused" -> Refused(400)
      [] req.arg = "unknown" -> Refused(404)
      [] OTHER -> Done("join")

PostReply(req, players, testing) ==
    CASE req.target \in {"players", "state", "map"} -> NotAllowed(GET_HEAD)
      [] req.target = "tick" /\ req.body = "asked" -> TickReply(req, testing)
      [] req.target = "action" /\ req.body = "asked" ->
             ForPlayer(req, players, Done("action"))
      [] req.target = "join" /\ req.body = "asked" -> JoinReply(req)
      [] OTHER -> Refused(400)

\* Mutant: every target is said to be for reading.
OtherReplyForReading(req) == NotAllowed(GET_HEAD)

\* The default branch.  That of the action names the methods of a state.
OtherReply(req) ==
    CASE req.target \in {"players", "state", "action", "records", "map"} -> NotAllowed(GET_HEAD)
      [] req.target \in {"join", "tick"} -> NotAllowed(POST)
      [] OTHER -> NotAllowed(GET_HEAD_POST)

\* RequestFile::process, for a path that can be looked up and a file that opens.
FileReply(req) ==
    CASE req.verb \notin GET_HEAD -> NotAllowed(GET_HEAD)
      [] req.arg = "refused" -> Refused(400)
      [] req.arg = "unknown" -> Refused(404)
      [] OTHER -> Done("none")

\* The switch over the method.
ReplyTo(req, players, testing) ==
    CASE ~IsApi(req) -> FileReply(req)
      [] IsApi(req) /\ req.verb \in GET_HEAD -> GetReply(req, players)
      [] IsApi(req) /\ req.verb = "POST" -> PostReply(req, players, testing)
      [] OTHER -> OtherReply(req)

\* isJsonHaveKeys takes the body as an object, whatever JSON it is; each call for
\* the API gets there before it has changed anything, or has nothing to change.
AlwaysThrows(req) == req.body = "list"

\* What may throw although the request is right: the database under the records,
\* and everything that Game::Update does.
MayThrow(req, reply) ==
    reply.status = 200 /\ (req.target = "records" \/ reply.effect = "tick")
=============================================================================
