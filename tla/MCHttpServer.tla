---------------------------- MODULE MCHttpServer ----------------------------
(* Requests for checking HttpServer: one for each way a request can go.    *)
EXTENDS HttpServer

CONSTANTS c1, c2

\* On one connection a client may send two requests, without waiting between them.
MCMaxRequests == [c \in {c1, c2} |-> IF c = c1 THEN 2 ELSE 1]

R(verb, target, body, arg, keep) ==
    [verb |-> verb, target |-> target, body |-> body, arg |-> arg, keep |-> keep]

MCRequests ==
    { R("POST", "join", "asked", "accepted", TRUE),
      R("OTHER", "join", "other", "accepted", FALSE),
      R("GET", "state", "other", "accepted", TRUE),
      R("GET", "action", "other", "accepted", TRUE),
      R("POST", "tick", "asked", "accepted", TRUE),
      R("POST", "maps", "list", "accepted", TRUE),
      R("GET", "file", "other", "accepted", TRUE) }
=============================================================================
