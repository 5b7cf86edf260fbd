-------------------------- MODULE MCConnectionPool --------------------------
(* Model values for checking ConnectionPool.  No symmetry: the run checks a *)
(* liveness property.                                                      *)
EXTENDS ConnectionPool
=============================================================================
