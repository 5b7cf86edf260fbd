---------------------------- MODULE MCStateFile ----------------------------
(* Model values for checking StateFile. *)
EXTENDS StateFile
=============================================================================
