-------------------------------- MODULE MCAgent --------------------------------
(* Small instances of Agent for TLC. *)
EXTENDS Agent
=============================================================================
