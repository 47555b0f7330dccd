------------------------------ MODULE MCServerLink ------------------------------
(* Small instances of ServerLink for TLC. *)
EXTENDS ServerLink
=============================================================================
