---------------------------- MODULE MCManagedPlugin ----------------------------
(* Small instances of ManagedPlugin for TLC. *)
EXTENDS ManagedPlugin, TLC

Threads == Permutations(Handlers) \union Permutations(Reporters)
=============================================================================
