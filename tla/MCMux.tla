------------------------------- MODULE MCMux -------------------------------
(* Instances of Mux for TLC. *)
EXTENDS Mux, TLC

Symm == Permutations(Caller)
=============================================================================
