------------------------------- MODULE MCShim -------------------------------
(* Shim for TLC; the configuration gives the constants. *)
EXTENDS Shim
=============================================================================
