----------------------------- MODULE MCCredCache -----------------------------
(* CredCache for TLC; the configuration gives the constants. *)
EXTENDS CredCache
=============================================================================
