---------------------------- MODULE MCConfigFeed ----------------------------
(* ConfigFeed for TLC; the configurations give the constants. *)
EXTENDS ConfigFeed
=============================================================================
