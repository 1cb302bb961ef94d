---------------------------- MODULE MCLegacyConn ----------------------------
(* LegacyConn for TLC; the configuration gives the constants. *)
EXTENDS LegacyConn
=============================================================================
