----------------------------- MODULE MCHttpConn -----------------------------
(* HttpConn for TLC; the configuration gives the constants. *)
EXTENDS HttpConn
=============================================================================
