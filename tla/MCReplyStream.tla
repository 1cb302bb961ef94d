---------------------------- MODULE MCReplyStream ----------------------------
(* Model values for checking ReplyStream. *)
EXTENDS ReplyStream

CONSTANTS r1, r2

OneReq == {r1}
TwoReq == {r1, r2}
NoReq == {}

=============================================================================
