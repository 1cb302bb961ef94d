----------------------------- MODULE MCGateway -----------------------------
(* Instances of Gateway for TLC. *)
EXTENDS Gateway

\* Server a changes how it gets its credentials; b comes and goes beside it.
Config(ka, kb) == [n \in Server |-> IF n = "a" THEN ka ELSE kb]
Revisions ==
    {Config("shared", "absent"), Config("user", "static"), Config("absent", "static"),
     Config("static", "absent")}

\* b is there for what Apply does with two servers.
OnlyA == \A r \in Req : req[r].server # "b"

=============================================================================
