------------------------------- MODULE MCPool -------------------------------
(* Instances of Pool for TLC. *)
EXTENDS Pool, TLC

Key1(s, t, v) == [server |-> s, tenant |-> t, credset |-> "cs", ver |-> v]

\* One key of one tenant.
KeysOne == {Key1("s1", "t1", 0)}
\* Two credential generations of one server.
KeysRotation == {Key1("s1", "t1", 0), Key1("s1", "t1", 1)}
\* Bounds a run to behaviours in which no Connect has failed.
NoFailures == \A k \in Keys : broken[k].fails = 0

Symm == Permutations(Id) \cup Permutations(Caller)
=============================================================================
