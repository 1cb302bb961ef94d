------------------------------ MODULE MCReload ------------------------------
(* Instances of Reload for TLC. *)
EXTENDS Reload, TLC

\* Two credential generations of one tenant's backend.
KeysRotation == [server : {"s1"}, tenant : {"t1"}, credset : {"cs"}, ver : {0, 1}]

\* Bounds a run to behaviours in which no Connect has failed, the pool has not
\* been shut down, and a deadline or an idle period passes between two applies
\* only: none of them bears on which definition a backend carries.
Serving ==
    /\ ~closed
    /\ \A k \in Keys : broken[k].fails = 0
    /\ step # "idle" => \A i \in Id : ~entry[i].expired /\ ~entry[i].idle

Symm == Permutations(Id) \cup Permutations(Def)
=============================================================================
