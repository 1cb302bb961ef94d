------------------------------- MODULE Stream -------------------------------
(***************************************************************************)
(* What wire.Stream promises the consumer of its channel C: notifications, *)
(* then exactly one terminal frame, then C is closed (pkg/wire/client.go). *)
(* A stream whose context has ended may be closed without one.             *)
(***************************************************************************)
EXTENDS Sequences

CONSTANTS
    Req,      \* the streams
    Frames    \* what C carries: "msg", and the terminal frames

VARIABLES
    chan,     \* C: "new", "open" or "closed"
    seen,     \* what has been received on it
    cut       \* streams whose context has ended

vars == <<chan, seen, cut>>

Init ==
    /\ chan = [r \in Req |-> "new"]
    /\ seen = [r \in Req |-> <<>>]
    /\ cut = {}

Open(r) ==
    /\ chan[r] = "new"
    /\ chan' = [chan EXCEPT ![r] = "open"]
    /\ UNCHANGED <<seen, cut>>

Notify(r) ==
    /\ chan[r] = "open"
    /\ seen' = [seen EXCEPT ![r] = Append(@, "msg")]
    /\ UNCHANGED <<chan, cut>>

\* The terminal frame and the close are one step to a consumer.
Terminate(r) ==
    /\ chan[r] = "open"
    /\ \E f \in Frames \ {"msg"} : seen' = [seen EXCEPT ![r] = Append(@, f)]
    /\ chan' = [chan EXCEPT ![r] = "closed"]
    /\ UNCHANGED cut

\* A consumer abandons its stream; a permission violation ends several.
Cut ==
    /\ \E S \in SUBSET {r \in Req : chan[r] = "open"} : cut' = cut \cup S
    /\ UNCHANGED <<chan, seen>>

Break(r) ==
    /\ chan[r] = "open" /\ r \in cut
    /\ chan' = [chan EXCEPT ![r] = "closed"]
    /\ UNCHANGED <<seen, cut>>

Next == Cut \/ \E r \in Req : Open(r) \/ Notify(r) \/ Terminate(r) \/ Break(r)

Spec == Init /\ [][Next]_vars
=============================================================================
