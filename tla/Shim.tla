-------------------------------- MODULE Shim --------------------------------
(***************************************************************************)
(* The client edge, pkg/shim: Run reads a client's lines one after the     *)
(* other; each request that travels has a stream and a goroutine that      *)
(* copies its frames to stdout, and an entry in the map cancellations are  *)
(* routed by.  A client that opens with initialize is a legacy one: its    *)
(* handshake is answered from server/discover and its pings locally.       *)
(*                                                                         *)
(* The client chooses the ids, and may use one again while it is in use.   *)
(* A stream is what wire.Stream promises (Stream.tla): one terminal frame, *)
(* or none once its context has ended or NATS has refused one of its       *)
(* subjects; the empty end frame answers a cancellation.                   *)
(*                                                                         *)
(* Notifications, and lines the shim drops, change nothing here.           *)
(***************************************************************************)
EXTENDS Integers, FiniteSets

CONSTANTS
    Req,    \* the requests a client writes
    Id,     \* the JSON-RPC ids it uses
    None

ASSUME ShimAssumption == IsFiniteSet(Req) /\ None \notin Req \cup Id

VARIABLES
    loop,      \* where Run is
    handling,  \* the request handleRequest has sent and not yet registered
    legacy,    \* legacy is set
    ctxDone,   \* Run's context is done
    wg,        \* the goroutines Run waits for
    streams,   \* the stream registered under an id
    req,       \* the requests
    newest     \* history: the request last forwarded under an id

vars == <<loop, handling, legacy, ctxDone, wg, streams, req, newest>>

\* pump: the request's goroutine.  answers: history, responses written.
\* asked: its stream was told to cancel.  refused: by NATS.
Unread == [id |-> None, pump |-> "none", answers |-> 0, asked |-> FALSE, refused |-> FALSE]

TypeOK ==
    /\ loop \in {"reading", "registering", "waiting", "returned"}
    /\ handling \in Req \cup {None}
    /\ legacy \in BOOLEAN /\ ctxDone \in BOOLEAN
    /\ wg \in Nat
    /\ streams \in [Id -> Req \cup {None}]
    /\ req \in [Req -> [id : Id \cup {None},
                        pump : {"none", "sent", "copying", "leaving", "discovering", "gone"},
                        answers : Nat, asked : BOOLEAN, refused : BOOLEAN]]
    /\ newest \in [Id -> Req \cup {None}]

Init ==
    /\ loop = "reading" /\ handling = None
    /\ legacy = FALSE /\ ctxDone = FALSE
    /\ wg = 0
    /\ streams = [i \in Id |-> None]
    /\ req = [r \in Req |-> Unread]
    /\ newest = [i \in Id |-> None]

-----------------------------------------------------------------------------
(* Run's loop *)

\* The next line is request r, under an id of the client's choosing.
Reads(r) == loop = "reading" /\ req[r].pump = "none"

Becomes(r, i, pump, n) ==
    req' = [req EXCEPT ![r] = [Unread EXCEPT !.id = i, !.pump = pump, !.answers = n]]

\* A null id, params that cannot be read, or a failure of Do: answered here.
writeError(r) ==
    /\ Reads(r)
    /\ \E i \in Id \cup {None} : Becomes(r, i, "gone", 1)
    /\ UNCHANGED <<loop, handling, legacy, ctxDone, wg, streams, newest>>

\* An initialize, the first or a repeat.
engageLegacy(r) ==
    /\ Reads(r)
    /\ legacy' = TRUE
    /\ wg' = wg + 1
    /\ \E i \in Id : Becomes(r, i, "discovering", 0)
    /\ UNCHANGED <<loop, handling, ctxDone, streams, newest>>

\* A legacy client's ping or logging/setLevel.
interceptLegacyRequest(r) ==
    /\ Reads(r) /\ legacy
    /\ \E i \in Id : Becomes(r, i, "gone", 1)
    /\ UNCHANGED <<loop, handling, legacy, ctxDone, wg, streams, newest>>

\* wire.Client.Do has sent it.
Forward(r) ==
    /\ Reads(r)
    /\ \E i \in Id :
          /\ Becomes(r, i, "sent", 0)
          /\ newest' = [newest EXCEPT ![i] = r]
    /\ handling' = r /\ loop' = "registering"
    /\ UNCHANGED <<legacy, ctxDone, wg, streams>>

\* The stream is registered and its goroutine started.
Register ==
    /\ loop = "registering"
    /\ streams' = [streams EXCEPT ![req[handling].id] = handling]
    /\ req' = [req EXCEPT ![handling].pump = "copying"]
    /\ wg' = wg + 1
    /\ loop' = "reading" /\ handling' = None
    /\ UNCHANGED <<legacy, ctxDone, newest>>

\* notifications/cancelled, passed on to the stream that has the id.
handleNotification(i) ==
    /\ loop = "reading"
    /\ streams[i] # None
    /\ req' = [req EXCEPT ![streams[i]].asked = TRUE]
    /\ UNCHANGED <<loop, handling, legacy, ctxDone, wg, streams, newest>>

\* Mutant: Run waits for its goroutines before it abandons their streams.
StdinEnds_WaitsFirst ==
    /\ loop = "reading"
    /\ loop' = "waiting"
    /\ UNCHANGED <<handling, legacy, ctxDone, wg, streams, req, newest>>

\* The last line: in-flight streams are abandoned.
StdinEnds ==
    /\ loop = "reading"
    /\ loop' = "waiting" /\ ctxDone' = TRUE
    /\ UNCHANGED <<handling, legacy, wg, streams, req, newest>>

\* The context Run was given ends; its loop, reading, does not notice.
CallerCancels ==
    /\ loop # "returned" /\ ~ctxDone
    /\ ctxDone' = TRUE
    /\ UNCHANGED <<loop, handling, legacy, wg, streams, req, newest>>

Return ==
    /\ loop = "waiting" /\ wg = 0
    /\ loop' = "returned"
    /\ UNCHANGED <<handling, legacy, ctxDone, wg, streams, req, newest>>

-----------------------------------------------------------------------------
(* The goroutines *)

NatsRefuses(r) ==
    /\ req[r].pump = "copying" /\ ~req[r].refused
    /\ req' = [req EXCEPT ![r].refused = TRUE]
    /\ UNCHANGED <<loop, handling, legacy, ctxDone, wg, streams, newest>>

\* Mutant: an error the stream itself detected has no line to copy.
CopyTerminal_BodyOnly(r) ==
    /\ req[r].pump = "copying"
    /\ \E n \in {0, 1} :
          req' = [req EXCEPT ![r].pump = "leaving", ![r].answers = @ + n]
    /\ UNCHANGED <<loop, handling, legacy, ctxDone, wg, streams, newest>>

\* The response, the gateway's error or the stream's own is written.
CopyTerminal(r) ==
    /\ req[r].pump = "copying"
    /\ req' = [req EXCEPT ![r].pump = "leaving", ![r].answers = @ + 1]
    /\ UNCHANGED <<loop, handling, legacy, ctxDone, wg, streams, newest>>

\* The empty end frame of a cancelled request, or a stream closed without a
\* terminal frame: nothing is written.
EndsSilently(r) ==
    /\ req[r].pump = "copying"
    /\ req[r].asked \/ req[r].refused \/ ctxDone
    /\ req' = [req EXCEPT ![r].pump = "leaving"]
    /\ UNCHANGED <<loop, handling, legacy, ctxDone, wg, streams, newest>>

\* Mutant: whatever is registered under the id is removed.
Leave_Unconditional(r) ==
    /\ req[r].pump = "leaving"
    /\ streams' = [streams EXCEPT ![req[r].id] = None]
    /\ req' = [req EXCEPT ![r].pump = "gone"]
    /\ wg' = wg - 1
    /\ UNCHANGED <<loop, handling, legacy, ctxDone, newest>>

\* The goroutine's defers: only its own registration is removed.
Leave(r) ==
    /\ req[r].pump = "leaving"
    /\ streams' = [streams EXCEPT ![req[r].id] = IF @ = r THEN None ELSE @]
    /\ req' = [req EXCEPT ![r].pump = "gone"]
    /\ wg' = wg - 1
    /\ UNCHANGED <<loop, handling, legacy, ctxDone, newest>>

\* server/discover has answered, failed or been abandoned: in each case the
\* initialize has its response or its error.
answerInitialize(r) ==
    /\ req[r].pump = "discovering"
    /\ req' = [req EXCEPT ![r].pump = "gone", ![r].answers = @ + 1]
    /\ wg' = wg - 1
    /\ UNCHANGED <<loop, handling, legacy, ctxDone, streams, newest>>

-----------------------------------------------------------------------------

Client ==
    \/ \E r \in Req : writeError(r) \/ engageLegacy(r) \/ interceptLegacyRequest(r) \/ Forward(r)
    \/ \E i \in Id : handleNotification(i)
    \/ StdinEnds \/ CallerCancels

Goroutine(r) ==
    \/ NatsRefuses(r) \/ CopyTerminal(r) \/ EndsSilently(r) \/ Leave(r) \/ answerInitialize(r)

Next == Client \/ Register \/ Return \/ \E r \in Req : Goroutine(r)

Spec == Init /\ [][Next]_vars

\* A goroutine that can step does, an abandoned stream closes, and a discover
\* ends if only by its timeout.  Nothing is asked of the client or the gateway.
Fairness ==
    /\ WF_vars(Register) /\ WF_vars(Return)
    /\ \A r \in Req :
          WF_vars(EndsSilently(r)) /\ WF_vars(Leave(r)) /\ WF_vars(answerInitialize(r))

FairSpec == Spec /\ Fairness

-----------------------------------------------------------------------------
(* Properties *)

\* shim.go:277: the request last forwarded under an id can be cancelled for as
\* long as it runs, although earlier ones under the same id still run, end and
\* take their registration with them.
NewestIsRouted ==
    \A i \in Id :
        newest[i] # None /\ req[newest[i]].pump = "copying" => streams[i] = newest[i]

\* shim.go:287: a request is answered once, locally, from the handshake or by
\* its stream, and goes unanswered only if a cancellation reached it, NATS
\* refused it, or Run is ending.
AnsweredOnce ==
    \A r \in Req :
        /\ req[r].answers <= 1
        /\ req[r].pump = "gone" /\ req[r].answers = 0 =>
               req[r].asked \/ req[r].refused \/ ctxDone

\* shim.go:129: once stdin has ended, Run returns, whatever was in flight and
\* however long it would have streamed, and has left no goroutine behind that
\* could still write.
RunReturns ==
    loop = "waiting" ~> loop = "returned" /\ \A r \in Req : req[r].pump \in {"none", "gone"}
=============================================================================
