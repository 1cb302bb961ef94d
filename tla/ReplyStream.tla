----------------------------- MODULE ReplyStream -----------------------------
(***************************************************************************)
(* One request's reply stream over NATS, end to end: the gateway's         *)
(* dispatch, its stream writer and keep-alives (pkg/wire/server.go), the   *)
(* claim store for oversize responses (claim.go), the client's pump        *)
(* (client.go), and the gateway's drain, which all requests share.         *)
(*                                                                         *)
(* Frames of one stream come from one connection and keep their order;     *)
(* any of them may be lost, and one published after the client has         *)
(* unsubscribed goes nowhere.  A body is abstracted to the kind of frame   *)
(* that carries it.                                                        *)
(*                                                                         *)
(* The handler is any wire.Handler: it may call End and Err as often as it *)
(* likes ("cleanup paths can call End/Err unconditionally"), while the     *)
(* backend's read loop calls Msg on a goroutine of its own.                *)
(***************************************************************************)
EXTENDS Integers, Sequences, FiniteSets

CONSTANTS
    Req,                \* requests of one client, all on one subject
    Accepting,          \* those that carry Mcp-Accept-Claim
    pendingMsgsLimit,   \* pending limit of a reply subscription
    MaxFrames,          \* model bound: notifications and keep-alives per stream
    MaxCalls            \* model bound: terminal calls of one handler

ASSUME ReqAssumption == IsFiniteSet(Req) /\ Accepting \subseteq Req
ASSUME LimitAssumption == pendingMsgsLimit \in Nat \ {0}
ASSUME BoundAssumption == MaxFrames \in Nat /\ MaxCalls \in Nat

VARIABLES
    phase,    \* Shutdown: "serving", "stopped", "draining", "waiting", "clean", "timedout"
    wg,       \* Server.wg
    net,      \* the request: "none", "sent", "arrived", "gone"
    srv,      \* where dispatch's goroutine is
    out,      \* the terminal frame it is about to publish
    cause,    \* context.Cause of the handler's context
    ctl,      \* the control subject is subscribed
    ka,       \* keepAliveLoop is running
    calls,    \* terminal calls made so far
    done,     \* streamWriter.done
    lock,     \* who holds streamWriter.mu across a publish
    quota,    \* notifications and keep-alives left
    store,    \* objects in the claim store
    left,     \* those it could not store, announce or delete cleanly: the bucket TTL's
    ref,      \* claim id on the end frame it has sent, 0 for none
    tail,     \* history: frames on the reply subject from the first terminal one on
    in,       \* frames pending on the client's subscription
    slow,     \* the subscription overflowed
    cli,      \* where the client's pump is
    hold,     \* the frame it is handing over
    ctx,      \* the stream's context: "live", "stopped" or "violated"
    asked,    \* the consumer has published a cancellation
    got       \* what the consumer has received on C

gwVars == <<phase, wg>>
srvVars == <<srv, out, cause, ctl, ka, calls>>
wrVars == <<done, lock, quota>>
claimVars == <<store, left, ref>>
wireVars == <<tail, in, slow>>
cliVars == <<cli, hold, ctx, asked, got>>
vars == <<gwVars, net, srvVars, wrVars, claimVars, wireVars, cliVars>>

Terminal == {"end", "empty", "claim", "err"}
FrameKind == {"msg", "ka"} \cup Terminal

\* What pump hands to its consumer: a notification, a response, the empty end
\* of a cancelled request, the gateway's error, or an error of its own.
Given == {"msg", "end", "empty", "err", "lost", "nogateway", "denied"}

SrvPC == {"none", "refused", "dispatched", "handling", "put", "parked",
          "unpark", "oversize", "publish", "wrapup", "last", "finish", "finished"}

TypeOK ==
    /\ phase \in {"serving", "stopped", "draining", "waiting", "clean", "timedout"}
    /\ wg \in Nat
    /\ net \in [Req -> {"none", "sent", "arrived", "gone"}]
    /\ srv \in [Req -> SrvPC]
    /\ out \in [Req -> Terminal \cup {"none"}]
    /\ cause \in [Req -> {"none", "cancelled", "draining"}]
    /\ ctl \in [Req -> BOOLEAN] /\ ka \in [Req -> BOOLEAN]
    /\ calls \in [Req -> Nat]
    /\ done \in [Req -> BOOLEAN]
    /\ lock \in [Req -> {"free", "msg", "ka"}]
    /\ quota \in [Req -> 0..MaxFrames]
    /\ store \subseteq Req \X Nat /\ left \subseteq Req \X Nat
    /\ ref \in [Req -> Nat]
    /\ tail \in [Req -> Seq(FrameKind)]
    /\ in \in [Req -> Seq(FrameKind \cup {"noresponders"})]
    /\ slow \in [Req -> BOOLEAN]
    /\ cli \in [Req -> {"idle", "reading", "fetching", "delivering", "failing", "closed"}]
    /\ hold \in [Req -> Given \cup {"none"}]
    /\ ctx \in [Req -> {"live", "stopped", "violated"}]
    /\ asked \in [Req -> BOOLEAN]
    /\ got \in [Req -> Seq(Given)]

Init ==
    /\ phase = "serving" /\ wg = 0
    /\ net = [r \in Req |-> "none"]
    /\ srv = [r \in Req |-> "none"]
    /\ out = [r \in Req |-> "none"]
    /\ cause = [r \in Req |-> "none"]
    /\ ctl = [r \in Req |-> FALSE] /\ ka = [r \in Req |-> FALSE]
    /\ calls = [r \in Req |-> 0]
    /\ done = [r \in Req |-> FALSE]
    /\ lock = [r \in Req |-> "free"]
    /\ quota = [r \in Req |-> MaxFrames]
    /\ store = {} /\ left = {}
    /\ ref = [r \in Req |-> 0]
    /\ tail = [r \in Req |-> <<>>]
    /\ in = [r \in Req |-> <<>>]
    /\ slow = [r \in Req |-> FALSE]
    /\ cli = [r \in Req |-> "idle"]
    /\ hold = [r \in Req |-> "none"]
    /\ ctx = [r \in Req |-> "live"]
    /\ asked = [r \in Req |-> FALSE]
    /\ got = [r \in Req |-> <<>>]

-----------------------------------------------------------------------------
(* The wire *)

Subscribed(r) == cli[r] \notin {"idle", "closed"}

\* A message reaches the client's subscription, overflows it, or is lost.
Arrives(r, m) ==
    \/ UNCHANGED <<in, slow>>
    \/ /\ Subscribed(r)
       /\ Len(in[r]) < pendingMsgsLimit
       /\ in' = [in EXCEPT ![r] = Append(@, m)]
       /\ UNCHANGED slow
    \/ /\ Subscribed(r)
       /\ Len(in[r]) = pendingMsgsLimit
       /\ slow' = [slow EXCEPT ![r] = TRUE]
       /\ UNCHANGED in

Sends(r, f) ==
    /\ tail' = [tail EXCEPT ![r] = IF @ # <<>> \/ f \in Terminal THEN Append(@, f) ELSE @]
    /\ Arrives(r, f)

\* The connection may refuse a publish: closed, or a frame that does not fit.
Publish(r, f) == Sends(r, f) \/ UNCHANGED wireVars

-----------------------------------------------------------------------------
(* Client: Do and pump *)

\* Do registers the stream, subscribes to the reply inbox and publishes.
Do(r) ==
    /\ cli[r] = "idle"
    /\ cli' = [cli EXCEPT ![r] = "reading"]
    /\ net' = [net EXCEPT ![r] = "sent"]
    /\ UNCHANGED <<gwVars, srvVars, wrVars, claimVars, wireVars, hold, ctx, asked, got>>

\* The NATS server refuses a publish on the shared subject: failViolated
\* cancels every stream registered under it.
PublishDenied(r) ==
    /\ net[r] = "sent"
    /\ net' = [net EXCEPT ![r] = "gone"]
    /\ ctx' = [q \in Req |-> IF Subscribed(q) /\ ctx[q] = "live" THEN "violated" ELSE ctx[q]]
    /\ UNCHANGED <<gwVars, srvVars, wrVars, claimVars, wireVars, cli, hold, asked, got>>

\* Or it refuses the subscription to one stream's inbox, on which nothing
\* has arrived and nothing will.
SubscribeDenied(r) ==
    /\ cli[r] = "reading" /\ ctx[r] = "live"
    /\ in[r] = <<>> /\ ~slow[r] /\ got[r] = <<>>
    /\ ctx' = [ctx EXCEPT ![r] = "violated"]
    /\ UNCHANGED <<gwVars, net, srvVars, wrVars, claimVars, wireVars, cli, hold, asked, got>>

\* The consumer closes the stream, or its own context ends.
Abandon(r) ==
    /\ Subscribed(r) /\ ctx[r] = "live"
    /\ ctx' = [ctx EXCEPT ![r] = "stopped"]
    /\ UNCHANGED <<gwVars, net, srvVars, wrVars, claimVars, wireVars, cli, hold, asked, got>>

\* Stream.Cancel: publishes to the control subject.
Cancel(r) ==
    /\ Subscribed(r) /\ ~asked[r]
    /\ asked' = [asked EXCEPT ![r] = TRUE]
    /\ UNCHANGED <<gwVars, net, srvVars, wrVars, claimVars, wireVars, cli, hold, ctx, got>>

\* pump is about to hand f over, and to stop unless f is a notification.
Deliver(r, f) ==
    /\ cli' = [cli EXCEPT ![r] = "delivering"]
    /\ hold' = [hold EXCEPT ![r] = f]

Read(r) ==
    LET f == Head(in[r]) IN
    /\ cli[r] = "reading" /\ ctx[r] = "live" /\ ~slow[r]
    /\ in[r] # <<>>
    /\ in' = [in EXCEPT ![r] = Tail(@)]
    /\ \/ f = "ka" /\ UNCHANGED <<cli, hold>>
       \/ f = "claim" /\ cli' = [cli EXCEPT ![r] = "fetching"] /\ UNCHANGED hold
       \/ f = "noresponders" /\ Deliver(r, "nogateway")
       \/ f \in {"msg", "end", "empty", "err"} /\ Deliver(r, f)
    /\ UNCHANGED <<gwVars, net, srvVars, wrVars, claimVars, tail, slow, ctx, asked, got>>

SlowConsumer(r) ==
    /\ cli[r] = "reading" /\ ctx[r] = "live"
    /\ slow[r]
    /\ Deliver(r, "lost")
    /\ UNCHANGED <<gwVars, net, srvVars, wrVars, claimVars, wireVars, ctx, asked, got>>

\* Mutant: no inactivity deadline.
Timeout_Never(r) == FALSE

Timeout(r) ==
    /\ cli[r] = "reading" /\ ctx[r] = "live" /\ ~slow[r]
    /\ in[r] = <<>>
    /\ Deliver(r, "lost")
    /\ UNCHANGED <<gwVars, net, srvVars, wrVars, claimVars, wireVars, ctx, asked, got>>

\* The subscription is gone: its connection was closed.
SubscriptionFailed(r) ==
    /\ cli[r] = "reading" /\ ctx[r] = "live"
    /\ Deliver(r, "lost")
    /\ UNCHANGED <<gwVars, net, srvVars, wrVars, claimVars, wireVars, ctx, asked, got>>

\* ObjectClaims.Fetch deletes what it read, if it may.
FetchOk(r) ==
    /\ cli[r] = "fetching" /\ ctx[r] = "live"
    /\ <<r, ref[r]>> \in store
    /\ store' \in {store, store \ {<<r, ref[r]>>}}
    /\ Deliver(r, "end")
    /\ UNCHANGED <<gwVars, net, srvVars, wrVars, left, ref, wireVars, ctx, asked, got>>

\* Mutant: a failed fetch ends the stream without a word.
FetchErr_Silent(r) ==
    /\ cli[r] = "fetching"
    /\ cli' = [cli EXCEPT ![r] = "closed"]
    /\ UNCHANGED <<gwVars, net, srvVars, wrVars, claimVars, wireVars, hold, ctx, asked, got>>

FetchErr(r) ==
    /\ cli[r] = "fetching"
    /\ Deliver(r, "lost")
    /\ UNCHANGED <<gwVars, net, srvVars, wrVars, claimVars, wireVars, ctx, asked, got>>

\* pump's defers: C is closed and the subscription dropped.
Close(r) ==
    /\ cli' = [cli EXCEPT ![r] = "closed"]
    /\ in' = [in EXCEPT ![r] = <<>>]
    /\ slow' = [slow EXCEPT ![r] = FALSE]
    /\ UNCHANGED tail

\* The consumer receives.
Receive(r) ==
    /\ cli[r] \in {"delivering", "failing"}
    /\ got' = [got EXCEPT ![r] = Append(@, hold[r])]
    /\ hold' = [hold EXCEPT ![r] = "none"]
    /\ \/ hold[r] = "msg" /\ cli' = [cli EXCEPT ![r] = "reading"] /\ UNCHANGED wireVars
       \/ hold[r] # "msg" /\ Close(r)
    /\ UNCHANGED <<gwVars, net, srvVars, wrVars, claimVars, ctx, asked>>

\* deliver's other branch: the stream's context ends first.
DeliverAborted(r) ==
    /\ cli[r] = "delivering" /\ ctx[r] # "live"
    /\ Close(r)
    /\ hold' = [hold EXCEPT ![r] = "none"]
    /\ UNCHANGED <<gwVars, net, srvVars, wrVars, claimVars, ctx, asked, got>>

\* pump's loop finds its context ended: a violation is reported to the
\* consumer, which always drains; an abandoned stream just closes.
CtxDone(r) ==
    /\ cli[r] = "reading"
    /\ \/ /\ ctx[r] = "violated"
          /\ cli' = [cli EXCEPT ![r] = "failing"]
          /\ hold' = [hold EXCEPT ![r] = "denied"]
          /\ UNCHANGED wireVars
       \/ /\ ctx[r] = "stopped"
          /\ Close(r)
          /\ UNCHANGED hold
    /\ UNCHANGED <<gwVars, net, srvVars, wrVars, claimVars, ctx, asked, got>>

\* failCaused gives a consumer that has vanished three seconds.
FailDropped(r) ==
    /\ cli[r] = "failing"
    /\ Close(r)
    /\ hold' = [hold EXCEPT ![r] = "none"]
    /\ UNCHANGED <<gwVars, net, srvVars, wrVars, claimVars, ctx, asked, got>>

-----------------------------------------------------------------------------
(* Gateway: dispatch *)

\* Nobody serves the subject any more.
NoResponders(r) ==
    /\ net[r] = "sent" /\ phase # "serving"
    /\ net' = [net EXCEPT ![r] = "gone"]
    /\ Arrives(r, "noresponders")
    /\ UNCHANGED <<gwVars, srvVars, wrVars, claimVars, tail, cliVars>>

Draining == phase \notin {"serving", "stopped"}

\* micro stops an endpoint by draining its subscription, so requests keep
\* arriving after the services have been stopped.
beginRequest(r) == ~Draining

Dispatch(r) ==
    /\ net[r] = "sent"
    /\ beginRequest(r)
    /\ net' = [net EXCEPT ![r] = "arrived"]
    /\ wg' = wg + 1
    /\ srv' = [srv EXCEPT ![r] = "dispatched"]
    /\ UNCHANGED <<phase, out, cause, ctl, ka, calls, wrVars, claimVars, wireVars, cliVars>>

refuseDrained(r) ==
    /\ net[r] = "sent"
    /\ ~beginRequest(r)
    /\ net' = [net EXCEPT ![r] = "gone"]
    /\ srv' = [srv EXCEPT ![r] = "refused"]
    /\ Publish(r, "err")
    /\ UNCHANGED <<gwVars, out, cause, ctl, ka, calls, wrVars, claimVars, cliVars>>

\* Mutant: Msg and ka look at done, let go of the lock, and publish.
claim_Overtakes(r) ==
    /\ ~done[r]
    /\ done' = [done EXCEPT ![r] = TRUE]
    /\ UNCHANGED <<lock, quota>>

\* Msg and ka hold the lock across their publish.
claim(r) ==
    /\ lock[r] = "free"
    /\ ~done[r]
    /\ done' = [done EXCEPT ![r] = TRUE]
    /\ UNCHANGED <<lock, quota>>

\* The envelope, the wire version or the body does not parse.
Malformed(r) ==
    /\ srv[r] = "dispatched"
    /\ claim(r)
    /\ out' = [out EXCEPT ![r] = "err"]
    /\ srv' = [srv EXCEPT ![r] = "last"]
    /\ UNCHANGED <<gwVars, net, cause, ctl, ka, calls, claimVars, wireVars, cliVars>>

\* The handler's context, the control subscription (which may fail) and the
\* keep-alives.  A context made from a cancelled base is born cancelled.
StartHandler(r) ==
    /\ srv[r] = "dispatched"
    /\ srv' = [srv EXCEPT ![r] = "handling"]
    /\ cause' = [cause EXCEPT ![r] = IF Draining /\ phase # "draining" THEN "draining" ELSE "none"]
    /\ \E ok \in BOOLEAN : ctl' = [ctl EXCEPT ![r] = ok]
    /\ ka' = [ka EXCEPT ![r] = TRUE]
    /\ UNCHANGED <<gwVars, net, out, calls, wrVars, claimVars, wireVars, cliVars>>

\* A notifications/cancelled naming this request reaches the control subject.
ClientCancelled(r) ==
    /\ asked[r] /\ ctl[r] /\ cause[r] = "none"
    /\ cause' = [cause EXCEPT ![r] = "cancelled"]
    /\ UNCHANGED <<gwVars, net, srv, out, ctl, ka, calls, wrVars, claimVars, wireVars, cliVars>>

\* The handler calls End or Err.
Calling(r) == srv[r] = "handling" /\ calls[r] < MaxCalls

Count(r) == calls' = [calls EXCEPT ![r] = @ + 1]

Claims(r, f) ==
    /\ claim(r)
    /\ out' = [out EXCEPT ![r] = f]
    /\ srv' = [srv EXCEPT ![r] = "publish"]
    /\ UNCHANGED <<gwVars, net, cause, ctl, ka, wireVars, cliVars>>

End(r) == Calling(r) /\ Count(r) /\ Claims(r, "end") /\ UNCHANGED claimVars

\* Called by the handler, or by End for a body that cannot be carried.
Err(r) ==
    /\ \/ Calling(r) /\ Count(r)
       \/ srv[r] = "oversize" /\ UNCHANGED calls
    /\ Claims(r, "err")
    /\ UNCHANGED claimVars

\* End or Err on a stream that is already terminated.
Ignored(r) ==
    /\ \/ Calling(r) /\ Count(r)
       \/ srv[r] = "oversize" /\ UNCHANGED calls
    /\ lock[r] = "free" /\ done[r]
    /\ srv' = [srv EXCEPT ![r] = "handling"]
    /\ UNCHANGED <<gwVars, net, out, cause, ctl, ka, wrVars, claimVars, wireVars, cliVars>>

\* End of a body over max_payload: parked for callers that accept a claim.
EndOversize(r) ==
    /\ Calling(r)
    /\ Count(r)
    /\ srv' = [srv EXCEPT ![r] = IF r \in Accepting THEN "put" ELSE "oversize"]
    /\ UNCHANGED <<gwVars, net, out, cause, ctl, ka, wrVars, claimVars, wireVars, cliVars>>

\* ObjectClaims.Put; one that times out may still have stored the object.
Put(r) ==
    /\ srv[r] = "put"
    /\ \/ /\ store' = store \cup {<<r, calls[r]>>}
          /\ srv' = [srv EXCEPT ![r] = "parked"]
          /\ UNCHANGED left
       \/ /\ srv' = [srv EXCEPT ![r] = "oversize"]
          /\ UNCHANGED <<store, left>>
       \/ /\ srv' = [srv EXCEPT ![r] = "oversize"]
          /\ store' = store \cup {<<r, calls[r]>>}
          /\ left' = left \cup {<<r, calls[r]>>}
    /\ UNCHANGED <<gwVars, net, out, cause, ctl, ka, calls, wrVars, ref, wireVars, cliVars>>

EndClaimed(r) ==
    /\ srv[r] = "parked"
    /\ Claims(r, "claim")
    /\ UNCHANGED <<calls, claimVars>>

\* Mutant: the parked body is forgotten.
ClaimLost_Forgets(r) ==
    /\ srv[r] = "parked"
    /\ lock[r] = "free" /\ done[r]
    /\ srv' = [srv EXCEPT ![r] = "handling"]
    /\ UNCHANGED <<gwVars, net, out, cause, ctl, ka, calls, wrVars, claimVars, wireVars, cliVars>>

\* The stream was terminated before the claim's id could be sent.
ClaimLost(r) ==
    /\ srv[r] = "parked"
    /\ lock[r] = "free" /\ done[r]
    /\ srv' = [srv EXCEPT ![r] = "unpark"]
    /\ UNCHANGED <<gwVars, net, out, cause, ctl, ka, calls, wrVars, claimVars, wireVars, cliVars>>

Delete(r) ==
    /\ srv[r] = "unpark"
    /\ \/ store' = store \ {<<r, calls[r]>>} /\ UNCHANGED left
       \/ left' = left \cup {<<r, calls[r]>>} /\ UNCHANGED store
    /\ srv' = [srv EXCEPT ![r] = "handling"]
    /\ UNCHANGED <<gwVars, net, out, cause, ctl, ka, calls, wrVars, ref, wireVars, cliVars>>

\* Respond, or Error: the terminal frame goes out, or the publish is refused and
\* nothing else will.
Respond(r) ==
    /\ srv[r] \in {"publish", "last"}
    /\ \/ /\ Sends(r, out[r])
          /\ ref' = [ref EXCEPT ![r] = IF out[r] = "claim" THEN calls[r] ELSE @]
          /\ UNCHANGED left
       \/ /\ left' = left \cup {o \in store : out[r] = "claim" /\ o = <<r, calls[r]>>}
          /\ UNCHANGED <<wireVars, ref>>
    /\ out' = [out EXCEPT ![r] = "none"]
    /\ srv' = [srv EXCEPT ![r] = IF srv[r] = "publish" THEN "handling" ELSE "finish"]
    /\ UNCHANGED <<gwVars, net, cause, ctl, ka, calls, wrVars, store, cliVars>>

HandlerReturns(r) ==
    /\ srv[r] = "handling"
    /\ srv' = [srv EXCEPT ![r] = "wrapup"]
    /\ UNCHANGED <<gwVars, net, out, cause, ctl, ka, calls, wrVars, claimVars, wireVars, cliVars>>

\* What dispatch sends for a handler that sent nothing.
\* Mutant: any cancelled context reads as a client's cancellation.
Closing_AnyCause(r) == IF cause[r] # "none" THEN "empty" ELSE "err"

Closing(r) == IF cause[r] = "cancelled" THEN "empty" ELSE "err"

\* dispatch guarantees a terminal frame.
WrapUp(r) ==
    /\ srv[r] = "wrapup"
    /\ \/ /\ claim(r)
          /\ out' = [out EXCEPT ![r] = Closing(r)]
          /\ srv' = [srv EXCEPT ![r] = "last"]
       \/ /\ lock[r] = "free" /\ done[r]
          /\ srv' = [srv EXCEPT ![r] = "finish"]
          /\ UNCHANGED <<out, wrVars>>
    /\ UNCHANGED <<gwVars, net, cause, ctl, ka, calls, claimVars, wireVars, cliVars>>

\* Mutant: a path out of dispatch forgets the wait group.
Finish_KeepsSlot(r) ==
    /\ srv[r] = "finish"
    /\ srv' = [srv EXCEPT ![r] = "finished"]
    /\ ctl' = [ctl EXCEPT ![r] = FALSE]
    /\ ka' = [ka EXCEPT ![r] = FALSE]
    /\ wg' = IF calls[r] = 0 THEN wg ELSE wg - 1
    /\ UNCHANGED <<phase, net, out, cause, calls, wrVars, claimVars, wireVars, cliVars>>

\* dispatch's defers.
Finish(r) ==
    /\ srv[r] = "finish"
    /\ srv' = [srv EXCEPT ![r] = "finished"]
    /\ ctl' = [ctl EXCEPT ![r] = FALSE]
    /\ ka' = [ka EXCEPT ![r] = FALSE]
    /\ wg' = wg - 1
    /\ UNCHANGED <<phase, net, out, cause, calls, wrVars, claimVars, wireVars, cliVars>>

-----------------------------------------------------------------------------
(* Gateway: notifications and keep-alives, each under the writer's lock *)

\* Started by dispatch, the writer outlives the handler in the backend's hands.
Writing(r) == srv[r] \notin {"none", "refused", "dispatched"}

\* A notification that does not fit max_payload never takes this step.
Msg(r) ==
    /\ Writing(r)
    /\ lock[r] = "free" /\ ~done[r]
    /\ quota[r] > 0
    /\ quota' = [quota EXCEPT ![r] = @ - 1]
    /\ lock' = [lock EXCEPT ![r] = "msg"]
    /\ UNCHANGED <<gwVars, net, srvVars, done, claimVars, wireVars, cliVars>>

keepAliveLoop(r) ==
    /\ ka[r]
    /\ lock[r] = "free" /\ ~done[r]
    /\ quota[r] > 0
    /\ quota' = [quota EXCEPT ![r] = @ - 1]
    /\ lock' = [lock EXCEPT ![r] = "ka"]
    /\ UNCHANGED <<gwVars, net, srvVars, done, claimVars, wireVars, cliVars>>

PublishMsg(r) ==
    /\ lock[r] # "free"
    /\ Publish(r, lock[r])
    /\ lock' = [lock EXCEPT ![r] = "free"]
    /\ UNCHANGED <<gwVars, net, srvVars, done, quota, claimVars, cliVars>>

-----------------------------------------------------------------------------
(* Gateway: Shutdown *)

stopAllServices ==
    /\ phase = "serving"
    /\ phase' = "stopped"
    /\ UNCHANGED <<wg, net, srvVars, wrVars, claimVars, wireVars, cliVars>>

SetDraining ==
    /\ phase = "stopped"
    /\ phase' = "draining"
    /\ UNCHANGED <<wg, net, srvVars, wrVars, claimVars, wireVars, cliVars>>

\* Cancels the base context, and with it every handler's that has no cause yet.
CancelBase ==
    /\ phase = "draining"
    /\ phase' = "waiting"
    /\ cause' = [r \in Req |-> IF Writing(r) /\ srv[r] # "finished" /\ cause[r] = "none"
                               THEN "draining" ELSE cause[r]]
    /\ UNCHANGED <<wg, net, srv, out, ctl, ka, calls, wrVars, claimVars, wireVars, cliVars>>

DrainDone ==
    /\ phase = "waiting" /\ wg = 0
    /\ phase' = "clean"
    /\ UNCHANGED <<wg, net, srvVars, wrVars, claimVars, wireVars, cliVars>>

DrainTimedOut ==
    /\ phase = "waiting"
    /\ phase' = "timedout"
    /\ UNCHANGED <<wg, net, srvVars, wrVars, claimVars, wireVars, cliVars>>

\* The bucket's TTL.
Expire ==
    /\ \E o \in store : store' = store \ {o} /\ left' = left \ {o}
    /\ UNCHANGED <<gwVars, net, srvVars, wrVars, ref, wireVars, cliVars>>

-----------------------------------------------------------------------------

Consumer(r) == Do(r) \/ Abandon(r) \/ Cancel(r) \/ Receive(r)

\* Steps of pump's own goroutine.
Pump(r) ==
    \/ Read(r) \/ SlowConsumer(r) \/ Timeout(r) \/ FetchOk(r) \/ FetchErr(r)
    \/ DeliverAborted(r) \/ CtxDone(r) \/ FailDropped(r)

\* What the gateway does with a call of the handler, and around the handler.
Serving(r) ==
    \/ Malformed(r) \/ StartHandler(r) \/ Put(r) \/ EndClaimed(r) \/ ClaimLost(r)
    \/ Delete(r) \/ Respond(r) \/ WrapUp(r) \/ Finish(r)
    \/ srv[r] = "oversize" /\ (Err(r) \/ Ignored(r))

\* The handler's own choices.
Handler(r) ==
    \/ Msg(r) \/ End(r) \/ EndOversize(r) \/ HandlerReturns(r)
    \/ srv[r] = "handling" /\ (Err(r) \/ Ignored(r))

\* NATS and its server.
Nats(r) ==
    \/ PublishDenied(r) \/ SubscribeDenied(r) \/ SubscriptionFailed(r) \/ NoResponders(r)
    \/ Dispatch(r) \/ refuseDrained(r) \/ ClientCancelled(r)

Shutdown == stopAllServices \/ SetDraining \/ CancelBase \/ DrainDone \/ DrainTimedOut

\* Every stream is closed and every object has expired.
Quiet ==
    /\ \A r \in Req : cli[r] = "closed" /\ srv[r] \in {"none", "refused", "finished"}
    /\ phase \in {"clean", "timedout"} /\ store = {}
    /\ UNCHANGED vars

Next ==
    \/ \E r \in Req : \/ Consumer(r) \/ Pump(r) \/ Serving(r) \/ Handler(r)
                       \/ keepAliveLoop(r) \/ PublishMsg(r) \/ Nats(r)
    \/ Shutdown
    \/ Expire
    \/ Quiet

Spec == Init /\ [][Next]_vars

\* Each goroutine that can step does; a handler eventually returns and a
\* consumer eventually receives.  Nobody has to shut the gateway down, but a
\* Shutdown that has begun runs on.
Fairness ==
    /\ \A r \in Req :
        /\ WF_vars(Pump(r)) /\ WF_vars(Receive(r))
        /\ WF_vars(Serving(r)) /\ WF_vars(HandlerReturns(r)) /\ WF_vars(PublishMsg(r))
    /\ WF_vars(SetDraining) /\ WF_vars(CancelBase) /\ WF_vars(DrainDone)

FairSpec == Spec /\ Fairness

-----------------------------------------------------------------------------
(* Properties *)

\* Once a terminal frame is on the reply subject nothing follows it: neither a
\* notification or keep-alive caught in flight, nor a second terminal frame
\* (streamWriter's lock and done).
NothingAfterTerminal ==
    \A r \in Req : Len(tail[r]) <= 1

\* Shutdown reports a clean drain only when no handler is running and none can
\* start any more: the wait group and the draining flag decide together
\* (beginRequest).
DrainClean ==
    phase = "clean" =>
        wg = 0 /\ \A r \in Req : srv[r] \in {"none", "refused", "finished"}

\* An object in the claim store is one the caller has been sent the id of, one
\* End is still about to announce or delete, or one that a failed store operation
\* or a refused publish left to the bucket's TTL: none is parked and forgotten.
ClaimsReachable ==
    \A o \in store :
        \/ o \in left
        \/ ref[o[1]] = o[2]
        \/ /\ calls[o[1]] = o[2]
           /\ srv[o[1]] \in {"parked", "unpark"} \/ out[o[1]] = "claim"

\* server.go:761 and 472: whichever of the handler, its cleanup, the backend's
\* read loop, the keep-alives and a drain gets there first, a reply subject
\* carries one terminal frame and nothing behind it, and an empty end, which
\* tells a client its request was cancelled, only if the client asked for that.
OneHonestEnd ==
    \A r \in Req :
        \/ tail[r] = <<>>
        \/ \E f \in Terminal : tail[r] = <<f>> /\ (f = "empty" => asked[r])

\* The same at the client's end: an empty end frame only ever reaches one that
\* asked for the cancellation; a drain answers with an error.
EmptyEndMeansCancelled ==
    \A r \in Req : "empty" \in {got[r][i] : i \in DOMAIN got[r]} => asked[r]

\* A consumer's view of the client: its channel, and whose context has ended.
Channel == [r \in Req |-> IF cli[r] = "idle" THEN "new"
                         ELSE IF cli[r] = "closed" THEN "closed" ELSE "open"]
Ended == {r \in Req : ctx[r] # "live"}

StreamOf == INSTANCE Stream WITH
    chan <- Channel, seen <- got, cut <- Ended, Frames <- Given

\* The pump, whatever is lost, late, oversize or refused, gives its consumer
\* the frames in order and exactly one terminal frame last, and closes C
\* without one only for a stream whose context has ended.
StreamContract == StreamOf!Spec

\* Every open stream is eventually closed, however many frames are lost: the
\* inactivity deadline ends what the gateway does not.
StreamEnds == \A r \in Req : cli[r] = "reading" ~> cli[r] = "closed"

\* Once Shutdown waits, the wait group only falls and reaches zero: every
\* admitted request runs dispatch's defers.
DrainCompletes == phase = "waiting" ~> wg = 0

\* A stream that ends because NATS refused one of its subjects (and was not
\* already given up as lost) says so on C, or found nobody there for three
\* seconds (failCaused).
ViolationSurfaced ==
    [][\A r \in Req :
        /\ cli[r] # "closed" /\ cli'[r] = "closed"
        /\ ctx[r] = "violated" /\ hold[r] # "lost"
        => Receive(r) \/ FailDropped(r)]_vars
=============================================================================
