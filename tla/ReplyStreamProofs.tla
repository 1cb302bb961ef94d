-------------------------- MODULE ReplyStreamProofs --------------------------
(***************************************************************************)
(* The safety of reply streams, for any number of requests and any bounds: *)
(* an inductive invariant in six parts, one lemma per part showing that    *)
(* every action preserves it, the theorems that follow, and the proof that *)
(* ReplyStream implements Stream.                                          *)
(***************************************************************************)
EXTENDS ReplyStream, FiniteSetTheorems, TLAPS

\* A frame about to be published or handed over is a frame, a claim's id only
\* while it is being published, and a stream not yet opened has sent nothing; a
\* violation is reported only after one.
Held ==
    \A r \in Req :
        /\ cli[r] = "idle" => net[r] = "none"
        /\ cli[r] = "failing" => ctx[r] = "violated"
        /\ srv[r] \in {"publish", "last"} => out[r] \in Terminal
        /\ out[r] = "claim" => srv[r] = "publish"
        /\ cli[r] \in {"delivering", "failing"} => hold[r] \in Given

\* What reaches a subscription is typed.
LEMMA ArrivesType ==
    ASSUME TypeOK, NEW r \in Req, NEW m \in FrameKind \cup {"noresponders"}, Arrives(r, m)
    PROVE  /\ in' \in [Req -> Seq(FrameKind \cup {"noresponders"})]
           /\ slow' \in [Req -> BOOLEAN]
<1>1. Append(in[r], m) \in Seq(FrameKind \cup {"noresponders"})
  BY DEF TypeOK
<1>2. CASE UNCHANGED <<in, slow>>
  BY <1>2 DEF TypeOK
<1>3. CASE in' = [in EXCEPT ![r] = Append(@, m)] /\ UNCHANGED slow
  BY <1>1, <1>3 DEF TypeOK
<1>4. CASE slow' = [slow EXCEPT ![r] = TRUE] /\ UNCHANGED in
  BY <1>4 DEF TypeOK
<1> QED
  BY <1>2, <1>3, <1>4 DEF Arrives

\* So is what is published.
LEMMA PublishType ==
    ASSUME TypeOK, NEW r \in Req, NEW f \in FrameKind, Publish(r, f)
    PROVE  /\ tail' \in [Req -> Seq(FrameKind)]
           /\ in' \in [Req -> Seq(FrameKind \cup {"noresponders"})]
           /\ slow' \in [Req -> BOOLEAN]
<1>1. CASE UNCHANGED wireVars
  BY <1>1 DEF TypeOK, wireVars
<1>2. CASE Arrives(r, f) /\ tail' = [tail EXCEPT ![r] = IF @ # <<>> \/ f \in Terminal
                                                        THEN Append(@, f) ELSE @]
  <2>1. Append(tail[r], f) \in Seq(FrameKind)
    BY DEF TypeOK
  <2>2. tail' \in [Req -> Seq(FrameKind)]
    BY <1>2, <2>1 DEF TypeOK
  <2> QED
    BY <1>2, <2>2, ArrivesType
<1> QED
  BY <1>1, <1>2 DEF Publish, Sends

\* Every action keeps the variables' types; that the wait group stays a natural
\* number needs the count of running requests, and is a premise here.
LEMMA TypeStep ==
    ASSUME TypeOK, Held, Next, wg' \in Nat
    PROVE  TypeOK'
<1>1. ASSUME NEW r \in Req, Do(r) PROVE TypeOK'
  <2>1. net' \in [Req -> {"none", "sent", "arrived", "gone"}]
    BY <1>1 DEF TypeOK, Do
  <2>2. cli' \in [Req -> {"idle", "reading", "fetching", "delivering", "failing", "closed"}]
    BY <1>1 DEF TypeOK, Do, cliVars
  <2> QED
    BY <1>1, <2>1, <2>2 DEF TypeOK, Do, gwVars, srvVars, wrVars, claimVars,
       wireVars, cliVars
<1>2. ASSUME NEW r \in Req, Abandon(r) PROVE TypeOK'
  <2>1. ctx' \in [Req -> {"live", "stopped", "violated"}]
    BY <1>2 DEF TypeOK, Abandon, Subscribed, cliVars
  <2> QED
    BY <1>2, <2>1 DEF TypeOK, Abandon, Subscribed, gwVars, srvVars, wrVars,
       claimVars, wireVars, cliVars
<1>3. ASSUME NEW r \in Req, Cancel(r) PROVE TypeOK'
  <2>1. asked' \in [Req -> BOOLEAN]
    BY <1>3 DEF TypeOK, Cancel, Subscribed, cliVars
  <2> QED
    BY <1>3, <2>1 DEF TypeOK, Cancel, Subscribed, gwVars, srvVars, wrVars,
       claimVars, wireVars, cliVars
<1>4. ASSUME NEW r \in Req, Receive(r) PROVE TypeOK'
  <2>1. tail' \in [Req -> Seq(FrameKind)]
    BY <1>4 DEF TypeOK, Receive, Close, FrameKind, Terminal, wireVars
  <2>2. in' \in [Req -> Seq(FrameKind \cup {"noresponders"})]
    <3>1. CASE Close(r)
      BY <3>1, SMTT(20) DEF TypeOK, Close
    <3>2. CASE UNCHANGED wireVars
      BY <3>2 DEF TypeOK, wireVars
    <3> QED
      BY <1>4, <3>1, <3>2 DEF Receive
  <2>3. slow' \in [Req -> BOOLEAN]
    BY <1>4 DEF TypeOK, Receive, Close, wireVars
  <2>4. cli' \in [Req -> {"idle", "reading", "fetching", "delivering", "failing", "closed"}]
    <3>1. PICK e \in {"idle", "reading", "fetching", "delivering", "failing", "closed"} : cli' = [cli EXCEPT ![r] = e]
      BY <1>4 DEF Receive, Close
    <3> QED
      BY <3>1 DEF TypeOK
  <2>5. hold' \in [Req -> Given \cup {"none"}]
    BY <1>4 DEF TypeOK, Receive, Close, Given, cliVars
  <2>6. got' \in [Req -> Seq(Given)]
    <3>1. hold[r] \in Given
      BY <1>4 DEF TypeOK, Held, Receive
    <3> QED
      BY <1>4, <3>1 DEF TypeOK, Receive
  <2> QED
    BY <1>4, <2>1, <2>2, <2>3, <2>4, <2>5, <2>6 DEF TypeOK, Receive, Close,
       gwVars, srvVars, wrVars, claimVars, wireVars, cliVars
<1>5. ASSUME NEW r \in Req, Read(r) PROVE TypeOK'
  <2>1. in' \in [Req -> Seq(FrameKind \cup {"noresponders"})]
    BY <1>5 DEF TypeOK, Read, Deliver, FrameKind, Terminal, wireVars
  <2>2. cli' \in [Req -> {"idle", "reading", "fetching", "delivering", "failing", "closed"}]
    <3>1. PICK e \in {"idle", "reading", "fetching", "delivering", "failing", "closed"} : cli' = [cli EXCEPT ![r] = e]
      BY <1>5 DEF TypeOK, Read, Deliver
    <3> QED
      BY <3>1 DEF TypeOK
  <2>3. hold' \in [Req -> Given \cup {"none"}]
    BY <1>5, SMTT(20) DEF TypeOK, Read, Deliver, Given, cliVars
  <2> QED
    BY <1>5, <2>1, <2>2, <2>3 DEF TypeOK, Read, Deliver, gwVars, srvVars, wrVars,
       claimVars, wireVars, cliVars
<1>6. ASSUME NEW r \in Req, SlowConsumer(r) PROVE TypeOK'
  <2>1. cli' \in [Req -> {"idle", "reading", "fetching", "delivering", "failing", "closed"}]
    BY <1>6 DEF TypeOK, SlowConsumer, Deliver, cliVars
  <2>2. hold' \in [Req -> Given \cup {"none"}]
    BY <1>6 DEF TypeOK, SlowConsumer, Deliver, Given, cliVars
  <2> QED
    BY <1>6, <2>1, <2>2 DEF TypeOK, SlowConsumer, Deliver, gwVars, srvVars,
       wrVars, claimVars, wireVars, cliVars
<1>7. ASSUME NEW r \in Req, Timeout(r) PROVE TypeOK'
  <2>1. cli' \in [Req -> {"idle", "reading", "fetching", "delivering", "failing", "closed"}]
    BY <1>7 DEF TypeOK, Timeout, Deliver, cliVars
  <2>2. hold' \in [Req -> Given \cup {"none"}]
    BY <1>7 DEF TypeOK, Timeout, Deliver, Given, cliVars
  <2> QED
    BY <1>7, <2>1, <2>2 DEF TypeOK, Timeout, Deliver, gwVars, srvVars, wrVars,
       claimVars, wireVars, cliVars
<1>8. ASSUME NEW r \in Req, FetchOk(r) PROVE TypeOK'
  <2>1. store' \in SUBSET (Req \X Nat)
    BY <1>8 DEF TypeOK, FetchOk, Deliver, claimVars
  <2>2. cli' \in [Req -> {"idle", "reading", "fetching", "delivering", "failing", "closed"}]
    BY <1>8 DEF TypeOK, FetchOk, Deliver, cliVars
  <2>3. hold' \in [Req -> Given \cup {"none"}]
    BY <1>8 DEF TypeOK, FetchOk, Deliver, Given, cliVars
  <2> QED
    BY <1>8, <2>1, <2>2, <2>3 DEF TypeOK, FetchOk, Deliver, gwVars, srvVars,
       wrVars, claimVars, wireVars, cliVars
<1>9. ASSUME NEW r \in Req, FetchErr(r) PROVE TypeOK'
  <2>1. cli' \in [Req -> {"idle", "reading", "fetching", "delivering", "failing", "closed"}]
    BY <1>9 DEF TypeOK, FetchErr, Deliver, cliVars
  <2>2. hold' \in [Req -> Given \cup {"none"}]
    BY <1>9 DEF TypeOK, FetchErr, Deliver, Given, cliVars
  <2> QED
    BY <1>9, <2>1, <2>2 DEF TypeOK, FetchErr, Deliver, gwVars, srvVars, wrVars,
       claimVars, wireVars, cliVars
<1>10. ASSUME NEW r \in Req, DeliverAborted(r) PROVE TypeOK'
  <2>1. tail' \in [Req -> Seq(FrameKind)]
    BY <1>10 DEF TypeOK, DeliverAborted, Close, FrameKind, Terminal, wireVars
  <2>2. in' \in [Req -> Seq(FrameKind \cup {"noresponders"})]
    BY <1>10 DEF TypeOK, DeliverAborted, Close, FrameKind, Terminal, wireVars
  <2>3. slow' \in [Req -> BOOLEAN]
    BY <1>10 DEF TypeOK, DeliverAborted, Close, wireVars
  <2>4. cli' \in [Req -> {"idle", "reading", "fetching", "delivering", "failing", "closed"}]
    BY <1>10 DEF TypeOK, DeliverAborted, Close, cliVars
  <2>5. hold' \in [Req -> Given \cup {"none"}]
    BY <1>10 DEF TypeOK, DeliverAborted, Close, Given, cliVars
  <2> QED
    BY <1>10, <2>1, <2>2, <2>3, <2>4, <2>5 DEF TypeOK, DeliverAborted, Close,
       gwVars, srvVars, wrVars, claimVars, wireVars, cliVars
<1>11. ASSUME NEW r \in Req, CtxDone(r) PROVE TypeOK'
  <2>1. tail' \in [Req -> Seq(FrameKind)]
    BY <1>11 DEF TypeOK, CtxDone, Close, FrameKind, Terminal, wireVars
  <2>2. in' \in [Req -> Seq(FrameKind \cup {"noresponders"})]
    <3>1. CASE Close(r)
      BY <3>1, SMTT(20) DEF TypeOK, Close
    <3>2. CASE UNCHANGED wireVars
      BY <3>2 DEF TypeOK, wireVars
    <3> QED
      BY <1>11, <3>1, <3>2 DEF CtxDone
  <2>3. slow' \in [Req -> BOOLEAN]
    BY <1>11, ZenonT(30) DEF TypeOK, CtxDone, Close, wireVars
  <2>4. cli' \in [Req -> {"idle", "reading", "fetching", "delivering", "failing", "closed"}]
    <3>1. cli \in [Req -> {"idle", "reading", "fetching", "delivering", "failing", "closed"}]
      BY DEF TypeOK
    <3>2. \/ cli' = [cli EXCEPT ![r] = "failing"]
          \/ cli' = [cli EXCEPT ![r] = "closed"]
      BY <1>11 DEF CtxDone, Close
    <3> QED
      BY <3>1, <3>2
  <2>5. hold' \in [Req -> Given \cup {"none"}]
    BY <1>11, ZenonT(30) DEF TypeOK, CtxDone, Close, Given, cliVars
  <2> QED
    BY <1>11, <2>1, <2>2, <2>3, <2>4, <2>5 DEF TypeOK, CtxDone, Close, gwVars,
       srvVars, wrVars, claimVars, wireVars, cliVars
<1>12. ASSUME NEW r \in Req, FailDropped(r) PROVE TypeOK'
  <2>1. tail' \in [Req -> Seq(FrameKind)]
    BY <1>12 DEF TypeOK, FailDropped, Close, FrameKind, Terminal, wireVars
  <2>2. in' \in [Req -> Seq(FrameKind \cup {"noresponders"})]
    BY <1>12 DEF TypeOK, FailDropped, Close, FrameKind, Terminal, wireVars
  <2>3. slow' \in [Req -> BOOLEAN]
    BY <1>12 DEF TypeOK, FailDropped, Close, wireVars
  <2>4. cli' \in [Req -> {"idle", "reading", "fetching", "delivering", "failing", "closed"}]
    BY <1>12 DEF TypeOK, FailDropped, Close, cliVars
  <2>5. hold' \in [Req -> Given \cup {"none"}]
    BY <1>12 DEF TypeOK, FailDropped, Close, Given, cliVars
  <2> QED
    BY <1>12, <2>1, <2>2, <2>3, <2>4, <2>5 DEF TypeOK, FailDropped, Close, gwVars,
       srvVars, wrVars, claimVars, wireVars, cliVars
<1>13. ASSUME NEW r \in Req, Malformed(r) PROVE TypeOK'
  <2>1. srv' \in [Req -> SrvPC]
    BY <1>13 DEF TypeOK, Malformed, claim, SrvPC, srvVars
  <2>2. out' \in [Req -> Terminal \cup {"none"}]
    BY <1>13 DEF TypeOK, Malformed, claim, Terminal, srvVars
  <2>3. done' \in [Req -> BOOLEAN]
    BY <1>13 DEF TypeOK, Malformed, claim, wrVars
  <2> QED
    BY <1>13, <2>1, <2>2, <2>3 DEF TypeOK, Malformed, claim, gwVars, srvVars,
       wrVars, claimVars, wireVars, cliVars
<1>14. ASSUME NEW r \in Req, StartHandler(r) PROVE TypeOK'
  <2>1. srv' \in [Req -> SrvPC]
    BY <1>14 DEF TypeOK, StartHandler, Draining, SrvPC, srvVars
  <2>2. cause' \in [Req -> {"none", "cancelled", "draining"}]
    BY <1>14 DEF TypeOK, StartHandler, Draining, srvVars
  <2>3. ctl' \in [Req -> BOOLEAN]
    BY <1>14 DEF TypeOK, StartHandler, Draining, srvVars
  <2>4. ka' \in [Req -> BOOLEAN]
    BY <1>14 DEF TypeOK, StartHandler, Draining, srvVars
  <2> QED
    BY <1>14, <2>1, <2>2, <2>3, <2>4 DEF TypeOK, StartHandler, Draining, gwVars,
       srvVars, wrVars, claimVars, wireVars, cliVars
<1>15. ASSUME NEW r \in Req, Put(r) PROVE TypeOK'
  <2>1. srv' \in [Req -> SrvPC]
    <3>1. PICK e \in SrvPC : srv' = [srv EXCEPT ![r] = e]
      BY <1>15 DEF Put, SrvPC
    <3> QED
      BY <3>1 DEF TypeOK
  <2>2. store' \in SUBSET (Req \X Nat)
    BY <1>15 DEF TypeOK, Put, claimVars
  <2>3. left' \in SUBSET (Req \X Nat)
    BY <1>15 DEF TypeOK, Put, claimVars
  <2> QED
    BY <1>15, <2>1, <2>2, <2>3 DEF TypeOK, Put, gwVars, srvVars, wrVars,
       claimVars, wireVars, cliVars
<1>16. ASSUME NEW r \in Req, EndClaimed(r) PROVE TypeOK'
  <2>1. srv' \in [Req -> SrvPC]
    BY <1>16 DEF TypeOK, EndClaimed, Claims, claim, SrvPC, srvVars
  <2>2. out' \in [Req -> Terminal \cup {"none"}]
    BY <1>16 DEF TypeOK, EndClaimed, Claims, claim, Terminal, srvVars
  <2>3. done' \in [Req -> BOOLEAN]
    BY <1>16 DEF TypeOK, EndClaimed, Claims, claim, wrVars
  <2> QED
    BY <1>16, <2>1, <2>2, <2>3 DEF TypeOK, EndClaimed, Claims, claim,
       gwVars, srvVars, wrVars, claimVars, wireVars, cliVars
<1>17. ASSUME NEW r \in Req, ClaimLost(r) PROVE TypeOK'
  <2>1. srv' \in [Req -> SrvPC]
    BY <1>17 DEF TypeOK, ClaimLost, SrvPC, srvVars
  <2> QED
    BY <1>17, <2>1 DEF TypeOK, ClaimLost, gwVars, srvVars, wrVars, claimVars,
       wireVars, cliVars
<1>18. ASSUME NEW r \in Req, Delete(r) PROVE TypeOK'
  <2>1. srv' \in [Req -> SrvPC]
    BY <1>18 DEF TypeOK, Delete, SrvPC, srvVars
  <2>2. store' \in SUBSET (Req \X Nat)
    BY <1>18 DEF TypeOK, Delete, claimVars
  <2>3. left' \in SUBSET (Req \X Nat)
    BY <1>18 DEF TypeOK, Delete, claimVars
  <2> QED
    BY <1>18, <2>1, <2>2, <2>3 DEF TypeOK, Delete, gwVars, srvVars, wrVars,
       claimVars, wireVars, cliVars
<1>19. ASSUME NEW r \in Req, Respond(r) PROVE TypeOK'
  <2>1. srv' \in [Req -> SrvPC]
    BY <1>19 DEF TypeOK, Respond, SrvPC, srvVars
  <2>2. out' \in [Req -> Terminal \cup {"none"}]
    BY <1>19 DEF TypeOK, Respond, Terminal, srvVars
  <2>3. out[r] \in FrameKind /\ Publish(r, out[r])
    BY <1>19 DEF Respond, Publish, Held, FrameKind
  <2>4. /\ tail' \in [Req -> Seq(FrameKind)]
        /\ in' \in [Req -> Seq(FrameKind \cup {"noresponders"})]
        /\ slow' \in [Req -> BOOLEAN]
    BY <2>3, PublishType
  <2>5. ref' \in [Req -> Nat] /\ left' \in SUBSET (Req \X Nat)
    <3>1. \A o \in store : o \in Req \X Nat
      BY DEF TypeOK
    <3>2. ref' = ref \/ ref' = [ref EXCEPT ![r] = calls[r]]
      BY <1>19 DEF TypeOK, Respond
    <3>3. left' \subseteq left \cup store
      BY <1>19 DEF Respond
    <3>4. left' \in SUBSET (Req \X Nat)
      BY <3>1, <3>3 DEF TypeOK
    <3>5. ref' \in [Req -> Nat]
      <4>1. ref \in [Req -> Nat] /\ calls[r] \in Nat
        BY DEF TypeOK
      <4> QED
        BY <3>2, <4>1
    <3> QED
      BY <3>4, <3>5
  <2> QED
    BY <1>19, <2>1, <2>2, <2>4, <2>5 DEF TypeOK, Respond, gwVars, srvVars,
       wrVars, cliVars
<1>20. ASSUME NEW r \in Req, WrapUp(r) PROVE TypeOK'
  <2>1. srv' \in [Req -> SrvPC]
    <3>1. PICK e \in SrvPC : srv' = [srv EXCEPT ![r] = e]
      BY <1>20 DEF WrapUp, SrvPC
    <3> QED
      BY <3>1 DEF TypeOK
  <2>2. out' \in [Req -> Terminal \cup {"none"}]
    BY <1>20, ZenonT(30) DEF TypeOK, WrapUp, claim, Closing, Terminal, srvVars
  <2>3. done' \in [Req -> BOOLEAN]
    BY <1>20, ZenonT(30) DEF TypeOK, WrapUp, claim, Closing, wrVars
  <2>4. lock' \in [Req -> {"free", "msg", "ka"}]
    BY <1>20 DEF TypeOK, WrapUp, claim, Closing, wrVars
  <2>5. quota' \in [Req -> 0..MaxFrames]
    BY <1>20, BoundAssumption DEF TypeOK, WrapUp, claim, Closing, wrVars
  <2> QED
    BY <1>20, <2>1, <2>2, <2>3, <2>4, <2>5 DEF TypeOK, WrapUp, claim, Closing,
       gwVars, srvVars, wrVars, claimVars, wireVars, cliVars
<1>21. ASSUME NEW r \in Req, Finish(r) PROVE TypeOK'
  <2>1. srv' \in [Req -> SrvPC]
    BY <1>21 DEF TypeOK, Finish, SrvPC, srvVars
  <2>2. ctl' \in [Req -> BOOLEAN]
    BY <1>21 DEF TypeOK, Finish, srvVars
  <2>3. ka' \in [Req -> BOOLEAN]
    BY <1>21 DEF TypeOK, Finish, srvVars
  <2> QED
    BY <1>21, <2>1, <2>2, <2>3 DEF TypeOK, Finish, gwVars, srvVars, wrVars,
       claimVars, wireVars, cliVars
<1>22. ASSUME NEW r \in Req, Err(r) PROVE TypeOK'
  <2>1. srv' \in [Req -> SrvPC]
    BY <1>22 DEF TypeOK, Err, Calling, Count, Claims, claim, SrvPC, srvVars
  <2>2. out' \in [Req -> Terminal \cup {"none"}]
    BY <1>22 DEF TypeOK, Err, Calling, Count, Claims, claim, Terminal, srvVars
  <2>3. calls' \in [Req -> Nat]
    <3>1. CASE Count(r)
      BY <3>1 DEF TypeOK, Count
    <3>2. CASE UNCHANGED calls
      BY <3>2 DEF TypeOK
    <3> QED
      BY <1>22, <3>1, <3>2 DEF Err
  <2>4. done' \in [Req -> BOOLEAN]
    BY <1>22 DEF TypeOK, Err, Calling, Count, Claims, claim, wrVars
  <2> QED
    BY <1>22, <2>1, <2>2, <2>3, <2>4 DEF TypeOK, Err, Calling, Count, Claims,
       claim, gwVars, srvVars, wrVars, claimVars, wireVars, cliVars
<1>23. ASSUME NEW r \in Req, Ignored(r) PROVE TypeOK'
  <2>1. srv' \in [Req -> SrvPC]
    BY <1>23 DEF TypeOK, Ignored, Calling, Count, SrvPC, srvVars
  <2>2. calls' \in [Req -> Nat]
    <3>1. calls \in [Req -> Nat]
      BY DEF TypeOK
    <3>2. calls' = [calls EXCEPT ![r] = @ + 1] \/ calls' = calls
      BY <1>23 DEF Ignored, Count
    <3> QED
      BY <3>1, <3>2
  <2> QED
    BY <1>23, <2>1, <2>2 DEF TypeOK, Ignored, Calling, Count, gwVars, srvVars,
       wrVars, claimVars, wireVars, cliVars
<1>24. ASSUME NEW r \in Req, Msg(r) PROVE TypeOK'
  <2>1. lock' \in [Req -> {"free", "msg", "ka"}]
    BY <1>24 DEF TypeOK, Msg, Writing, wrVars
  <2>2. quota' \in [Req -> 0..MaxFrames]
    <3>1. quota[r] \in 0..MaxFrames /\ quota[r] > 0
      BY <1>24 DEF TypeOK, Msg
    <3>2. quota[r] - 1 \in 0..MaxFrames
      BY <3>1, BoundAssumption
    <3>3. quota' = [quota EXCEPT ![r] = quota[r] - 1]
      BY <1>24 DEF Msg
    <3> QED
      BY <3>2, <3>3 DEF TypeOK
  <2> QED
    BY <1>24, <2>1, <2>2 DEF TypeOK, Msg, Writing, gwVars, srvVars, wrVars,
       claimVars, wireVars, cliVars
<1>25. ASSUME NEW r \in Req, End(r) PROVE TypeOK'
  <2>1. srv' \in [Req -> SrvPC]
    BY <1>25 DEF TypeOK, End, Calling, Count, Claims, claim, SrvPC, srvVars
  <2>2. out' \in [Req -> Terminal \cup {"none"}]
    BY <1>25 DEF TypeOK, End, Calling, Count, Claims, claim, Terminal, srvVars
  <2>3. calls' \in [Req -> Nat]
    BY <1>25 DEF TypeOK, End, Calling, Count, Claims, claim, srvVars
  <2>4. done' \in [Req -> BOOLEAN]
    BY <1>25 DEF TypeOK, End, Calling, Count, Claims, claim, wrVars
  <2> QED
    BY <1>25, <2>1, <2>2, <2>3, <2>4 DEF TypeOK, End, Calling, Count, Claims,
       claim, gwVars, srvVars, wrVars, claimVars, wireVars, cliVars
<1>26. ASSUME NEW r \in Req, EndOversize(r) PROVE TypeOK'
  <2>1. srv' \in [Req -> SrvPC]
    BY <1>26 DEF TypeOK, EndOversize, Calling, Count, SrvPC, srvVars
  <2>2. calls' \in [Req -> Nat]
    BY <1>26 DEF TypeOK, EndOversize, Calling, Count, srvVars
  <2> QED
    BY <1>26, <2>1, <2>2 DEF TypeOK, EndOversize, Calling, Count, gwVars, srvVars,
       wrVars, claimVars, wireVars, cliVars
<1>27. ASSUME NEW r \in Req, HandlerReturns(r) PROVE TypeOK'
  <2>1. srv' \in [Req -> SrvPC]
    BY <1>27 DEF TypeOK, HandlerReturns, SrvPC, srvVars
  <2> QED
    BY <1>27, <2>1 DEF TypeOK, HandlerReturns, gwVars, srvVars, wrVars, claimVars,
       wireVars, cliVars
<1>28. ASSUME NEW r \in Req, keepAliveLoop(r) PROVE TypeOK'
  <2>1. lock' \in [Req -> {"free", "msg", "ka"}]
    BY <1>28 DEF TypeOK, keepAliveLoop, wrVars
  <2>2. quota' \in [Req -> 0..MaxFrames]
    <3>1. quota[r] \in 0..MaxFrames /\ quota[r] > 0
      BY <1>28 DEF TypeOK, keepAliveLoop
    <3>2. quota[r] - 1 \in 0..MaxFrames
      BY <3>1, BoundAssumption
    <3>3. quota' = [quota EXCEPT ![r] = quota[r] - 1]
      BY <1>28 DEF keepAliveLoop
    <3> QED
      BY <3>2, <3>3 DEF TypeOK
  <2> QED
    BY <1>28, <2>1, <2>2 DEF TypeOK, keepAliveLoop, gwVars, srvVars, wrVars,
       claimVars, wireVars, cliVars
<1>29. ASSUME NEW r \in Req, PublishMsg(r) PROVE TypeOK'
  <2>1. lock' \in [Req -> {"free", "msg", "ka"}]
    BY <1>29 DEF TypeOK, PublishMsg, wrVars
  <2>2. tail' \in [Req -> Seq(FrameKind)]
    <3>1. lock[r] \in FrameKind
      BY <1>29 DEF TypeOK, PublishMsg, FrameKind
    <3> QED
      BY <1>29, <3>1, PublishType DEF PublishMsg
  <2>3. in' \in [Req -> Seq(FrameKind \cup {"noresponders"})]
    <3>1. lock[r] \in FrameKind
      BY <1>29 DEF TypeOK, PublishMsg, FrameKind
    <3> QED
      BY <1>29, <3>1, PublishType DEF PublishMsg
  <2>4. slow' \in [Req -> BOOLEAN]
    <3>1. lock[r] \in FrameKind
      BY <1>29 DEF TypeOK, PublishMsg, FrameKind
    <3> QED
      BY <1>29, <3>1, PublishType DEF PublishMsg
  <2> QED
    BY <1>29, <2>1, <2>2, <2>3, <2>4 DEF TypeOK, PublishMsg, gwVars, srvVars,
       wrVars, claimVars, wireVars, cliVars
<1>30. ASSUME NEW r \in Req, PublishDenied(r) PROVE TypeOK'
  <2>1. net' \in [Req -> {"none", "sent", "arrived", "gone"}]
    BY <1>30 DEF TypeOK, PublishDenied, Subscribed
  <2>2. ctx' \in [Req -> {"live", "stopped", "violated"}]
    BY <1>30 DEF TypeOK, PublishDenied, Subscribed, cliVars
  <2> QED
    BY <1>30, <2>1, <2>2 DEF TypeOK, PublishDenied, Subscribed, gwVars, srvVars,
       wrVars, claimVars, wireVars, cliVars
<1>31. ASSUME NEW r \in Req, SubscribeDenied(r) PROVE TypeOK'
  <2>1. ctx' \in [Req -> {"live", "stopped", "violated"}]
    BY <1>31 DEF TypeOK, SubscribeDenied, cliVars
  <2> QED
    BY <1>31, <2>1 DEF TypeOK, SubscribeDenied, gwVars, srvVars, wrVars,
       claimVars, wireVars, cliVars
<1>32. ASSUME NEW r \in Req, SubscriptionFailed(r) PROVE TypeOK'
  <2>1. cli' \in [Req -> {"idle", "reading", "fetching", "delivering", "failing", "closed"}]
    BY <1>32 DEF TypeOK, SubscriptionFailed, Deliver, cliVars
  <2>2. hold' \in [Req -> Given \cup {"none"}]
    BY <1>32 DEF TypeOK, SubscriptionFailed, Deliver, Given, cliVars
  <2> QED
    BY <1>32, <2>1, <2>2 DEF TypeOK, SubscriptionFailed, Deliver, gwVars, srvVars,
       wrVars, claimVars, wireVars, cliVars
<1>33. ASSUME NEW r \in Req, NoResponders(r) PROVE TypeOK'
  <2>1. net' \in [Req -> {"none", "sent", "arrived", "gone"}]
    BY <1>33 DEF TypeOK, NoResponders, Arrives, Subscribed
  <2>2. in' \in [Req -> Seq(FrameKind \cup {"noresponders"})]
    BY <1>33, ArrivesType DEF NoResponders
  <2>3. slow' \in [Req -> BOOLEAN]
    BY <1>33, ArrivesType DEF NoResponders
  <2> QED
    BY <1>33, <2>1, <2>2, <2>3 DEF TypeOK, NoResponders, Arrives, Subscribed,
       gwVars, srvVars, wrVars, claimVars, wireVars, cliVars
<1>34. ASSUME NEW r \in Req, Dispatch(r) PROVE TypeOK'
  <2>1. net' \in [Req -> {"none", "sent", "arrived", "gone"}]
    BY <1>34 DEF TypeOK, Dispatch, beginRequest, Draining
  <2>2. srv' \in [Req -> SrvPC]
    BY <1>34 DEF TypeOK, Dispatch, beginRequest, Draining, SrvPC, srvVars
  <2> QED
    BY <1>34, <2>1, <2>2 DEF TypeOK, Dispatch, beginRequest, Draining, gwVars,
       srvVars, wrVars, claimVars, wireVars, cliVars
<1>35. ASSUME NEW r \in Req, refuseDrained(r) PROVE TypeOK'
  <2>1. net' \in [Req -> {"none", "sent", "arrived", "gone"}]
    BY <1>35 DEF TypeOK, refuseDrained, beginRequest, Draining
  <2>2. srv' \in [Req -> SrvPC]
    BY <1>35 DEF TypeOK, refuseDrained, beginRequest, Draining, SrvPC, srvVars
  <2>3. tail' \in [Req -> Seq(FrameKind)]
    BY <1>35, PublishType DEF refuseDrained, FrameKind, Terminal
  <2>4. in' \in [Req -> Seq(FrameKind \cup {"noresponders"})]
    BY <1>35, PublishType DEF refuseDrained, FrameKind, Terminal
  <2>5. slow' \in [Req -> BOOLEAN]
    BY <1>35, PublishType DEF refuseDrained, FrameKind, Terminal
  <2> QED
    BY <1>35, <2>1, <2>2, <2>3, <2>4, <2>5 DEF TypeOK, refuseDrained,
       beginRequest, Draining, gwVars, srvVars, wrVars, claimVars, wireVars,
       cliVars
<1>36. ASSUME NEW r \in Req, ClientCancelled(r) PROVE TypeOK'
  <2>1. cause' \in [Req -> {"none", "cancelled", "draining"}]
    BY <1>36 DEF TypeOK, ClientCancelled, srvVars
  <2> QED
    BY <1>36, <2>1 DEF TypeOK, ClientCancelled, gwVars, srvVars, wrVars,
       claimVars, wireVars, cliVars
<1>37. CASE stopAllServices
  <2>1. phase' \in {"serving", "stopped", "draining", "waiting", "clean", "timedout"}
    BY <1>37 DEF TypeOK, stopAllServices, gwVars
  <2> QED
    BY <1>37, <2>1 DEF TypeOK, stopAllServices, gwVars, srvVars, wrVars,
       claimVars, wireVars, cliVars
<1>38. CASE SetDraining
  <2>1. phase' \in {"serving", "stopped", "draining", "waiting", "clean", "timedout"}
    BY <1>38 DEF TypeOK, SetDraining, gwVars
  <2> QED
    BY <1>38, <2>1 DEF TypeOK, SetDraining, gwVars, srvVars, wrVars, claimVars,
       wireVars, cliVars
<1>39. CASE CancelBase
  <2>1. phase' \in {"serving", "stopped", "draining", "waiting", "clean", "timedout"}
    BY <1>39 DEF TypeOK, CancelBase, Writing, gwVars
  <2>2. cause' \in [Req -> {"none", "cancelled", "draining"}]
    BY <1>39 DEF TypeOK, CancelBase, Writing, srvVars
  <2> QED
    BY <1>39, <2>1, <2>2 DEF TypeOK, CancelBase, Writing, gwVars, srvVars, wrVars,
       claimVars, wireVars, cliVars
<1>40. CASE DrainDone
  <2>1. phase' \in {"serving", "stopped", "draining", "waiting", "clean", "timedout"}
    BY <1>40 DEF TypeOK, DrainDone, gwVars
  <2> QED
    BY <1>40, <2>1 DEF TypeOK, DrainDone, gwVars, srvVars, wrVars, claimVars,
       wireVars, cliVars
<1>41. CASE DrainTimedOut
  <2>1. phase' \in {"serving", "stopped", "draining", "waiting", "clean", "timedout"}
    BY <1>41 DEF TypeOK, DrainTimedOut, gwVars
  <2> QED
    BY <1>41, <2>1 DEF TypeOK, DrainTimedOut, gwVars, srvVars, wrVars, claimVars,
       wireVars, cliVars
<1>42. CASE Expire
  <2>1. store' \in SUBSET (Req \X Nat)
    BY <1>42 DEF TypeOK, Expire, claimVars
  <2>2. left' \in SUBSET (Req \X Nat)
    BY <1>42 DEF TypeOK, Expire, claimVars
  <2> QED
    BY <1>42, <2>1, <2>2 DEF TypeOK, Expire, gwVars, srvVars, wrVars, claimVars,
       wireVars, cliVars
<1>43. CASE Quiet
  BY <1>43 DEF TypeOK, Quiet, vars, gwVars, srvVars, wrVars, claimVars, wireVars, cliVars
<1> QED
  BY <1>1, <1>2, <1>3, <1>4, <1>5, <1>6, <1>7, <1>8, <1>9, <1>10, <1>11, <1>12,
     <1>13, <1>14, <1>15, <1>16, <1>17, <1>18, <1>19, <1>20, <1>21, <1>22, <1>23,
     <1>24, <1>25, <1>26, <1>27, <1>28, <1>29, <1>30, <1>31, <1>32, <1>33, <1>34,
     <1>35, <1>36, <1>37, <1>38, <1>39, <1>40, <1>41, <1>42, <1>43
  DEF Next, Consumer, Pump, Serving, Handler, Nats, Shutdown

\* The writer's protocol: the lock is held only before the stream is done, and
\* whoever is about to publish a terminal frame has claimed a stream on which
\* none has been published.
Writer ==
    \A r \in Req :
        /\ net[r] \in {"none", "sent"} => srv[r] = "none"
        /\ ka[r] => Writing(r)
        /\ lock[r] # "free" => Writing(r) /\ ~done[r]
        /\ srv[r] \in {"none", "dispatched"} => ~done[r]
        /\ tail[r] # <<>> => done[r] \/ srv[r] = "refused"
        /\ srv[r] \in {"publish", "last"} => done[r] /\ tail[r] = <<>>
        /\ Len(tail[r]) <= 1

\* The wait group counts the requests between beginRequest and the defers.
Busy == {r \in Req : srv[r] \notin {"none", "refused", "finished"}}

Drains ==
    /\ wg = Cardinality(Busy)
    /\ phase = "clean" => wg = 0

\* A claim's id is sent by the one call that claims the stream, after which none
\* is about to be, and ids start at one.
Parked ==
    /\ ClaimsReachable
    /\ \A o \in store : o[2] # 0
    /\ \A r \in Req :
        /\ ref[r] # 0 => done[r] /\ out[r] # "claim"
        /\ srv[r] \in {"put", "parked", "unpark"} => calls[r] # 0

\* Wherever an empty end frame is on its way, its caller has cancelled.
Cancels ==
    \A r \in Req :
        /\ cause[r] = "cancelled" => asked[r]
        /\ out[r] = "empty" => asked[r]
        /\ \A i \in DOMAIN in[r] : in[r][i] = "empty" => asked[r]
        /\ hold[r] = "empty" => asked[r]
        /\ \A i \in DOMAIN got[r] : got[r][i] = "empty" => asked[r]

\* Every action keeps the frames in hand frames.
LEMMA HeldStep ==
    ASSUME TypeOK, Held, Writer, Next
    PROVE  Held'
<1>0. ASSUME UNCHANGED <<net, srv, out, cli, hold, ctx>> PROVE Held'
  BY <1>0 DEF Held, Terminal, Given
<1>1. ASSUME NEW r \in Req, Do(r) PROVE Held'
  BY <1>1 DEF TypeOK, Held, Terminal, Given, Do, cliVars, srvVars
<1>2. ASSUME NEW r \in Req, Abandon(r) PROVE Held'
  BY <1>2 DEF TypeOK, Held, Terminal, Given, Abandon, Subscribed, cliVars, srvVars
<1>3. ASSUME NEW r \in Req, Cancel(r) PROVE Held'
  BY <1>0, <1>3 DEF Cancel, Subscribed, cliVars, srvVars
<1>4. ASSUME NEW r \in Req, Receive(r) PROVE Held'
  BY <1>4, SMTT(20) DEF TypeOK, Held, Terminal, Given, Receive, Close, cliVars, srvVars
<1>5. ASSUME NEW r \in Req, Read(r) PROVE Held'
  BY <1>5, SMTT(20) DEF TypeOK, Held, Terminal, Given, Read, Deliver, cliVars, srvVars
<1>6. ASSUME NEW r \in Req, SlowConsumer(r) PROVE Held'
  BY <1>6 DEF TypeOK, Held, Terminal, Given, SlowConsumer, Deliver, cliVars, srvVars
<1>7. ASSUME NEW r \in Req, Timeout(r) PROVE Held'
  BY <1>7 DEF TypeOK, Held, Terminal, Given, Timeout, Deliver, cliVars, srvVars
<1>8. ASSUME NEW r \in Req, FetchOk(r) PROVE Held'
  BY <1>8 DEF TypeOK, Held, Terminal, Given, FetchOk, Deliver, cliVars, srvVars
<1>9. ASSUME NEW r \in Req, FetchErr(r) PROVE Held'
  BY <1>9 DEF TypeOK, Held, Terminal, Given, FetchErr, Deliver, cliVars, srvVars
<1>10. ASSUME NEW r \in Req, DeliverAborted(r) PROVE Held'
  BY <1>10 DEF TypeOK, Held, Terminal, Given, DeliverAborted, Close, cliVars, srvVars
<1>11. ASSUME NEW r \in Req, CtxDone(r) PROVE Held'
  <2>1. CASE ctx[r] = "violated"
    <3>1. /\ cli' = [cli EXCEPT ![r] = "failing"] /\ hold' = [hold EXCEPT ![r] = "denied"]
          /\ UNCHANGED <<net, srv, out, ctx>>
      BY <1>11, <2>1 DEF CtxDone, srvVars
    <3> QED
      BY <2>1, <3>1 DEF TypeOK, Held, Given
  <2>2. CASE ctx[r] = "stopped"
    BY <1>11, <2>2 DEF TypeOK, Held, CtxDone, Close, srvVars
  <2> QED
    BY <1>11, <2>1, <2>2 DEF CtxDone
<1>12. ASSUME NEW r \in Req, FailDropped(r) PROVE Held'
  BY <1>12 DEF TypeOK, Held, Terminal, Given, FailDropped, Close, cliVars, srvVars
<1>13. ASSUME NEW r \in Req, Malformed(r) PROVE Held'
  BY <1>13 DEF TypeOK, Held, Terminal, Given, Malformed, claim, cliVars, srvVars
<1>14. ASSUME NEW r \in Req, StartHandler(r) PROVE Held'
  BY <1>14 DEF TypeOK, Held, Terminal, Given, StartHandler, Draining, cliVars, srvVars
<1>15. ASSUME NEW r \in Req, Put(r) PROVE Held'
  BY <1>15 DEF TypeOK, Held, Terminal, Given, Put, cliVars, srvVars
<1>16. ASSUME NEW r \in Req, EndClaimed(r) PROVE Held'
  BY <1>16 DEF TypeOK, Held, Terminal, Given, EndClaimed, Claims, claim, cliVars, srvVars
<1>17. ASSUME NEW r \in Req, ClaimLost(r) PROVE Held'
  BY <1>17 DEF TypeOK, Held, Terminal, Given, ClaimLost, cliVars, srvVars
<1>18. ASSUME NEW r \in Req, Delete(r) PROVE Held'
  BY <1>18 DEF TypeOK, Held, Terminal, Given, Delete, cliVars, srvVars
<1>19. ASSUME NEW r \in Req, Respond(r) PROVE Held'
  BY <1>19 DEF TypeOK, Held, Terminal, Given, Respond, cliVars, srvVars
<1>20. ASSUME NEW r \in Req, WrapUp(r) PROVE Held'
  BY <1>20 DEF TypeOK, Held, Terminal, Given, WrapUp, claim, Closing, cliVars, srvVars
<1>21. ASSUME NEW r \in Req, Finish(r) PROVE Held'
  BY <1>21 DEF TypeOK, Held, Terminal, Given, Finish, cliVars, srvVars
<1>22. ASSUME NEW r \in Req, Err(r) PROVE Held'
  BY <1>22 DEF TypeOK, Held, Terminal, Given, Err, Calling, Count, Claims, claim,
     cliVars, srvVars
<1>23. ASSUME NEW r \in Req, Ignored(r) PROVE Held'
  BY <1>23 DEF TypeOK, Held, Terminal, Given, Ignored, Calling, Count, cliVars, srvVars
<1>24. ASSUME NEW r \in Req, Msg(r) PROVE Held'
  BY <1>0, <1>24 DEF Msg, Writing, cliVars, srvVars
<1>25. ASSUME NEW r \in Req, End(r) PROVE Held'
  BY <1>25 DEF TypeOK, Held, Terminal, Given, End, Calling, Count, Claims, claim,
     cliVars, srvVars
<1>26. ASSUME NEW r \in Req, EndOversize(r) PROVE Held'
  BY <1>26 DEF TypeOK, Held, Terminal, Given, EndOversize, Calling, Count, cliVars,
     srvVars
<1>27. ASSUME NEW r \in Req, HandlerReturns(r) PROVE Held'
  BY <1>27 DEF TypeOK, Held, Terminal, Given, HandlerReturns, cliVars, srvVars
<1>28. ASSUME NEW r \in Req, keepAliveLoop(r) PROVE Held'
  BY <1>0, <1>28 DEF keepAliveLoop, cliVars, srvVars
<1>29. ASSUME NEW r \in Req, PublishMsg(r) PROVE Held'
  BY <1>0, <1>29 DEF PublishMsg, cliVars, srvVars
<1>30. ASSUME NEW r \in Req, PublishDenied(r) PROVE Held'
  BY <1>30 DEF TypeOK, Held, Terminal, Given, PublishDenied, Subscribed, cliVars, srvVars
<1>31. ASSUME NEW r \in Req, SubscribeDenied(r) PROVE Held'
  BY <1>31 DEF TypeOK, Held, Terminal, Given, SubscribeDenied, cliVars, srvVars
<1>32. ASSUME NEW r \in Req, SubscriptionFailed(r) PROVE Held'
  BY <1>32 DEF TypeOK, Held, Terminal, Given, SubscriptionFailed, Deliver, cliVars,
     srvVars
<1>33. ASSUME NEW r \in Req, NoResponders(r) PROVE Held'
  BY <1>33 DEF TypeOK, Held, Terminal, Given, NoResponders, Arrives, Subscribed,
     cliVars, srvVars
<1>34. ASSUME NEW r \in Req, Dispatch(r) PROVE Held'
  BY <1>34 DEF TypeOK, Held, Writer, Dispatch, cliVars
<1>35. ASSUME NEW r \in Req, refuseDrained(r) PROVE Held'
  BY <1>35 DEF TypeOK, Held, Writer, refuseDrained, cliVars, srvVars
<1>36. ASSUME NEW r \in Req, ClientCancelled(r) PROVE Held'
  BY <1>0, <1>36 DEF ClientCancelled, cliVars, srvVars
<1>37. CASE stopAllServices
  BY <1>0, <1>37 DEF stopAllServices, cliVars, srvVars
<1>38. CASE SetDraining
  BY <1>0, <1>38 DEF SetDraining, cliVars, srvVars
<1>39. CASE CancelBase
  BY <1>0, <1>39 DEF CancelBase, Writing, cliVars, srvVars
<1>40. CASE DrainDone
  BY <1>0, <1>40 DEF DrainDone, cliVars, srvVars
<1>41. CASE DrainTimedOut
  BY <1>0, <1>41 DEF DrainTimedOut, cliVars, srvVars
<1>42. CASE Expire
  BY <1>0, <1>42 DEF Expire, cliVars, srvVars
<1>43. CASE Quiet
  BY <1>0, <1>43 DEF Quiet, vars, cliVars, srvVars
<1> QED
  BY <1>1, <1>2, <1>3, <1>4, <1>5, <1>6, <1>7, <1>8, <1>9, <1>10, <1>11, <1>12,
     <1>13, <1>14, <1>15, <1>16, <1>17, <1>18, <1>19, <1>20, <1>21, <1>22, <1>23,
     <1>24, <1>25, <1>26, <1>27, <1>28, <1>29, <1>30, <1>31, <1>32, <1>33, <1>34,
     <1>35, <1>36, <1>37, <1>38, <1>39, <1>40, <1>41, <1>42, <1>43
  DEF Next, Consumer, Pump, Serving, Handler, Nats, Shutdown

\* Every action keeps the writer's protocol.
LEMMA WriterStep ==
    ASSUME TypeOK, Held, Writer, Next
    PROVE  Writer'
<1>0. ASSUME UNCHANGED <<net, srv, ka, done, lock, tail>> PROVE Writer'
  BY <1>0 DEF Writer, Writing
<1>1. ASSUME NEW r \in Req, Do(r) PROVE Writer'
  BY <1>1 DEF TypeOK, Held, Writer, Writing, Do, srvVars, wireVars, wrVars
<1>2. ASSUME NEW r \in Req, Abandon(r) PROVE Writer'
  BY <1>0, <1>2 DEF Abandon, Subscribed, srvVars, wireVars, wrVars
<1>3. ASSUME NEW r \in Req, Cancel(r) PROVE Writer'
  BY <1>0, <1>3 DEF Cancel, Subscribed, srvVars, wireVars, wrVars
<1>4. ASSUME NEW r \in Req, Receive(r) PROVE Writer'
  BY <1>0, <1>4 DEF Receive, Close, srvVars, wireVars, wrVars
<1>5. ASSUME NEW r \in Req, Read(r) PROVE Writer'
  BY <1>0, <1>5 DEF Read, Deliver, srvVars, wireVars, wrVars
<1>6. ASSUME NEW r \in Req, SlowConsumer(r) PROVE Writer'
  BY <1>0, <1>6 DEF SlowConsumer, Deliver, srvVars, wireVars, wrVars
<1>7. ASSUME NEW r \in Req, Timeout(r) PROVE Writer'
  BY <1>0, <1>7 DEF Timeout, Deliver, srvVars, wireVars, wrVars
<1>8. ASSUME NEW r \in Req, FetchOk(r) PROVE Writer'
  BY <1>0, <1>8 DEF FetchOk, Deliver, srvVars, wireVars, wrVars
<1>9. ASSUME NEW r \in Req, FetchErr(r) PROVE Writer'
  BY <1>0, <1>9 DEF FetchErr, Deliver, srvVars, wireVars, wrVars
<1>10. ASSUME NEW r \in Req, DeliverAborted(r) PROVE Writer'
  BY <1>0, <1>10 DEF DeliverAborted, Close, srvVars, wireVars, wrVars
<1>11. ASSUME NEW r \in Req, CtxDone(r) PROVE Writer'
  BY <1>0, <1>11 DEF CtxDone, Close, srvVars, wireVars, wrVars
<1>12. ASSUME NEW r \in Req, FailDropped(r) PROVE Writer'
  BY <1>0, <1>12 DEF FailDropped, Close, srvVars, wireVars, wrVars
<1>13. ASSUME NEW r \in Req, Malformed(r) PROVE Writer'
  BY <1>13 DEF TypeOK, Writer, Writing, Malformed, claim, srvVars, wireVars, wrVars
<1>14. ASSUME NEW r \in Req, StartHandler(r) PROVE Writer'
  BY <1>14 DEF TypeOK, Writer, Writing, StartHandler, Draining, srvVars, wireVars, wrVars
<1>15. ASSUME NEW r \in Req, Put(r) PROVE Writer'
  BY <1>15 DEF TypeOK, Writer, Writing, Put, srvVars, wireVars, wrVars
<1>16. ASSUME NEW r \in Req, EndClaimed(r) PROVE Writer'
  BY <1>16 DEF TypeOK, Writer, Writing, EndClaimed, Claims, claim, srvVars,
     wireVars, wrVars
<1>17. ASSUME NEW r \in Req, ClaimLost(r) PROVE Writer'
  BY <1>17 DEF TypeOK, Writer, Writing, ClaimLost, srvVars, wireVars, wrVars
<1>18. ASSUME NEW r \in Req, Delete(r) PROVE Writer'
  BY <1>18 DEF TypeOK, Writer, Writing, Delete, srvVars, wireVars, wrVars
<1>19. ASSUME NEW r \in Req, Respond(r) PROVE Writer'
  BY <1>19 DEF TypeOK, Writer, Writing, Respond, Sends, Arrives,
     Subscribed, srvVars, wireVars, wrVars
<1>20. ASSUME NEW r \in Req, WrapUp(r) PROVE Writer'
  BY <1>20 DEF TypeOK, Writer, Writing, WrapUp, claim, Closing, srvVars, wireVars, wrVars
<1>21. ASSUME NEW r \in Req, Finish(r) PROVE Writer'
  BY <1>21 DEF TypeOK, Writer, Writing, Finish, srvVars, wireVars, wrVars
<1>22. ASSUME NEW r \in Req, Err(r) PROVE Writer'
  BY <1>22 DEF TypeOK, Writer, Writing, Err, Calling, Count, Claims, claim, srvVars,
     wireVars, wrVars
<1>23. ASSUME NEW r \in Req, Ignored(r) PROVE Writer'
  BY <1>23 DEF TypeOK, Writer, Writing, Ignored, Calling, Count, srvVars, wireVars, wrVars
<1>24. ASSUME NEW r \in Req, Msg(r) PROVE Writer'
  BY <1>24 DEF TypeOK, Writer, Writing, Msg, Writing, srvVars, wireVars, wrVars
<1>25. ASSUME NEW r \in Req, End(r) PROVE Writer'
  BY <1>25 DEF TypeOK, Writer, Writing, End, Calling, Count, Claims, claim, srvVars,
     wireVars, wrVars
<1>26. ASSUME NEW r \in Req, EndOversize(r) PROVE Writer'
  BY <1>26 DEF TypeOK, Writer, Writing, EndOversize, Calling, Count, srvVars,
     wireVars, wrVars
<1>27. ASSUME NEW r \in Req, HandlerReturns(r) PROVE Writer'
  BY <1>27 DEF TypeOK, Writer, Writing, HandlerReturns, srvVars, wireVars, wrVars
<1>28. ASSUME NEW r \in Req, keepAliveLoop(r) PROVE Writer'
  BY <1>28 DEF TypeOK, Writer, Writing, keepAliveLoop, srvVars, wireVars, wrVars
<1>29. ASSUME NEW r \in Req, PublishMsg(r) PROVE Writer'
  <2>1. lock[r] \notin Terminal /\ tail[r] = <<>>
    BY <1>29 DEF TypeOK, Writer, Writing, PublishMsg, Terminal
  <2>2. UNCHANGED tail
    BY <1>29, <2>1 DEF TypeOK, PublishMsg, Publish, Sends, wireVars
  <2> QED
    BY <1>29, <2>2 DEF TypeOK, Writer, Writing, PublishMsg, srvVars
<1>30. ASSUME NEW r \in Req, PublishDenied(r) PROVE Writer'
  BY <1>30 DEF TypeOK, Writer, Writing, PublishDenied, Subscribed, srvVars,
     wireVars, wrVars
<1>31. ASSUME NEW r \in Req, SubscribeDenied(r) PROVE Writer'
  BY <1>0, <1>31 DEF SubscribeDenied, srvVars, wireVars, wrVars
<1>32. ASSUME NEW r \in Req, SubscriptionFailed(r) PROVE Writer'
  BY <1>0, <1>32 DEF SubscriptionFailed, Deliver, srvVars, wireVars, wrVars
<1>33. ASSUME NEW r \in Req, NoResponders(r) PROVE Writer'
  BY <1>33 DEF TypeOK, Writer, Writing, NoResponders, Arrives, Subscribed, srvVars,
     wireVars, wrVars
<1>34. ASSUME NEW r \in Req, Dispatch(r) PROVE Writer'
  BY <1>34 DEF TypeOK, Writer, Writing, Dispatch, beginRequest, Draining, srvVars,
     wireVars, wrVars
<1>35. ASSUME NEW r \in Req, refuseDrained(r) PROVE Writer'
  BY <1>35 DEF TypeOK, Writer, Writing, refuseDrained, beginRequest, Draining,
     Publish, Sends, Arrives, Subscribed, srvVars, wireVars, wrVars
<1>36. ASSUME NEW r \in Req, ClientCancelled(r) PROVE Writer'
  BY <1>0, <1>36 DEF ClientCancelled, srvVars, wireVars, wrVars
<1>37. CASE stopAllServices
  BY <1>0, <1>37 DEF stopAllServices, srvVars, wireVars, wrVars
<1>38. CASE SetDraining
  BY <1>0, <1>38 DEF SetDraining, srvVars, wireVars, wrVars
<1>39. CASE CancelBase
  BY <1>0, <1>39 DEF CancelBase, Writing, srvVars, wireVars, wrVars
<1>40. CASE DrainDone
  BY <1>0, <1>40 DEF DrainDone, srvVars, wireVars, wrVars
<1>41. CASE DrainTimedOut
  BY <1>0, <1>41 DEF DrainTimedOut, srvVars, wireVars, wrVars
<1>42. CASE Expire
  BY <1>0, <1>42 DEF Expire, srvVars, wireVars, wrVars
<1>43. CASE Quiet
  BY <1>0, <1>43 DEF Quiet, vars, srvVars, wireVars, wrVars
<1> QED
  BY <1>1, <1>2, <1>3, <1>4, <1>5, <1>6, <1>7, <1>8, <1>9, <1>10, <1>11, <1>12,
     <1>13, <1>14, <1>15, <1>16, <1>17, <1>18, <1>19, <1>20, <1>21, <1>22, <1>23,
     <1>24, <1>25, <1>26, <1>27, <1>28, <1>29, <1>30, <1>31, <1>32, <1>33, <1>34,
     <1>35, <1>36, <1>37, <1>38, <1>39, <1>40, <1>41, <1>42, <1>43
  DEF Next, Consumer, Pump, Serving, Handler, Nats, Shutdown

\* Every action keeps the wait group's count.
LEMMA DrainsStep ==
    ASSUME TypeOK, Held, Writer, Drains, Next
    PROVE  Drains'
<1>0. ASSUME UNCHANGED <<wg, phase, srv>> PROVE Drains'
  BY <1>0 DEF Drains, Busy
<1>1. ASSUME NEW r \in Req, Do(r) PROVE Drains'
  BY <1>0, <1>1 DEF Do, gwVars, srvVars
<1>2. ASSUME NEW r \in Req, Abandon(r) PROVE Drains'
  BY <1>0, <1>2 DEF Abandon, Subscribed, gwVars, srvVars
<1>3. ASSUME NEW r \in Req, Cancel(r) PROVE Drains'
  BY <1>0, <1>3 DEF Cancel, Subscribed, gwVars, srvVars
<1>4. ASSUME NEW r \in Req, Receive(r) PROVE Drains'
  BY <1>0, <1>4 DEF Receive, Close, gwVars, srvVars
<1>5. ASSUME NEW r \in Req, Read(r) PROVE Drains'
  BY <1>0, <1>5 DEF Read, Deliver, gwVars, srvVars
<1>6. ASSUME NEW r \in Req, SlowConsumer(r) PROVE Drains'
  BY <1>0, <1>6 DEF SlowConsumer, Deliver, gwVars, srvVars
<1>7. ASSUME NEW r \in Req, Timeout(r) PROVE Drains'
  BY <1>0, <1>7 DEF Timeout, Deliver, gwVars, srvVars
<1>8. ASSUME NEW r \in Req, FetchOk(r) PROVE Drains'
  BY <1>0, <1>8 DEF FetchOk, Deliver, gwVars, srvVars
<1>9. ASSUME NEW r \in Req, FetchErr(r) PROVE Drains'
  BY <1>0, <1>9 DEF FetchErr, Deliver, gwVars, srvVars
<1>10. ASSUME NEW r \in Req, DeliverAborted(r) PROVE Drains'
  BY <1>0, <1>10 DEF DeliverAborted, Close, gwVars, srvVars
<1>11. ASSUME NEW r \in Req, CtxDone(r) PROVE Drains'
  BY <1>0, <1>11 DEF CtxDone, Close, gwVars, srvVars
<1>12. ASSUME NEW r \in Req, FailDropped(r) PROVE Drains'
  BY <1>0, <1>12 DEF FailDropped, Close, gwVars, srvVars
<1>13. ASSUME NEW r \in Req, Malformed(r) PROVE Drains'
  BY <1>13 DEF TypeOK, Drains, Busy, Malformed, claim, gwVars, srvVars
<1>14. ASSUME NEW r \in Req, StartHandler(r) PROVE Drains'
  BY <1>14 DEF TypeOK, Drains, Busy, StartHandler, Draining, gwVars, srvVars
<1>15. ASSUME NEW r \in Req, Put(r) PROVE Drains'
  BY <1>15, ZenonT(30) DEF TypeOK, Drains, Busy, Put, gwVars, srvVars
<1>16. ASSUME NEW r \in Req, EndClaimed(r) PROVE Drains'
  BY <1>16 DEF TypeOK, Drains, Busy, EndClaimed, Claims, claim, gwVars, srvVars
<1>17. ASSUME NEW r \in Req, ClaimLost(r) PROVE Drains'
  BY <1>17 DEF TypeOK, Drains, Busy, ClaimLost, gwVars, srvVars
<1>18. ASSUME NEW r \in Req, Delete(r) PROVE Drains'
  BY <1>18 DEF TypeOK, Drains, Busy, Delete, gwVars, srvVars
<1>19. ASSUME NEW r \in Req, Respond(r) PROVE Drains'
  BY <1>19 DEF TypeOK, Drains, Busy, Respond, gwVars, srvVars
<1>20. ASSUME NEW r \in Req, WrapUp(r) PROVE Drains'
  BY <1>20, ZenonT(30) DEF TypeOK, Drains, Busy, WrapUp, claim, Closing, gwVars, srvVars
<1>21. ASSUME NEW r \in Req, Finish(r) PROVE Drains'
  <2>1. r \in Busy /\ Busy' = Busy \ {r}
    BY <1>21 DEF TypeOK, Busy, Finish
  <2>2. IsFiniteSet(Busy)
    BY ReqAssumption, FS_Subset DEF Busy
  <2>3. Cardinality(Busy') = Cardinality(Busy) - 1 /\ Cardinality(Busy) # 0
    BY <2>1, <2>2, FS_RemoveElement, FS_EmptySet
  <2> QED
    BY <1>21, <2>3 DEF Drains, Finish
<1>22. ASSUME NEW r \in Req, Err(r) PROVE Drains'
  BY <1>22 DEF TypeOK, Drains, Busy, Err, Calling, Count, Claims, claim, gwVars, srvVars
<1>23. ASSUME NEW r \in Req, Ignored(r) PROVE Drains'
  BY <1>23 DEF TypeOK, Drains, Busy, Ignored, Calling, Count, gwVars, srvVars
<1>24. ASSUME NEW r \in Req, Msg(r) PROVE Drains'
  BY <1>0, <1>24 DEF Msg, Writing, gwVars, srvVars
<1>25. ASSUME NEW r \in Req, End(r) PROVE Drains'
  BY <1>25 DEF TypeOK, Drains, Busy, End, Calling, Count, Claims, claim, gwVars, srvVars
<1>26. ASSUME NEW r \in Req, EndOversize(r) PROVE Drains'
  BY <1>26 DEF TypeOK, Drains, Busy, EndOversize, Calling, Count, gwVars, srvVars
<1>27. ASSUME NEW r \in Req, HandlerReturns(r) PROVE Drains'
  BY <1>27 DEF TypeOK, Drains, Busy, HandlerReturns, gwVars, srvVars
<1>28. ASSUME NEW r \in Req, keepAliveLoop(r) PROVE Drains'
  BY <1>0, <1>28 DEF keepAliveLoop, gwVars, srvVars
<1>29. ASSUME NEW r \in Req, PublishMsg(r) PROVE Drains'
  BY <1>0, <1>29 DEF PublishMsg, gwVars, srvVars
<1>30. ASSUME NEW r \in Req, PublishDenied(r) PROVE Drains'
  BY <1>0, <1>30 DEF PublishDenied, Subscribed, gwVars, srvVars
<1>31. ASSUME NEW r \in Req, SubscribeDenied(r) PROVE Drains'
  BY <1>0, <1>31 DEF SubscribeDenied, gwVars, srvVars
<1>32. ASSUME NEW r \in Req, SubscriptionFailed(r) PROVE Drains'
  BY <1>0, <1>32 DEF SubscriptionFailed, Deliver, gwVars, srvVars
<1>33. ASSUME NEW r \in Req, NoResponders(r) PROVE Drains'
  BY <1>0, <1>33 DEF NoResponders, Arrives, Subscribed, gwVars, srvVars
<1>34. ASSUME NEW r \in Req, Dispatch(r) PROVE Drains'
  <2>1. r \notin Busy /\ Busy' = Busy \cup {r}
    BY <1>34 DEF TypeOK, Writer, Busy, Dispatch
  <2>2. IsFiniteSet(Busy)
    BY ReqAssumption, FS_Subset DEF Busy
  <2>3. Cardinality(Busy') = Cardinality(Busy) + 1
    BY <2>1, <2>2, FS_AddElement
  <2>4. phase' # "clean"
    BY <1>34 DEF Dispatch, beginRequest, Draining
  <2> QED
    BY <1>34, <2>3, <2>4 DEF Drains, Dispatch
<1>35. ASSUME NEW r \in Req, refuseDrained(r) PROVE Drains'
  <2>1. Busy' = Busy
    BY <1>35 DEF TypeOK, Writer, Busy, refuseDrained
  <2> QED
    BY <1>35, <2>1 DEF Drains, refuseDrained, gwVars
<1>36. ASSUME NEW r \in Req, ClientCancelled(r) PROVE Drains'
  BY <1>0, <1>36 DEF ClientCancelled, gwVars, srvVars
<1>37. CASE stopAllServices
  BY <1>37 DEF TypeOK, Drains, Busy, stopAllServices, gwVars, srvVars
<1>38. CASE SetDraining
  BY <1>38 DEF TypeOK, Drains, Busy, SetDraining, gwVars, srvVars
<1>39. CASE CancelBase
  BY <1>39 DEF TypeOK, Drains, Busy, CancelBase, Writing, gwVars, srvVars
<1>40. CASE DrainDone
  BY <1>40 DEF TypeOK, Drains, Busy, DrainDone, gwVars, srvVars
<1>41. CASE DrainTimedOut
  BY <1>41 DEF TypeOK, Drains, Busy, DrainTimedOut, gwVars, srvVars
<1>42. CASE Expire
  BY <1>0, <1>42 DEF Expire, gwVars, srvVars
<1>43. CASE Quiet
  BY <1>0, <1>43 DEF Quiet, vars, gwVars, srvVars
<1> QED
  BY <1>1, <1>2, <1>3, <1>4, <1>5, <1>6, <1>7, <1>8, <1>9, <1>10, <1>11, <1>12,
     <1>13, <1>14, <1>15, <1>16, <1>17, <1>18, <1>19, <1>20, <1>21, <1>22, <1>23,
     <1>24, <1>25, <1>26, <1>27, <1>28, <1>29, <1>30, <1>31, <1>32, <1>33, <1>34,
     <1>35, <1>36, <1>37, <1>38, <1>39, <1>40, <1>41, <1>42, <1>43
  DEF Next, Consumer, Pump, Serving, Handler, Nats, Shutdown

\* A request that has no parked object in hand may go on as it likes.
LEMMA ClaimsKept ==
    ASSUME TypeOK, ClaimsReachable, NEW r \in Req, UNCHANGED <<store, left, ref>>,
           srv[r] \notin {"parked", "unpark"}, out[r] # "claim",
           \A q \in Req \ {r} : srv'[q] = srv[q] /\ out'[q] = out[q] /\ calls'[q] = calls[q]
    PROVE  ClaimsReachable'
<1> SUFFICES ASSUME NEW o \in store
             PROVE  \/ o \in left \/ ref[o[1]] = o[2]
                    \/ /\ calls'[o[1]] = o[2]
                       /\ srv'[o[1]] \in {"parked", "unpark"} \/ out'[o[1]] = "claim"
  BY DEF ClaimsReachable
<1>1. o[1] \in Req
  BY DEF TypeOK
<1>2. CASE o[1] = r
  BY <1>2 DEF ClaimsReachable
<1>3. CASE o[1] # r
  <2>1. \/ o \in left \/ ref[o[1]] = o[2]
        \/ calls[o[1]] = o[2] /\ (srv[o[1]] \in {"parked", "unpark"} \/ out[o[1]] = "claim")
    BY DEF ClaimsReachable
  <2>2. srv'[o[1]] = srv[o[1]] /\ out'[o[1]] = out[o[1]] /\ calls'[o[1]] = calls[o[1]]
    BY <1>1, <1>3
  <2> QED
    BY <2>1, <2>2
<1> QED
  BY <1>2, <1>3

\* Every action keeps the claim store accounted for.
LEMMA ParkedStep ==
    ASSUME TypeOK, Held, Writer, Parked, Next
    PROVE  Parked'
<1>0. ASSUME UNCHANGED <<srv, out, calls, done, ref, store, left>> PROVE Parked'
  BY <1>0 DEF Parked, ClaimsReachable
<1>1. ASSUME NEW r \in Req, Do(r) PROVE Parked'
  BY <1>0, <1>1 DEF Do, claimVars, srvVars, wrVars
<1>2. ASSUME NEW r \in Req, Abandon(r) PROVE Parked'
  BY <1>0, <1>2 DEF Abandon, Subscribed, claimVars, srvVars, wrVars
<1>3. ASSUME NEW r \in Req, Cancel(r) PROVE Parked'
  BY <1>0, <1>3 DEF Cancel, Subscribed, claimVars, srvVars, wrVars
<1>4. ASSUME NEW r \in Req, Receive(r) PROVE Parked'
  BY <1>0, <1>4 DEF Receive, Close, claimVars, srvVars, wrVars
<1>5. ASSUME NEW r \in Req, Read(r) PROVE Parked'
  BY <1>0, <1>5 DEF Read, Deliver, claimVars, srvVars, wrVars
<1>6. ASSUME NEW r \in Req, SlowConsumer(r) PROVE Parked'
  BY <1>0, <1>6 DEF SlowConsumer, Deliver, claimVars, srvVars, wrVars
<1>7. ASSUME NEW r \in Req, Timeout(r) PROVE Parked'
  BY <1>0, <1>7 DEF Timeout, Deliver, claimVars, srvVars, wrVars
<1>8. ASSUME NEW r \in Req, FetchOk(r) PROVE Parked'
  BY <1>8 DEF TypeOK, Parked, ClaimsReachable, FetchOk, Deliver, claimVars, srvVars,
     wrVars
<1>9. ASSUME NEW r \in Req, FetchErr(r) PROVE Parked'
  BY <1>0, <1>9 DEF FetchErr, Deliver, claimVars, srvVars, wrVars
<1>10. ASSUME NEW r \in Req, DeliverAborted(r) PROVE Parked'
  BY <1>0, <1>10 DEF DeliverAborted, Close, claimVars, srvVars, wrVars
<1>11. ASSUME NEW r \in Req, CtxDone(r) PROVE Parked'
  BY <1>0, <1>11 DEF CtxDone, Close, claimVars, srvVars, wrVars
<1>12. ASSUME NEW r \in Req, FailDropped(r) PROVE Parked'
  BY <1>0, <1>12 DEF FailDropped, Close, claimVars, srvVars, wrVars
<1>13. ASSUME NEW r \in Req, Malformed(r) PROVE Parked'
  <2>1. srv[r] = "dispatched" /\ ~done[r] /\ out[r] # "claim"
    BY <1>13 DEF Held, Malformed, claim
  <2>2. /\ UNCHANGED <<calls, store, left, ref>>
        /\ srv' = [srv EXCEPT ![r] = "last"] /\ out' = [out EXCEPT ![r] = "err"]
        /\ done' = [done EXCEPT ![r] = TRUE]
    BY <1>13 DEF Malformed, claim, claimVars
  <2>3. \A q \in Req \ {r} : srv'[q] = srv[q] /\ out'[q] = out[q] /\ calls'[q] = calls[q]
    BY <2>2 DEF TypeOK
  <2>4. ClaimsReachable'
    BY <2>1, <2>2, <2>3, ClaimsKept DEF Parked
  <2> QED
    BY <2>1, <2>2, <2>4 DEF TypeOK, Parked
<1>14. ASSUME NEW r \in Req, StartHandler(r) PROVE Parked'
  BY <1>14 DEF TypeOK, Parked, ClaimsReachable, StartHandler, Draining, claimVars,
     srvVars, wrVars
<1>15. ASSUME NEW r \in Req, Put(r) PROVE Parked'
  <2>1. CASE /\ store' = store \cup {<<r, calls[r]>>} /\ UNCHANGED left
             /\ srv' = [srv EXCEPT ![r] = "parked"]
    BY <1>15, <2>1 DEF TypeOK, Parked, ClaimsReachable, Put, wrVars
  <2>2. CASE UNCHANGED <<store, left>> /\ srv' = [srv EXCEPT ![r] = "oversize"]
    BY <1>15, <2>2 DEF TypeOK, Parked, ClaimsReachable, Put, wrVars
  <2>3. CASE /\ store' = store \cup {<<r, calls[r]>>}
             /\ left' = left \cup {<<r, calls[r]>>}
             /\ srv' = [srv EXCEPT ![r] = "oversize"]
    BY <1>15, <2>3 DEF TypeOK, Parked, ClaimsReachable, Put, wrVars
  <2> QED
    BY <1>15, <2>1, <2>2, <2>3 DEF Put
<1>16. ASSUME NEW r \in Req, EndClaimed(r) PROVE Parked'
  BY <1>16, SMTT(20) DEF TypeOK, Parked, ClaimsReachable, EndClaimed, Claims, claim,
     claimVars, srvVars, wrVars
<1>17. ASSUME NEW r \in Req, ClaimLost(r) PROVE Parked'
  BY <1>17 DEF TypeOK, Parked, ClaimsReachable, ClaimLost, claimVars, srvVars, wrVars
<1>18. ASSUME NEW r \in Req, Delete(r) PROVE Parked'
  BY <1>18 DEF TypeOK, Parked, ClaimsReachable, Delete, claimVars, srvVars, wrVars
<1>19. ASSUME NEW r \in Req, Respond(r) PROVE Parked'
  <2>1. /\ srv[r] \in {"publish", "last"} /\ done[r]
        /\ srv'[r] \in {"handling", "finish"} /\ out'[r] = "none"
        /\ \A q \in Req \ {r} : srv'[q] = srv[q] /\ out'[q] = out[q] /\ ref'[q] = ref[q]
        /\ UNCHANGED <<calls, done, store>>
    BY <1>19 DEF TypeOK, Writer, Respond, wrVars
  <2>2. CASE out[r] = "claim"
    <3>1. ref[r] = 0
      BY <2>2 DEF TypeOK, Parked
    <3>2. left \subseteq left' /\ (ref'[r] = calls[r] \/ \A o \in store : o = <<r, calls[r]>> => o \in left')
      BY <1>19, <2>2 DEF TypeOK, Respond
    <3>3. ClaimsReachable'
      <4> SUFFICES ASSUME NEW o \in store, o \notin left'
                   PROVE  \/ ref'[o[1]] = o[2]
                          \/ /\ calls[o[1]] = o[2]
                             /\ srv'[o[1]] \in {"parked", "unpark"} \/ out'[o[1]] = "claim"
        BY <2>1 DEF ClaimsReachable
      <4>1. o \in Req \X Nat /\ o[1] \in Req /\ o[2] # 0
        BY DEF TypeOK, Parked
      <4>2. \/ ref[o[1]] = o[2]
            \/ calls[o[1]] = o[2] /\ (srv[o[1]] \in {"parked", "unpark"} \/ out[o[1]] = "claim")
        BY <3>2 DEF Parked, ClaimsReachable
      <4>3. CASE o[1] = r
        BY <2>1, <3>1, <3>2, <4>1, <4>2, <4>3
      <4>4. CASE o[1] # r
        BY <2>1, <4>1, <4>2, <4>4
      <4> QED
        BY <4>3, <4>4
    <3> QED
      BY <2>1, <3>3 DEF Parked
  <2>3. CASE out[r] # "claim"
    <3>1. UNCHANGED <<left, ref>>
      <4>1. {o \in store : out[r] = "claim" /\ o = <<r, calls[r]>>} = {}
        BY <2>3
      <4>2. [ref EXCEPT ![r] = ref[r]] = ref
        BY DEF TypeOK
      <4> QED
        BY <1>19, <2>3, <4>1, <4>2 DEF Respond
    <3>2. ClaimsReachable'
      BY <2>1, <2>3, <3>1, ClaimsKept DEF Parked
    <3> QED
      BY <2>1, <3>1, <3>2 DEF Parked
  <2> QED
    BY <2>2, <2>3
<1>20. ASSUME NEW r \in Req, WrapUp(r) PROVE Parked'
  <2>1. srv[r] \in {"wrapup"} /\ out[r] # "claim"
    BY <1>20 DEF Held, WrapUp
  <2>2. /\ srv'[r] \in {"last", "finish"} /\ out'[r] # "claim"
        /\ srv'[r] = "put" => calls'[r] # 0
        /\ \A q \in Req \ {r} : srv'[q] = srv[q] /\ out'[q] = out[q] /\ calls'[q] = calls[q]
    BY <1>20, <2>1 DEF TypeOK, WrapUp, Closing, srvVars
  <2>3. \A q \in Req : done[q] => done'[q]
    BY <1>20, ZenonT(30) DEF TypeOK, WrapUp, claim, wrVars
  <2>4. UNCHANGED <<store, left, ref>>
    BY <1>20 DEF WrapUp, claimVars
  <2>5. ClaimsReachable'
    BY <2>1, <2>2, <2>4, ClaimsKept DEF Parked
  <2> QED
    BY <2>2, <2>3, <2>4, <2>5 DEF Parked
<1>21. ASSUME NEW r \in Req, Finish(r) PROVE Parked'
  BY <1>21 DEF TypeOK, Parked, ClaimsReachable, Finish, claimVars, srvVars, wrVars
<1>22. ASSUME NEW r \in Req, Err(r) PROVE Parked'
  <2>1. srv[r] \in {"handling", "oversize"} /\ out[r] # "claim"
    BY <1>22 DEF Held, Err, Calling, Count, Claims
  <2>2. /\ srv'[r] \in {"publish"} /\ out'[r] # "claim"
        /\ srv'[r] = "put" => calls'[r] # 0
        /\ \A q \in Req \ {r} : srv'[q] = srv[q] /\ out'[q] = out[q] /\ calls'[q] = calls[q]
    BY <1>22, <2>1 DEF TypeOK, Err, Calling, Count, Claims, Closing, srvVars
  <2>3. \A q \in Req : done[q] => done'[q]
    BY <1>22, ZenonT(30) DEF TypeOK, Err, Calling, Count, Claims, claim, wrVars
  <2>4. UNCHANGED <<store, left, ref>>
    BY <1>22 DEF Err, Calling, Count, Claims, claimVars
  <2>5. ClaimsReachable'
    BY <2>1, <2>2, <2>4, ClaimsKept DEF Parked
  <2> QED
    BY <2>2, <2>3, <2>4, <2>5 DEF Parked
<1>23. ASSUME NEW r \in Req, Ignored(r) PROVE Parked'
  <2>1. srv[r] \in {"handling", "oversize"} /\ out[r] # "claim"
    BY <1>23 DEF Held, Ignored, Calling, Count
  <2>2. /\ srv'[r] \in {"handling"} /\ out'[r] # "claim"
        /\ srv'[r] = "put" => calls'[r] # 0
        /\ \A q \in Req \ {r} : srv'[q] = srv[q] /\ out'[q] = out[q] /\ calls'[q] = calls[q]
    BY <1>23, <2>1 DEF TypeOK, Ignored, Calling, Count, Closing, srvVars
  <2>3. \A q \in Req : done[q] => done'[q]
    BY <1>23, ZenonT(30) DEF TypeOK, Ignored, Calling, Count, claim, wrVars
  <2>4. UNCHANGED <<store, left, ref>>
    BY <1>23 DEF Ignored, Calling, Count, claimVars
  <2>5. ClaimsReachable'
    BY <2>1, <2>2, <2>4, ClaimsKept DEF Parked
  <2> QED
    BY <2>2, <2>3, <2>4, <2>5 DEF Parked
<1>24. ASSUME NEW r \in Req, Msg(r) PROVE Parked'
  BY <1>0, <1>24 DEF Msg, Writing, claimVars, srvVars, wrVars
<1>25. ASSUME NEW r \in Req, End(r) PROVE Parked'
  <2>1. srv[r] \in {"handling"} /\ out[r] # "claim"
    BY <1>25 DEF Held, End, Calling, Count, Claims
  <2>2. /\ srv'[r] \in {"publish"} /\ out'[r] # "claim"
        /\ srv'[r] = "put" => calls'[r] # 0
        /\ \A q \in Req \ {r} : srv'[q] = srv[q] /\ out'[q] = out[q] /\ calls'[q] = calls[q]
    BY <1>25, <2>1 DEF TypeOK, End, Calling, Count, Claims, Closing, srvVars
  <2>3. \A q \in Req : done[q] => done'[q]
    BY <1>25, ZenonT(30) DEF TypeOK, End, Calling, Count, Claims, claim, wrVars
  <2>4. UNCHANGED <<store, left, ref>>
    BY <1>25 DEF End, Calling, Count, Claims, claimVars
  <2>5. ClaimsReachable'
    BY <2>1, <2>2, <2>4, ClaimsKept DEF Parked
  <2> QED
    BY <2>2, <2>3, <2>4, <2>5 DEF Parked
<1>26. ASSUME NEW r \in Req, EndOversize(r) PROVE Parked'
  <2>1. srv[r] \in {"handling"} /\ out[r] # "claim"
    BY <1>26 DEF Held, EndOversize, Calling, Count
  <2>2. /\ srv'[r] \in {"put", "oversize"} /\ out'[r] # "claim"
        /\ srv'[r] = "put" => calls'[r] # 0
        /\ \A q \in Req \ {r} : srv'[q] = srv[q] /\ out'[q] = out[q] /\ calls'[q] = calls[q]
    BY <1>26, <2>1 DEF TypeOK, EndOversize, Calling, Count, Closing, srvVars
  <2>3. \A q \in Req : done[q] => done'[q]
    BY <1>26, ZenonT(30) DEF TypeOK, EndOversize, Calling, Count, claim, wrVars
  <2>4. UNCHANGED <<store, left, ref>>
    BY <1>26 DEF EndOversize, Calling, Count, claimVars
  <2>5. ClaimsReachable'
    BY <2>1, <2>2, <2>4, ClaimsKept DEF Parked
  <2> QED
    BY <2>2, <2>3, <2>4, <2>5 DEF Parked
<1>27. ASSUME NEW r \in Req, HandlerReturns(r) PROVE Parked'
  BY <1>27 DEF TypeOK, Parked, ClaimsReachable, HandlerReturns, claimVars, srvVars, wrVars
<1>28. ASSUME NEW r \in Req, keepAliveLoop(r) PROVE Parked'
  BY <1>0, <1>28 DEF keepAliveLoop, claimVars, srvVars, wrVars
<1>29. ASSUME NEW r \in Req, PublishMsg(r) PROVE Parked'
  BY <1>0, <1>29 DEF PublishMsg, claimVars, srvVars, wrVars
<1>30. ASSUME NEW r \in Req, PublishDenied(r) PROVE Parked'
  BY <1>0, <1>30 DEF PublishDenied, Subscribed, claimVars, srvVars, wrVars
<1>31. ASSUME NEW r \in Req, SubscribeDenied(r) PROVE Parked'
  BY <1>0, <1>31 DEF SubscribeDenied, claimVars, srvVars, wrVars
<1>32. ASSUME NEW r \in Req, SubscriptionFailed(r) PROVE Parked'
  BY <1>0, <1>32 DEF SubscriptionFailed, Deliver, claimVars, srvVars, wrVars
<1>33. ASSUME NEW r \in Req, NoResponders(r) PROVE Parked'
  BY <1>0, <1>33 DEF NoResponders, Arrives, Subscribed, claimVars, srvVars, wrVars
<1>34. ASSUME NEW r \in Req, Dispatch(r) PROVE Parked'
  <2>1. srv[r] = "none"
    BY <1>34 DEF Writer, Dispatch
  <2> QED
    BY <1>34, <2>1 DEF TypeOK, Parked, ClaimsReachable, Dispatch, claimVars, wrVars
<1>35. ASSUME NEW r \in Req, refuseDrained(r) PROVE Parked'
  <2>1. srv[r] = "none"
    BY <1>35 DEF Writer, refuseDrained
  <2> QED
    BY <1>35, <2>1 DEF TypeOK, Parked, ClaimsReachable, refuseDrained, claimVars, wrVars
<1>36. ASSUME NEW r \in Req, ClientCancelled(r) PROVE Parked'
  BY <1>0, <1>36 DEF ClientCancelled, claimVars, srvVars, wrVars
<1>37. CASE stopAllServices
  BY <1>0, <1>37 DEF stopAllServices, claimVars, srvVars, wrVars
<1>38. CASE SetDraining
  BY <1>0, <1>38 DEF SetDraining, claimVars, srvVars, wrVars
<1>39. CASE CancelBase
  BY <1>0, <1>39 DEF CancelBase, Writing, claimVars, srvVars, wrVars
<1>40. CASE DrainDone
  BY <1>0, <1>40 DEF DrainDone, claimVars, srvVars, wrVars
<1>41. CASE DrainTimedOut
  BY <1>0, <1>41 DEF DrainTimedOut, claimVars, srvVars, wrVars
<1>42. CASE Expire
  BY <1>42 DEF TypeOK, Parked, ClaimsReachable, Expire, claimVars, srvVars, wrVars
<1>43. CASE Quiet
  BY <1>0, <1>43 DEF Quiet, vars, claimVars, srvVars, wrVars
<1> QED
  BY <1>1, <1>2, <1>3, <1>4, <1>5, <1>6, <1>7, <1>8, <1>9, <1>10, <1>11, <1>12,
     <1>13, <1>14, <1>15, <1>16, <1>17, <1>18, <1>19, <1>20, <1>21, <1>22, <1>23,
     <1>24, <1>25, <1>26, <1>27, <1>28, <1>29, <1>30, <1>31, <1>32, <1>33, <1>34,
     <1>35, <1>36, <1>37, <1>38, <1>39, <1>40, <1>41, <1>42, <1>43
  DEF Next, Consumer, Pump, Serving, Handler, Nats, Shutdown

\* A message that is no empty end frame, or whose caller has cancelled, arrives.
LEMMA ArrivesCancels ==
    ASSUME TypeOK, Cancels, NEW r \in Req,
           NEW m \in FrameKind \cup {"noresponders"}, m = "empty" => asked[r], Arrives(r, m)
    PROVE  \A q \in Req : \A i \in DOMAIN in'[q] : in'[q][i] = "empty" => asked[q]
<1>1. CASE UNCHANGED in
  BY <1>1 DEF Cancels
<1>2. CASE in' = [in EXCEPT ![r] = Append(@, m)]
  <2>1. in[r] \in Seq(FrameKind \cup {"noresponders"})
    BY DEF TypeOK
  <2>2. \A i \in DOMAIN Append(in[r], m) : Append(in[r], m)[i] = "empty" => asked[r]
    BY <2>1 DEF Cancels
  <2> QED
    BY <1>2, <2>2, SMTT(20) DEF TypeOK, Cancels
<1> QED
  BY <1>1, <1>2 DEF Arrives

\* And is published.
LEMMA PublishCancels ==
    ASSUME TypeOK, Cancels, NEW r \in Req,
           NEW f \in FrameKind, f = "empty" => asked[r], Publish(r, f)
    PROVE  \A q \in Req : \A i \in DOMAIN in'[q] : in'[q][i] = "empty" => asked[q]
<1>1. CASE UNCHANGED wireVars
  BY <1>1 DEF Cancels, wireVars
<1>2. CASE Arrives(r, f)
  BY <1>2, ArrivesCancels
<1> QED
  BY <1>1, <1>2 DEF Publish, Sends

\* Every action keeps the empty end frame for cancelled requests.
LEMMA CancelsStep ==
    ASSUME TypeOK, Held, Writer, Cancels, Next
    PROVE  Cancels'
<1>0. ASSUME UNCHANGED <<cause, out, in, hold, got, asked>> PROVE Cancels'
  BY <1>0 DEF Cancels
<1>1. ASSUME NEW r \in Req, Do(r) PROVE Cancels'
  BY <1>0, <1>1 DEF Do, cliVars, srvVars, wireVars
<1>2. ASSUME NEW r \in Req, Abandon(r) PROVE Cancels'
  BY <1>0, <1>2 DEF Abandon, Subscribed, cliVars, srvVars, wireVars
<1>3. ASSUME NEW r \in Req, Cancel(r) PROVE Cancels'
  BY <1>3 DEF TypeOK, Cancels, Cancel, Subscribed, cliVars, srvVars, wireVars
<1>4. ASSUME NEW r \in Req, Receive(r) PROVE Cancels'
  <2>1. \A q \in Req : \A i \in DOMAIN in'[q] : in'[q][i] = "empty" => asked[q]
    <3>1. CASE UNCHANGED wireVars
      BY <3>1 DEF Cancels, wireVars
    <3>2. CASE Close(r)
      BY <3>2 DEF TypeOK, Cancels, Close
    <3> QED
      BY <1>4, <3>1, <3>2 DEF Receive
  <2>2. \A q \in Req : \A i \in DOMAIN got'[q] : got'[q][i] = "empty" => asked[q]
    <3>1. got[r] \in Seq(Given) /\ hold[r] \in Given /\ (hold[r] = "empty" => asked[r])
      BY <1>4 DEF TypeOK, Held, Cancels, Receive
    <3>2. \A i \in DOMAIN Append(got[r], hold[r]) : Append(got[r], hold[r])[i] = "empty" => asked[r]
      BY <3>1 DEF Cancels
    <3> QED
      BY <1>4, <3>2, SMTT(20) DEF TypeOK, Cancels, Receive
  <2> QED
    BY <1>4, <2>1, <2>2, ZenonT(30) DEF TypeOK, Cancels, Receive, srvVars
<1>5. ASSUME NEW r \in Req, Read(r) PROVE Cancels'
  BY <1>5, SMTT(20) DEF TypeOK, Cancels, Read, Deliver, cliVars, srvVars, wireVars
<1>6. ASSUME NEW r \in Req, SlowConsumer(r) PROVE Cancels'
  BY <1>6 DEF TypeOK, Cancels, SlowConsumer, Deliver, cliVars, srvVars, wireVars
<1>7. ASSUME NEW r \in Req, Timeout(r) PROVE Cancels'
  BY <1>7 DEF TypeOK, Cancels, Timeout, Deliver, cliVars, srvVars, wireVars
<1>8. ASSUME NEW r \in Req, FetchOk(r) PROVE Cancels'
  BY <1>8 DEF TypeOK, Cancels, FetchOk, Deliver, cliVars, srvVars, wireVars
<1>9. ASSUME NEW r \in Req, FetchErr(r) PROVE Cancels'
  BY <1>9 DEF TypeOK, Cancels, FetchErr, Deliver, cliVars, srvVars, wireVars
<1>10. ASSUME NEW r \in Req, DeliverAborted(r) PROVE Cancels'
  BY <1>10 DEF TypeOK, Cancels, DeliverAborted, Close, cliVars, srvVars, wireVars
<1>11. ASSUME NEW r \in Req, CtxDone(r) PROVE Cancels'
  <2>1. CASE ctx[r] = "violated"
    BY <1>11, <2>1 DEF TypeOK, Cancels, CtxDone, srvVars, wireVars
  <2>2. CASE ctx[r] = "stopped"
    <3>1. in' = [in EXCEPT ![r] = <<>>] /\ UNCHANGED <<cause, out, hold, got, asked>>
      BY <1>11, <2>2 DEF CtxDone, Close, srvVars
    <3> QED
      BY <3>1 DEF TypeOK, Cancels
  <2> QED
    BY <1>11, <2>1, <2>2 DEF CtxDone
<1>12. ASSUME NEW r \in Req, FailDropped(r) PROVE Cancels'
  BY <1>12 DEF TypeOK, Cancels, FailDropped, Close, cliVars, srvVars, wireVars
<1>13. ASSUME NEW r \in Req, Malformed(r) PROVE Cancels'
  BY <1>13 DEF TypeOK, Cancels, Malformed, claim, cliVars, srvVars, wireVars
<1>14. ASSUME NEW r \in Req, StartHandler(r) PROVE Cancels'
  BY <1>14 DEF TypeOK, Cancels, StartHandler, Draining, cliVars, srvVars, wireVars
<1>15. ASSUME NEW r \in Req, Put(r) PROVE Cancels'
  BY <1>0, <1>15 DEF Put, cliVars, srvVars, wireVars
<1>16. ASSUME NEW r \in Req, EndClaimed(r) PROVE Cancels'
  BY <1>16 DEF TypeOK, Cancels, EndClaimed, Claims, claim, cliVars, srvVars, wireVars
<1>17. ASSUME NEW r \in Req, ClaimLost(r) PROVE Cancels'
  BY <1>0, <1>17 DEF ClaimLost, cliVars, srvVars, wireVars
<1>18. ASSUME NEW r \in Req, Delete(r) PROVE Cancels'
  BY <1>0, <1>18 DEF Delete, cliVars, srvVars, wireVars
<1>19. ASSUME NEW r \in Req, Respond(r) PROVE Cancels'
  <2>1. out[r] \in FrameKind /\ (out[r] = "empty" => asked[r])
    BY <1>19 DEF Respond, Held, FrameKind, Cancels
  <2>2. \A q \in Req : \A i \in DOMAIN in'[q] : in'[q][i] = "empty" => asked[q]
    BY <1>19, <2>1, PublishCancels DEF Respond, Publish
  <2> QED
    BY <1>19, <2>2 DEF TypeOK, Cancels, Respond, cliVars, srvVars
<1>20. ASSUME NEW r \in Req, WrapUp(r) PROVE Cancels'
  BY <1>20 DEF TypeOK, Cancels, WrapUp, claim, Closing, cliVars, srvVars, wireVars
<1>21. ASSUME NEW r \in Req, Finish(r) PROVE Cancels'
  BY <1>0, <1>21 DEF Finish, cliVars, srvVars, wireVars
<1>22. ASSUME NEW r \in Req, Err(r) PROVE Cancels'
  BY <1>22 DEF TypeOK, Cancels, Err, Calling, Count, Claims, claim, cliVars,
     srvVars, wireVars
<1>23. ASSUME NEW r \in Req, Ignored(r) PROVE Cancels'
  BY <1>0, <1>23 DEF Ignored, Calling, Count, cliVars, srvVars, wireVars
<1>24. ASSUME NEW r \in Req, Msg(r) PROVE Cancels'
  BY <1>0, <1>24 DEF Msg, Writing, cliVars, srvVars, wireVars
<1>25. ASSUME NEW r \in Req, End(r) PROVE Cancels'
  BY <1>25 DEF TypeOK, Cancels, End, Calling, Count, Claims, claim, cliVars,
     srvVars, wireVars
<1>26. ASSUME NEW r \in Req, EndOversize(r) PROVE Cancels'
  BY <1>0, <1>26 DEF EndOversize, Calling, Count, cliVars, srvVars, wireVars
<1>27. ASSUME NEW r \in Req, HandlerReturns(r) PROVE Cancels'
  BY <1>0, <1>27 DEF HandlerReturns, cliVars, srvVars, wireVars
<1>28. ASSUME NEW r \in Req, keepAliveLoop(r) PROVE Cancels'
  BY <1>0, <1>28 DEF keepAliveLoop, cliVars, srvVars, wireVars
<1>29. ASSUME NEW r \in Req, PublishMsg(r) PROVE Cancels'
  <2>1. lock[r] \in FrameKind /\ (lock[r] = "empty" => asked[r])
    BY <1>29 DEF TypeOK, PublishMsg, FrameKind
  <2>2. \A q \in Req : \A i \in DOMAIN in'[q] : in'[q][i] = "empty" => asked[q]
    BY <1>29, <2>1, PublishCancels DEF PublishMsg
  <2> QED
    BY <1>29, <2>2 DEF TypeOK, Cancels, PublishMsg, cliVars, srvVars
<1>30. ASSUME NEW r \in Req, PublishDenied(r) PROVE Cancels'
  BY <1>0, <1>30 DEF PublishDenied, Subscribed, cliVars, srvVars, wireVars
<1>31. ASSUME NEW r \in Req, SubscribeDenied(r) PROVE Cancels'
  BY <1>0, <1>31 DEF SubscribeDenied, cliVars, srvVars, wireVars
<1>32. ASSUME NEW r \in Req, SubscriptionFailed(r) PROVE Cancels'
  BY <1>32 DEF TypeOK, Cancels, SubscriptionFailed, Deliver, cliVars, srvVars, wireVars
<1>33. ASSUME NEW r \in Req, NoResponders(r) PROVE Cancels'
  <2>1. \A q \in Req : \A i \in DOMAIN in'[q] : in'[q][i] = "empty" => asked[q]
    BY <1>33, ArrivesCancels DEF NoResponders
  <2> QED
    BY <1>33, <2>1 DEF TypeOK, Cancels, NoResponders, cliVars, srvVars
<1>34. ASSUME NEW r \in Req, Dispatch(r) PROVE Cancels'
  BY <1>0, <1>34 DEF Dispatch, beginRequest, Draining, cliVars, srvVars, wireVars
<1>35. ASSUME NEW r \in Req, refuseDrained(r) PROVE Cancels'
  <2>1. "err" \in FrameKind /\ ("err" = "empty" => asked[r])
    BY <1>35 DEF FrameKind, Terminal
  <2>2. \A q \in Req : \A i \in DOMAIN in'[q] : in'[q][i] = "empty" => asked[q]
    BY <1>35, <2>1, PublishCancels DEF refuseDrained
  <2> QED
    BY <1>35, <2>2 DEF TypeOK, Cancels, refuseDrained, cliVars, srvVars
<1>36. ASSUME NEW r \in Req, ClientCancelled(r) PROVE Cancels'
  BY <1>36 DEF TypeOK, Cancels, ClientCancelled, cliVars, srvVars, wireVars
<1>37. CASE stopAllServices
  BY <1>0, <1>37 DEF stopAllServices, cliVars, srvVars, wireVars
<1>38. CASE SetDraining
  BY <1>0, <1>38 DEF SetDraining, cliVars, srvVars, wireVars
<1>39. CASE CancelBase
  BY <1>39 DEF TypeOK, Cancels, CancelBase, Writing, cliVars, srvVars, wireVars
<1>40. CASE DrainDone
  BY <1>0, <1>40 DEF DrainDone, cliVars, srvVars, wireVars
<1>41. CASE DrainTimedOut
  BY <1>0, <1>41 DEF DrainTimedOut, cliVars, srvVars, wireVars
<1>42. CASE Expire
  BY <1>0, <1>42 DEF Expire, cliVars, srvVars, wireVars
<1>43. CASE Quiet
  BY <1>0, <1>43 DEF Quiet, vars, cliVars, srvVars, wireVars
<1> QED
  BY <1>1, <1>2, <1>3, <1>4, <1>5, <1>6, <1>7, <1>8, <1>9, <1>10, <1>11, <1>12,
     <1>13, <1>14, <1>15, <1>16, <1>17, <1>18, <1>19, <1>20, <1>21, <1>22, <1>23,
     <1>24, <1>25, <1>26, <1>27, <1>28, <1>29, <1>30, <1>31, <1>32, <1>33, <1>34,
     <1>35, <1>36, <1>37, <1>38, <1>39, <1>40, <1>41, <1>42, <1>43
  DEF Next, Consumer, Pump, Serving, Handler, Nats, Shutdown

\* Every action keeps the end honest: only Respond and the refusal of a drained
\* request put a terminal frame on a subject, which is then still empty.
LEMMA HonestStep ==
    ASSUME TypeOK, Held, Writer, Cancels, OneHonestEnd, Next
    PROVE  OneHonestEnd'
<1>0. ASSUME UNCHANGED <<tail, asked>> PROVE OneHonestEnd'
  BY <1>0 DEF OneHonestEnd
<1>1. ASSUME NEW r \in Req, NEW f \in Terminal, f = "empty" => asked[r],
             tail[r] = <<>>, Publish(r, f), UNCHANGED asked
      PROVE  OneHonestEnd'
  <2>1. tail' = tail \/ tail' = [tail EXCEPT ![r] = <<f>>]
    BY <1>1 DEF Publish, Sends, wireVars
  <2>2. CASE tail' = [tail EXCEPT ![r] = <<f>>]
    <3>1. tail'[r] = <<f>> /\ \A q \in Req \ {r} : tail'[q] = tail[q]
      BY <2>2 DEF TypeOK
    <3> QED
      BY <1>1, <3>1 DEF OneHonestEnd
  <2> QED
    BY <1>0, <1>1, <2>1, <2>2
<1>2. ASSUME NEW r \in Req, Consumer(r) PROVE OneHonestEnd'
  <2>1. CASE Cancel(r)
    BY <2>1 DEF TypeOK, OneHonestEnd, Cancel, wireVars
  <2>2. CASE Do(r) \/ Abandon(r) \/ Receive(r)
    BY <1>0, <2>2 DEF Do, Abandon, Receive, Close, wireVars, cliVars
  <2> QED
    BY <1>2, <2>1, <2>2 DEF Consumer
<1>3. ASSUME NEW r \in Req, Pump(r) PROVE OneHonestEnd'
  BY <1>0, <1>3 DEF Pump, Read, SlowConsumer, Timeout, FetchOk, FetchErr, DeliverAborted,
     CtxDone, FailDropped, Close, wireVars
<1>4. ASSUME NEW r \in Req, Respond(r) PROVE OneHonestEnd'
  <2>1. out[r] \in Terminal /\ (out[r] = "empty" => asked[r]) /\ tail[r] = <<>>
    BY <1>4 DEF Respond, Held, Writer, Cancels
  <2>2. Publish(r, out[r]) /\ UNCHANGED asked
    BY <1>4 DEF Respond, Publish, cliVars
  <2> QED
    BY <1>1, <2>1, <2>2
<1>5. ASSUME NEW r \in Req, Serving(r) \/ Handler(r), ~Respond(r) PROVE OneHonestEnd'
  BY <1>0, <1>5 DEF Serving, Handler, Malformed, StartHandler, Put, EndClaimed, ClaimLost,
     Delete, WrapUp, Finish, Err, Ignored, Msg, End, EndOversize, HandlerReturns, Claims,
     wireVars, cliVars
<1>6. ASSUME NEW r \in Req, keepAliveLoop(r) PROVE OneHonestEnd'
  BY <1>0, <1>6 DEF keepAliveLoop, wireVars, cliVars
<1>7. ASSUME NEW r \in Req, PublishMsg(r) PROVE OneHonestEnd'
  <2>1. lock[r] \notin Terminal /\ tail[r] = <<>>
    BY <1>7 DEF TypeOK, Writer, Writing, PublishMsg, Terminal
  <2>2. UNCHANGED <<tail, asked>>
    BY <1>7, <2>1 DEF TypeOK, PublishMsg, Publish, Sends, wireVars, cliVars
  <2> QED
    BY <1>0, <2>2
<1>8. ASSUME NEW r \in Req, refuseDrained(r) PROVE OneHonestEnd'
  <2>1. tail[r] = <<>>
    BY <1>8 DEF Writer, refuseDrained
  <2> QED
    BY <1>1, <1>8, <2>1 DEF refuseDrained, Terminal, cliVars
<1>9. ASSUME NEW r \in Req, Nats(r), ~refuseDrained(r) PROVE OneHonestEnd'
  BY <1>0, <1>9 DEF Nats, PublishDenied, SubscribeDenied, SubscriptionFailed, NoResponders,
     Dispatch, ClientCancelled, wireVars, cliVars
<1>10. CASE Shutdown \/ Expire \/ Quiet
  BY <1>0, <1>10 DEF Shutdown, stopAllServices, SetDraining, CancelBase, DrainDone,
     DrainTimedOut, Expire, Quiet, vars, wireVars, cliVars
<1> QED
  BY <1>2, <1>3, <1>4, <1>5, <1>6, <1>7, <1>8, <1>9, <1>10 DEF Next

-----------------------------------------------------------------------------
(* The theorems *)

\* The invariant the proofs carry: each part needs the types, and the frames in
\* hand and the writer's protocol feed the others.
IInv == TypeOK /\ Held /\ Writer /\ Drains /\ Parked /\ Cancels /\ OneHonestEnd

\* It holds in every reachable state, for any number of requests and any bounds.
THEOREM ReplyInvariant == Spec => []IInv
<1>1. Init => IInv
  <2> SUFFICES ASSUME Init PROVE IInv
    OBVIOUS
  <2>1. TypeOK
    BY BoundAssumption DEF Init, TypeOK, SrvPC
  <2>2. Held /\ Writer
    BY DEF Init, Held, Writer, Writing
  <2>3. Busy = {}
    BY DEF Init, Busy
  <2>4. Drains
    BY <2>3, FS_EmptySet DEF Init, Drains
  <2>5. Parked
    BY DEF Init, Parked, ClaimsReachable
  <2>6. Cancels
    BY DEF Init, Cancels
  <2>7. OneHonestEnd
    BY DEF Init, OneHonestEnd
  <2> QED
    BY <2>1, <2>2, <2>4, <2>5, <2>6, <2>7 DEF IInv
<1>2. IInv /\ [Next]_vars => IInv'
  <2> SUFFICES ASSUME IInv, [Next]_vars PROVE IInv'
    OBVIOUS
  <2>1. CASE Next
    <3>1. Held' /\ Writer' /\ Drains' /\ Parked' /\ Cancels' /\ OneHonestEnd'
      BY <2>1, HeldStep, WriterStep, DrainsStep, ParkedStep, CancelsStep, HonestStep DEF IInv
    <3>2. wg' \in Nat
      <4>1. IsFiniteSet(Busy')
        BY ReqAssumption, FS_Subset DEF Busy
      <4> QED
        BY <3>1, <4>1, FS_CardinalityType DEF Drains
    <3> QED
      BY <2>1, <3>1, <3>2, TypeStep DEF IInv
  <2>2. CASE UNCHANGED vars
    <3> USE <2>2 DEF vars, gwVars, srvVars, wrVars, claimVars, wireVars, cliVars
    <3>1. TypeOK'
      BY DEF IInv, TypeOK
    <3>2. Held' /\ Writer'
      BY DEF IInv, Held, Writer, Writing
    <3>3. Drains'
      BY DEF IInv, Drains, Busy
    <3>4. Parked' /\ Cancels' /\ OneHonestEnd'
      BY DEF IInv, Parked, ClaimsReachable, Cancels, OneHonestEnd
    <3> QED
      BY <3>1, <3>2, <3>3, <3>4 DEF IInv
  <2> QED
    BY <2>1, <2>2
<1> QED
  BY <1>1, <1>2, PTL DEF Spec

\* Whatever the gateway, the client and the network do, every variable keeps
\* its type; in particular the wait group never goes negative.
THEOREM ReplyTypeCorrect == Spec => []TypeOK
<1>1. IInv => TypeOK
  BY DEF IInv
<1> QED
  BY <1>1, ReplyInvariant, PTL

\* No stream ever carries a frame behind its terminal frame, nor two terminal
\* frames (streamWriter.claim, Msg, ka, End, Err).
THEOREM TerminalIsLast == Spec => []NothingAfterTerminal
<1>1. IInv => NothingAfterTerminal
  BY DEF IInv, Writer, NothingAfterTerminal
<1> QED
  BY <1>1, ReplyInvariant, PTL

\* server.go:761 and 472: whoever gets to the end first, a reply subject carries
\* one terminal frame with nothing behind it, and tells a client its request was
\* cancelled only if it asked for that.
THEOREM EndsOnceHonestly == Spec => []OneHonestEnd
<1>1. IInv => OneHonestEnd
  BY DEF IInv
<1> QED
  BY <1>1, ReplyInvariant, PTL

\* A drain reported clean has no handler running, for any number of requests
\* (beginRequest, Shutdown).
THEOREM CleanDrain == Spec => []DrainClean
<1>1. IInv => DrainClean
  <2> SUFFICES ASSUME IInv, phase = "clean" PROVE wg = 0 /\ Busy = {}
    BY DEF DrainClean, Busy
  <2>1. wg = 0 /\ Cardinality(Busy) = 0
    BY DEF IInv, Drains
  <2>2. IsFiniteSet(Busy)
    BY ReqAssumption, FS_Subset DEF Busy
  <2> QED
    BY <2>1, <2>2, FS_EmptySet
<1> QED
  BY <1>1, ReplyInvariant, PTL

\* No claim is ever parked and forgotten (End, Put, Delete).
THEOREM NoClaimForgotten == Spec => []ClaimsReachable
<1>1. IInv => ClaimsReachable
  BY DEF IInv, Parked
<1> QED
  BY <1>1, ReplyInvariant, PTL

\* Only a caller that cancelled is told its request was cancelled (dispatch).
THEOREM EmptyEndIsHonest == Spec => []EmptyEndMeansCancelled
<1>1. IInv => EmptyEndMeansCancelled
  BY DEF IInv, Cancels, EmptyEndMeansCancelled
<1> QED
  BY <1>1, ReplyInvariant, PTL

\* A step of the detailed specification is, to a consumer, a step of Stream.
LEMMA StreamStep ==
    ASSUME TypeOK, Held, Next
    PROVE  [StreamOf!Next]_(StreamOf!vars)
<1>1. ASSUME NEW r \in Req, Do(r) PROVE StreamOf!Open(r)
  BY <1>1 DEF TypeOK, Do, Channel, Ended, StreamOf!Open
<1>2. ASSUME NEW r \in Req, Receive(r) PROVE StreamOf!Notify(r) \/ StreamOf!Terminate(r)
  <2>1. Channel[r] = "open" /\ hold[r] \in Given /\ Ended' = Ended
    BY <1>2 DEF TypeOK, Held, Receive, Channel, Ended
  <2>2. CASE hold[r] = "msg"
    <3>1. Channel' = Channel
      BY <1>2, <2>2, SMTT(20) DEF TypeOK, Receive, Channel
    <3> QED
      BY <1>2, <2>1, <2>2, <3>1 DEF Receive, StreamOf!Notify
  <2>3. CASE hold[r] # "msg"
    <3>1. cli' = [cli EXCEPT ![r] = "closed"]
      BY <1>2, <2>3 DEF Receive, Close
    <3>2. Channel' = [Channel EXCEPT ![r] = "closed"]
      BY <2>1, <3>1 DEF TypeOK, Channel
    <3> QED
      BY <1>2, <2>1, <2>3, <3>2 DEF Receive, StreamOf!Terminate
  <2> QED
    BY <2>2, <2>3
<1>3. ASSUME NEW r \in Req, Abandon(r) PROVE StreamOf!Cut
  <2>1. Channel' = Channel /\ UNCHANGED got
    BY <1>3 DEF Abandon, Channel
  <2>2. Ended' \ Ended \in SUBSET {q \in Req : Channel[q] = "open"}
    BY <1>3 DEF TypeOK, Abandon, Subscribed, Channel, Ended
  <2>3. Ended' = Ended \cup (Ended' \ Ended)
    BY <1>3 DEF TypeOK, Abandon, Ended
  <2> QED
    BY <2>1, <2>2, <2>3 DEF StreamOf!Cut
<1>4. ASSUME NEW r \in Req, PublishDenied(r) PROVE StreamOf!Cut
  <2>1. Channel' = Channel /\ UNCHANGED got
    BY <1>4 DEF PublishDenied, Channel
  <2>2. Ended' \ Ended \in SUBSET {q \in Req : Channel[q] = "open"}
    BY <1>4 DEF TypeOK, PublishDenied, Subscribed, Channel, Ended
  <2>3. Ended' = Ended \cup (Ended' \ Ended)
    BY <1>4 DEF TypeOK, PublishDenied, Ended
  <2> QED
    BY <2>1, <2>2, <2>3 DEF StreamOf!Cut
<1>5. ASSUME NEW r \in Req, SubscribeDenied(r) PROVE StreamOf!Cut
  <2>1. Channel' = Channel /\ UNCHANGED got
    BY <1>5 DEF SubscribeDenied, Channel
  <2>2. Ended' \ Ended \in SUBSET {q \in Req : Channel[q] = "open"}
    BY <1>5 DEF TypeOK, SubscribeDenied, Subscribed, Channel, Ended
  <2>3. Ended' = Ended \cup (Ended' \ Ended)
    BY <1>5 DEF TypeOK, SubscribeDenied, Ended
  <2> QED
    BY <2>1, <2>2, <2>3 DEF StreamOf!Cut
<1>6. ASSUME NEW r \in Req, DeliverAborted(r) PROVE StreamOf!Break(r)
  BY <1>6 DEF TypeOK, Held, DeliverAborted, Close, Channel, Ended, StreamOf!Break
<1>7. ASSUME NEW r \in Req, FailDropped(r) PROVE StreamOf!Break(r)
  BY <1>7 DEF TypeOK, Held, FailDropped, Close, Channel, Ended, StreamOf!Break
<1>8. ASSUME NEW r \in Req, CtxDone(r) PROVE StreamOf!Break(r) \/ UNCHANGED StreamOf!vars
  <2>1. CASE ctx[r] = "violated"
    <3>1. Channel' = Channel
      BY <1>8, <2>1 DEF TypeOK, CtxDone, Channel
    <3> QED
      BY <1>8, <3>1 DEF CtxDone, Ended, StreamOf!vars
  <2>2. CASE ctx[r] = "stopped"
    <3>1. cli[r] = "reading" /\ cli' = [cli EXCEPT ![r] = "closed"] /\ UNCHANGED <<ctx, got>>
      BY <1>8, <2>2 DEF CtxDone, Close
    <3> QED
      BY <2>2, <3>1 DEF TypeOK, Channel, Ended, StreamOf!Break
  <2> QED
    BY <1>8, <2>1, <2>2 DEF CtxDone
<1>9. ASSUME NEW r \in Req, Cancel(r) PROVE UNCHANGED StreamOf!vars
  BY <1>9 DEF Cancel, Subscribed, cliVars, Channel, Ended, StreamOf!vars
<1>10. ASSUME NEW r \in Req, Read(r) PROVE UNCHANGED StreamOf!vars
  BY <1>10, SMTT(20) DEF TypeOK, Read, Deliver, cliVars, Channel, Ended, StreamOf!vars
<1>11. ASSUME NEW r \in Req, SlowConsumer(r) PROVE UNCHANGED StreamOf!vars
  BY <1>11 DEF TypeOK, SlowConsumer, Deliver, cliVars, Channel, Ended, StreamOf!vars
<1>12. ASSUME NEW r \in Req, Timeout(r) PROVE UNCHANGED StreamOf!vars
  BY <1>12 DEF TypeOK, Timeout, Deliver, cliVars, Channel, Ended, StreamOf!vars
<1>13. ASSUME NEW r \in Req, FetchOk(r) PROVE UNCHANGED StreamOf!vars
  BY <1>13 DEF TypeOK, FetchOk, Deliver, cliVars, Channel, Ended, StreamOf!vars
<1>14. ASSUME NEW r \in Req, FetchErr(r) PROVE UNCHANGED StreamOf!vars
  BY <1>14 DEF TypeOK, FetchErr, Deliver, cliVars, Channel, Ended, StreamOf!vars
<1>15. ASSUME NEW r \in Req, Malformed(r) PROVE UNCHANGED StreamOf!vars
  BY <1>15 DEF Malformed, claim, cliVars, Channel, Ended, StreamOf!vars
<1>16. ASSUME NEW r \in Req, StartHandler(r) PROVE UNCHANGED StreamOf!vars
  BY <1>16 DEF StartHandler, Draining, cliVars, Channel, Ended, StreamOf!vars
<1>17. ASSUME NEW r \in Req, Put(r) PROVE UNCHANGED StreamOf!vars
  BY <1>17 DEF Put, cliVars, Channel, Ended, StreamOf!vars
<1>18. ASSUME NEW r \in Req, EndClaimed(r) PROVE UNCHANGED StreamOf!vars
  BY <1>18 DEF EndClaimed, Claims, claim, cliVars, Channel, Ended, StreamOf!vars
<1>19. ASSUME NEW r \in Req, ClaimLost(r) PROVE UNCHANGED StreamOf!vars
  BY <1>19 DEF ClaimLost, cliVars, Channel, Ended, StreamOf!vars
<1>20. ASSUME NEW r \in Req, Delete(r) PROVE UNCHANGED StreamOf!vars
  BY <1>20 DEF Delete, cliVars, Channel, Ended, StreamOf!vars
<1>21. ASSUME NEW r \in Req, Respond(r) PROVE UNCHANGED StreamOf!vars
  BY <1>21 DEF Respond, cliVars, Channel, Ended, StreamOf!vars
<1>22. ASSUME NEW r \in Req, WrapUp(r) PROVE UNCHANGED StreamOf!vars
  BY <1>22 DEF WrapUp, claim, Closing, cliVars, Channel, Ended, StreamOf!vars
<1>23. ASSUME NEW r \in Req, Finish(r) PROVE UNCHANGED StreamOf!vars
  BY <1>23 DEF Finish, cliVars, Channel, Ended, StreamOf!vars
<1>24. ASSUME NEW r \in Req, Err(r) PROVE UNCHANGED StreamOf!vars
  BY <1>24 DEF Err, Calling, Count, Claims, claim, cliVars, Channel, Ended, StreamOf!vars
<1>25. ASSUME NEW r \in Req, Ignored(r) PROVE UNCHANGED StreamOf!vars
  BY <1>25 DEF Ignored, Calling, Count, cliVars, Channel, Ended, StreamOf!vars
<1>26. ASSUME NEW r \in Req, Msg(r) PROVE UNCHANGED StreamOf!vars
  BY <1>26 DEF Msg, Writing, cliVars, Channel, Ended, StreamOf!vars
<1>27. ASSUME NEW r \in Req, End(r) PROVE UNCHANGED StreamOf!vars
  BY <1>27 DEF End, Calling, Count, Claims, claim, cliVars, Channel, Ended, StreamOf!vars
<1>28. ASSUME NEW r \in Req, EndOversize(r) PROVE UNCHANGED StreamOf!vars
  BY <1>28 DEF EndOversize, Calling, Count, cliVars, Channel, Ended, StreamOf!vars
<1>29. ASSUME NEW r \in Req, HandlerReturns(r) PROVE UNCHANGED StreamOf!vars
  BY <1>29 DEF HandlerReturns, cliVars, Channel, Ended, StreamOf!vars
<1>30. ASSUME NEW r \in Req, keepAliveLoop(r) PROVE UNCHANGED StreamOf!vars
  BY <1>30 DEF keepAliveLoop, cliVars, Channel, Ended, StreamOf!vars
<1>31. ASSUME NEW r \in Req, PublishMsg(r) PROVE UNCHANGED StreamOf!vars
  BY <1>31 DEF PublishMsg, cliVars, Channel, Ended, StreamOf!vars
<1>32. ASSUME NEW r \in Req, SubscriptionFailed(r) PROVE UNCHANGED StreamOf!vars
  BY <1>32 DEF TypeOK, SubscriptionFailed, Deliver, cliVars, Channel, Ended, StreamOf!vars
<1>33. ASSUME NEW r \in Req, NoResponders(r) PROVE UNCHANGED StreamOf!vars
  BY <1>33 DEF NoResponders, Arrives, Subscribed, cliVars, Channel, Ended, StreamOf!vars
<1>34. ASSUME NEW r \in Req, Dispatch(r) PROVE UNCHANGED StreamOf!vars
  BY <1>34 DEF Dispatch, beginRequest, Draining, cliVars, Channel, Ended, StreamOf!vars
<1>35. ASSUME NEW r \in Req, refuseDrained(r) PROVE UNCHANGED StreamOf!vars
  BY <1>35 DEF refuseDrained, cliVars, Channel, Ended, StreamOf!vars
<1>36. ASSUME NEW r \in Req, ClientCancelled(r) PROVE UNCHANGED StreamOf!vars
  BY <1>36 DEF ClientCancelled, cliVars, Channel, Ended, StreamOf!vars
<1>37. ASSUME stopAllServices PROVE UNCHANGED StreamOf!vars
  BY <1>37 DEF stopAllServices, cliVars, Channel, Ended, StreamOf!vars
<1>38. ASSUME SetDraining PROVE UNCHANGED StreamOf!vars
  BY <1>38 DEF SetDraining, cliVars, Channel, Ended, StreamOf!vars
<1>39. ASSUME CancelBase PROVE UNCHANGED StreamOf!vars
  BY <1>39 DEF CancelBase, Writing, cliVars, Channel, Ended, StreamOf!vars
<1>40. ASSUME DrainDone PROVE UNCHANGED StreamOf!vars
  BY <1>40 DEF DrainDone, cliVars, Channel, Ended, StreamOf!vars
<1>41. ASSUME DrainTimedOut PROVE UNCHANGED StreamOf!vars
  BY <1>41 DEF DrainTimedOut, cliVars, Channel, Ended, StreamOf!vars
<1>42. ASSUME Expire PROVE UNCHANGED StreamOf!vars
  BY <1>42 DEF Expire, cliVars, Channel, Ended, StreamOf!vars
<1>43. ASSUME Quiet PROVE UNCHANGED StreamOf!vars
  BY <1>43 DEF Quiet, vars, cliVars, Channel, Ended, StreamOf!vars
<1> QED
  BY <1>1, <1>2, <1>3, <1>4, <1>5, <1>6, <1>7, <1>8, <1>9, <1>10, <1>11, <1>12,
     <1>13, <1>14, <1>15, <1>16, <1>17, <1>18, <1>19, <1>20, <1>21, <1>22, <1>23,
     <1>24, <1>25, <1>26, <1>27, <1>28, <1>29, <1>30, <1>31, <1>32, <1>33, <1>34,
     <1>35, <1>36, <1>37, <1>38, <1>39, <1>40, <1>41, <1>42, <1>43
  DEF Next, Consumer, Pump, Serving, Handler, Nats, Shutdown, StreamOf!Next

\* The gateway, the network and the client together implement wire.Stream:
\* notifications, one terminal frame, then a closed channel, unless the stream's
\* context has ended.
THEOREM StreamImplemented == Spec => StreamContract
<1>1. Init => StreamOf!Init
  BY DEF Init, Channel, Ended, StreamOf!Init
<1>2. IInv /\ [Next]_vars => [StreamOf!Next]_(StreamOf!vars)
  <2>1. ASSUME UNCHANGED vars PROVE UNCHANGED StreamOf!vars
    BY <2>1 DEF vars, cliVars, Channel, Ended, StreamOf!vars
  <2> QED
    BY <2>1, StreamStep DEF IInv
<1> QED
  BY <1>1, <1>2, ReplyInvariant, PTL DEF Spec, StreamContract, StreamOf!Spec
=============================================================================
