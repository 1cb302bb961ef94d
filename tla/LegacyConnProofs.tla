--------------------------- MODULE LegacyConnProofs ---------------------------
(***************************************************************************)
(* Safety of the legacy bridge, for any number of streams and requests and *)
(* any capacity of synth.                                                  *)
(*                                                                         *)
(* Three arguments, on one inductive invariant.  A list_changed read for a *)
(* stream is in exactly one place until Read returns it: still to be       *)
(* fanned out, in synth, among those that did not fit, or queued           *)
(* (Accounted), and each of those places is empty from some state of the   *)
(* read loop on (Placed).  What a stream hears of one follows its          *)
(* acknowledgment in synth, or was queued when synth had given the         *)
(* acknowledgment up (Announced).  A closure is queued or told for every   *)
(* stream still open once Close has run, and an inner connection that      *)
(* ended after Close was found closed when the error was sampled (Ending). *)
(***************************************************************************)
EXTENDS LegacyConn, FiniteSetTheorems, FunctionTheorems, SequenceTheorems, TLAPS

-----------------------------------------------------------------------------
(* Sequences *)

Occurs(m, q) == \E i \in DOMAIN q : q[i] = m

Positions(m, q) == {i \in DOMAIN q : q[i] = m}
Times(m, q) == Cardinality(Positions(m, q))

LEMMA PositionsFinite ==
    ASSUME NEW S, NEW q \in Seq(S), NEW m
    PROVE  /\ IsFiniteSet(Positions(m, q)) /\ Times(m, q) \in Nat
           /\ ~Occurs(m, q) => Times(m, q) = 0
<1>1. Positions(m, q) \in SUBSET (1 .. Len(q)) /\ Len(q) \in Nat
  BY LenProperties DEF Positions
<1>2. IsFiniteSet(Positions(m, q))
  <2>1. IsFiniteSet(1 .. Len(q))
    BY <1>1, FS_Interval
  <2>2. QED
    BY <1>1, <2>1, FS_Subset
<1>3. ~Occurs(m, q) => Positions(m, q) = {}
  BY DEF Occurs, Positions
<1>4. QED
  BY <1>2, <1>3, FS_EmptySet, FS_CardinalityType DEF Times

LEMMA OneTime ==
    ASSUME NEW x, NEW m
    PROVE  Times(m, <<x>>) = (IF x = m THEN 1 ELSE 0) /\ (Occurs(m, <<x>>) <=> x = m)
<1>1. DOMAIN <<x>> = {1} /\ <<x>>[1] = x
  OBVIOUS
<1>2. Positions(m, <<x>>) = (IF x = m THEN {1} ELSE {})
  BY <1>1 DEF Positions
<1>3. QED
  BY <1>1, <1>2, FS_EmptySet, FS_Singleton DEF Times, Occurs

\* A sequence's positions in a concatenation are shifted by what precedes it.
LEMMA Joined ==
    ASSUME NEW S, NEW p \in Seq(S), NEW q \in Seq(S), NEW m
    PROVE  /\ Times(m, p \o q) = Times(m, p) + Times(m, q)
           /\ Occurs(m, p \o q) <=> Occurs(m, p) \/ Occurs(m, q)
<1> DEFINE P == Positions(m, p)
           Q == Positions(m, q)
           shift == [i \in Q |-> Len(p) + i]
           R == {Len(p) + i : i \in Q}
<1>0. /\ Len(p) \in Nat /\ Len(q) \in Nat
      /\ DOMAIN p = 1 .. Len(p) /\ DOMAIN q = 1 .. Len(q)
      /\ p \o q \in Seq(S) /\ DOMAIN (p \o q) = 1 .. Len(p) + Len(q)
      /\ \A i \in 1 .. Len(p) + Len(q) :
             (p \o q)[i] = IF i <= Len(p) THEN p[i] ELSE q[i - Len(p)]
  BY LenProperties, ConcatProperties
<1>1. IsFiniteSet(P) /\ IsFiniteSet(Q) /\ Cardinality(P) \in Nat /\ Cardinality(Q) \in Nat
  BY PositionsFinite DEF Times
<1>2. Positions(m, p \o q) = P \cup R
  <2>1. ASSUME NEW i \in Positions(m, p \o q) PROVE i \in P \cup R
    <3>1. i \in 1 .. Len(p) + Len(q) /\ (p \o q)[i] = m
      BY <1>0, <2>1 DEF Positions
    <3>2. CASE i <= Len(p)
      BY <1>0, <3>1, <3>2 DEF Positions
    <3>3. CASE i > Len(p)
      <4>1. i - Len(p) \in Q /\ i = Len(p) + (i - Len(p))
        BY <1>0, <3>1, <3>3 DEF Positions
      <4>2. QED
        BY <4>1
    <3>4. QED
      BY <1>0, <3>1, <3>2, <3>3
  <2>2. ASSUME NEW i \in P PROVE i \in Positions(m, p \o q)
    BY <1>0, <2>2 DEF Positions
  <2>3. ASSUME NEW j \in Q PROVE Len(p) + j \in Positions(m, p \o q)
    <3>1. j \in 1 .. Len(q) /\ q[j] = m
      BY <1>0, <2>3 DEF Positions
    <3>2. Len(p) + j \in 1 .. Len(p) + Len(q) /\ ~(Len(p) + j <= Len(p)) /\ (Len(p) + j) - Len(p) = j
      BY <1>0, <3>1
    <3>3. (p \o q)[Len(p) + j] = m
      BY <1>0, <3>1, <3>2
    <3>4. QED
      BY <1>0, <3>2, <3>3 DEF Positions
  <2>4. QED
    BY <2>1, <2>2, <2>3
<1>3. Q \subseteq Nat /\ P \subseteq 1 .. Len(p) /\ \A j \in Q : j >= 1
  BY <1>0 DEF Positions
<1>4. P \cap R = {}
  BY <1>0, <1>3
<1>5. IsFiniteSet(R) /\ Cardinality(R) = Cardinality(Q)
  <2>1. shift \in Bijection(Q, R)
    BY <1>0, <1>3, Fun_IsBij
  <2>2. QED
    BY <1>1, <2>1, FS_Bijection DEF ExistsBijection
<1>6. Times(m, p \o q) = Times(m, p) + Times(m, q)
  <2>1. Cardinality(P \cup R) = Cardinality(P) + Cardinality(R) - Cardinality(P \cap R)
    BY <1>1, <1>5, FS_Union
  <2>2. Cardinality(P \cap R) = 0
    BY <1>4, FS_EmptySet
  <2>3. QED
    BY <1>1, <1>2, <1>5, <2>1, <2>2 DEF Times
<1>7. Occurs(m, p \o q) <=> Positions(m, p \o q) # {}
  BY DEF Occurs, Positions
<1>8. QED
  BY <1>2, <1>6, <1>7 DEF Occurs, Positions

LEMMA Appended ==
    ASSUME NEW S, NEW q \in Seq(S), NEW x \in S, NEW m
    PROVE  /\ Append(q, x) \in Seq(S)
           /\ Times(m, Append(q, x)) = Times(m, q) + (IF x = m THEN 1 ELSE 0)
           /\ Occurs(m, Append(q, x)) <=> Occurs(m, q) \/ x = m
<1>1. Append(q, x) = q \o <<x>> /\ <<x>> \in Seq(S) /\ Append(q, x) \in Seq(S)
  BY AppendIsConcat, AppendProperties
<1>2. /\ Times(m, q \o <<x>>) = Times(m, q) + Times(m, <<x>>)
      /\ Occurs(m, q \o <<x>>) <=> Occurs(m, q) \/ Occurs(m, <<x>>)
  BY <1>1, Joined
<1>3. Times(m, <<x>>) = (IF x = m THEN 1 ELSE 0) /\ (Occurs(m, <<x>>) <=> x = m)
  BY OneTime
<1>4. QED
  BY <1>1, <1>2, <1>3

LEMMA Taken ==
    ASSUME NEW S, NEW q \in Seq(S), q # <<>>, NEW m
    PROVE  /\ Head(q) \in S /\ Tail(q) \in Seq(S)
           /\ Times(m, Tail(q)) \in Nat
           /\ Times(m, q) = Times(m, Tail(q)) + (IF Head(q) = m THEN 1 ELSE 0)
           /\ Occurs(m, q) <=> Occurs(m, Tail(q)) \/ Head(q) = m
<1>1. Head(q) \in S /\ Tail(q) \in Seq(S) /\ <<Head(q)>> \in Seq(S)
  BY HeadTailProperties
<1>2. q = <<Head(q)>> \o Tail(q)
  <2>1. Len(Tail(q)) = Len(q) - 1 /\ \A i \in 1 .. Len(Tail(q)) : Tail(q)[i] = q[i + 1]
    BY HeadTailProperties
  <2>2. /\ Len(q) \in Nat \ {0} /\ <<Head(q)>> \o Tail(q) \in Seq(S)
        /\ Len(<<Head(q)>> \o Tail(q)) = Len(q)
    BY <1>1, <2>1, EmptySeq, ConcatProperties
  <2>3. ASSUME NEW i \in 1 .. Len(q) PROVE (<<Head(q)>> \o Tail(q))[i] = q[i]
    BY <1>1, <2>1, <2>2, ConcatProperties
  <2>4. QED
    BY <2>2, <2>3, SeqEqual
<1>3. Times(m, Tail(q)) \in Nat
  BY <1>1, PositionsFinite
<1>4. PICK h, t : h = Head(q) /\ t = Tail(q)
  OBVIOUS
<1>5. /\ Times(m, <<h>> \o t) = Times(m, <<h>>) + Times(m, t)
      /\ Occurs(m, <<h>> \o t) <=> Occurs(m, <<h>>) \/ Occurs(m, t)
  BY <1>1, <1>4, Joined
<1>6. Times(m, <<h>>) = (IF h = m THEN 1 ELSE 0) /\ (Occurs(m, <<h>>) <=> h = m)
  BY OneTime
<1>7. q = <<h>> \o t
  BY <1>2, <1>4
<1>8. /\ Times(m, q) = (IF h = m THEN 1 ELSE 0) + Times(m, t)
      /\ Occurs(m, q) <=> h = m \/ Occurs(m, t)
  BY <1>5, <1>6, <1>7
<1>9. Times(m, t) \in Nat
  BY <1>3, <1>4
<1>10. Times(m, q) = Times(m, t) + (IF h = m THEN 1 ELSE 0)
  BY <1>8, <1>9
<1>11. QED
  BY <1>1, <1>3, <1>4, <1>8, <1>10

-----------------------------------------------------------------------------
(* The inductive invariant *)

Ack(s) == Msg("ack", s)
Note(s) == Msg("note", s)
End(s) == Msg("end", s)

\* Where what was read for a stream is until Read returns it.
Accounted ==
    \A s \in Sub :
        owed[s] = Times("note", told[s]) + Times(Note(s), synth) + Times(Note(s), queued)
                     + Times(Note(s), overflow) + (IF s \in fan THEN 1 ELSE 0)

\* What the read loop has emptied on its way.
Placed ==
    /\ rd # "fan" => fan = {} /\ overflow = <<>>
    /\ rd \notin {"synth", "fan"} => \A s \in Sub : ~Occurs(Note(s), synth)
    /\ rd \notin {"synth", "queued"} => \A s \in Sub : ~Occurs(Note(s), queued)

Acked(s) == told[s] # <<>> \/ Occurs(Ack(s), synth)

\* A note in synth has the acknowledgment ahead of it.
Follows(s, q) == \A i \in DOMAIN q : q[i] = Note(s) => \E j \in 1 .. i - 1 : q[j] = Ack(s)

Announced ==
    \A s \in Sub :
        /\ told[s] # <<>> => Head(told[s]) # "note"
        /\ told[s] # <<>> \/ Follows(s, synth)
        /\ sub[s] \in {"register", "open"} => Acked(s)
        /\ s \in fan => Acked(s)
        /\ Occurs(Note(s), queued) => Acked(s)
        /\ Occurs(Note(s), overflow) => Acked(s)
        /\ rd = "queued" /\ Occurs(Note(s), queued) => told[s] # <<>>

Closed(s) == Occurs("end", told[s])

Ending ==
    /\ phase # "up" => ~closed /\ \A s \in Sub : sub[s] = "idle"
    /\ closing => closed
    /\ fate = "closed" => closed \/ phase = "failed"
    /\ readCh = Failed \/ rd \in {"sampled", "done"} \/ deferErr => fate # "alive"
    /\ \A s \in Sub :
          /\ listeners[s] # Unregistered => sub[s] = "open"
          /\ sub[s] = "open" => IF closed THEN Closed(s) \/ Occurs(End(s), queued)
                                          ELSE listeners[s] # Unregistered
          /\ /\ sub[s] = "open" /\ fate = "closed"
             /\ (rd = "sampled" /\ ~sampled) \/ rd = "done"
             => Closed(s)

LegacyInv == TypeOK /\ Accounted /\ Placed /\ Announced /\ Ending

-----------------------------------------------------------------------------
(* What the actions write *)

LEMMA Messages ==
    ASSUME NEW s \in Sub
    PROVE  /\ {Ack(s), Note(s), End(s)} \subseteq SynthMsg
           /\ \A r \in Req : Msg("resp", r) \in SynthMsg /\ r \notin Sub /\ r # None /\ s # r
           /\ \A t, u, x, y : Msg(t, x) = Msg(u, y) <=> t = u /\ x = y
           /\ s # None /\ Unregistered \notin SUBSET Kind
<1>1. s # None /\ \A r \in Req : r \notin Sub /\ r # None /\ s # r
  BY NoneAssumption, IdAssumption
<1>2. {None} \notin SUBSET Kind
  BY NoneAssumption
<1>3. \A t, u, x, y : Msg(t, x) = Msg(u, y) <=> t = u /\ x = y
  BY DEF Msg
<1>4. \A r \in Req : Msg("resp", r) \in SynthMsg
  BY DEF SynthMsg
<1>5. \A t \in {"ack", "note", "end"} : Msg(t, s) \in SynthMsg
  BY DEF SynthMsg
<1>6. QED
  BY <1>1, <1>2, <1>3, <1>4, <1>5 DEF Ack, Note, End, Unregistered

LEMMA SynthMessage ==
    ASSUME NEW m \in SynthMsg
    PROVE  \/ m.type \in {"ack", "note", "end"} /\ m.id \in Sub /\ m = Msg(m.type, m.id)
           \/ m.type = "resp" /\ m.id \in Req /\ m.id \notin Sub /\ m = Msg("resp", m.id)
BY IdAssumption DEF SynthMsg, Msg

\* A finite set as a sequence.
LEMMA SetAsSeq ==
    ASSUME NEW S, IsFiniteSet(S)
    PROVE  SetToSeq(S) \in Seq(S) /\ \A x \in S : Occurs(x, SetToSeq(S))
<1> DEFINE n == Cardinality(S)
<1>1. n \in Nat /\ ExistsBijection(1 .. n, S)
  BY FS_CardinalityType
<1>2. \E g \in [1 .. n -> S] : IsInjective(g)
  BY <1>1 DEF ExistsBijection, Bijection, Injection
<1>3. PICK g : g = SetToSeq(S)
  OBVIOUS
<1>4. g \in [1 .. n -> S] /\ IsInjective(g)
  BY <1>2, <1>3 DEF SetToSeq
<1>5. g \in Injection(1 .. n, S)
  BY <1>4 DEF Injection
<1>6. Cardinality(1 .. n) = n
  BY <1>1, FS_Interval
<1>7. g \in Surjection(1 .. n, S)
  BY <1>5, <1>6, FS_Injection
<1>8. \A x \in S : \E i \in 1 .. n : g[i] = x
  BY <1>7 DEF Surjection
<1>9. g \in Seq(S)
  BY <1>1, <1>4, SeqDef
<1>10. QED
  BY <1>3, <1>4, <1>8, <1>9 DEF Occurs

LEMMA ClosureMessages ==
    ASSUME TypeOK
    PROVE  /\ Closures(Registered) \in Seq(SynthMsg)
           /\ \A s \in Registered : Occurs(End(s), Closures(Registered))
           /\ \A s \in Sub : ~Occurs(Note(s), Closures(Registered))
<1> DEFINE E == {End(s) : s \in Registered}
<1>1. Registered \subseteq Sub /\ IsFiniteSet(Registered)
  BY IdAssumption, FS_Subset DEF Registered
<1>2. E = {Msg("end", s) : s \in Registered} /\ IsFiniteSet(E)
  <2>1. E = {Msg("end", s) : s \in Registered}
    BY DEF End
  <2>2. [s \in Registered |-> End(s)] \in Surjection(Registered, E)
    BY Fun_IsSurj
  <2>3. QED
    BY <1>1, <2>1, <2>2, FS_Surjection
<1>3. SetToSeq(E) \in Seq(E) /\ \A x \in E : Occurs(x, SetToSeq(E))
  BY <1>2, SetAsSeq
<1>4. Closures(Registered) = SetToSeq(E)
  BY <1>2 DEF Closures
<1>5. E \subseteq SynthMsg
  BY <1>1, Messages
<1>6. SetToSeq(E) \in Seq(SynthMsg)
  BY <1>3, <1>5, SeqMonotonic
<1>7. ASSUME NEW s \in Sub, Occurs(Note(s), SetToSeq(E)) PROVE FALSE
  <2>1. PICK i \in 1 .. Len(SetToSeq(E)) : SetToSeq(E)[i] = Note(s)
    BY <1>3, <1>7, LenProperties DEF Occurs
  <2>2. Note(s) \in E
    BY <1>3, <2>1, ElementOfSeq
  <2>3. QED
    BY <2>2 DEF Note, End, Msg
<1>8. QED
  BY <1>3, <1>4, <1>6, <1>7

\* What Read returns, and to whom.
LEMMA Returned ==
    ASSUME TypeOK, NEW m \in SynthMsg, Return(m)
    PROVE  /\ told' \in [Sub -> Seq({"ack", "note", "end"})]
           /\ req' \in [Req -> {"idle", "push", "recorded", "written", "unsent", "plain", "ttl",
                                "ttl 0", "failed", "cancelled", "late"}]
           /\ \A s \in Sub : told'[s] = IF m \in {Ack(s), Note(s), End(s)}
                                           THEN Append(told[s], m.type) ELSE told[s]
<1> DEFINE H == {"ack", "note", "end"}
<1>1. told \in [Sub -> Seq(H)]
  BY DEF TypeOK
<1>2. CASE m.id \in Sub
  <2>1. m.type \in H /\ m = Msg(m.type, m.id)
    BY <1>2, SynthMessage
  <2>2. told' = [told EXCEPT ![m.id] = Append(told[m.id], m.type)]
    BY <1>2 DEF Return
  <2>3. Append(told[m.id], m.type) \in Seq(H)
    BY <1>1, <1>2, <2>1, AppendProperties
  <2>4. told' \in [Sub -> Seq(H)]
    BY <1>1, <2>2, <2>3
  <2>5. ASSUME NEW s \in Sub
        PROVE  told'[s] = IF m \in {Ack(s), Note(s), End(s)} THEN Append(told[s], m.type) ELSE told[s]
    <3>1. m \in {Ack(s), Note(s), End(s)} <=> s = m.id
      BY <2>1 DEF Ack, Note, End, Msg
    <3>2. QED
      BY <1>1, <2>2, <3>1
  <2>6. QED
    BY <2>4, <2>5 DEF Return, TypeOK
<1>3. CASE m.id \notin Sub
  <2>1. told' = told
    BY <1>3 DEF Return
  <2>2. ASSUME NEW s \in Sub PROVE m \notin {Ack(s), Note(s), End(s)}
    BY <1>3 DEF Ack, Note, End, Msg
  <2>3. QED
    BY <1>1, <2>1, <2>2 DEF Return, TypeOK
<1>4. QED
  BY <1>2, <1>3

-----------------------------------------------------------------------------
(* Types *)

Callers == Writes \/ PushGivesUp
           \/ (\E s \in Sub : Listen(s) \/ CancelListen(s))
           \/ (\E r \in Req : Discover(r) \/ Request(r) \/ CancelRequest(r))

Receives == ReceiveErr \/ PassThrough \/ Answer("resp") \/ Answer("error") \/ Changed

\* Which steps touch what.
LEMMA Frames ==
    ASSUME [Next]_vars
    PROVE  /\ \/ UNCHANGED <<phase, fate, readCh, changes>>
              \/ Connects \/ InnerReads \/ CloseInner \/ Die \/ StartRead \/ Receives
           /\ \/ UNCHANGED <<synth, queued, overflow>>
              \/ \E s \in Sub : PushAck(s) \/ FanOut(s)
              \/ \E r \in Req : PushDiscover(r)
              \/ PollSynth \/ PollQueued \/ SelectSynth \/ WithholdErr \/ FannedOut \/ Close
           /\ \/ UNCHANGED <<deferErr, sampled, closed, closing>>
              \/ ReturnDeferred \/ ReceiveErr \/ WithholdErr \/ Close \/ CloseInner
           /\ \/ UNCHANGED <<listeners, pending, sub, want, req, method>>
              \/ Callers \/ Close
              \/ PollSynth \/ PollQueued \/ SelectSynth \/ WithholdErr
              \/ Answer("resp") \/ Answer("error")
           /\ UNCHANGED <<rd, fan>> \/ Reads
           /\ \/ UNCHANGED <<told, owed>>
              \/ PollSynth \/ PollQueued \/ SelectSynth \/ WithholdErr \/ Changed
<1> USE DEF inner, queues, maps, loop, callers, history, vars
<1>1. ASSUME Connects
      PROVE  UNCHANGED <<synth, queued, deferErr, sampled, closed, closing, listeners, pending, sub, want,
                         req, method, overflow, rd, fan, told, owed>>
  BY <1>1 DEF Connects, handshake, handshakeFails, ConnectFails, Step
<1>2. ASSUME Callers
      PROVE  /\ UNCHANGED <<phase, fate, readCh, changes, queued, deferErr, sampled, closed, closing,
                            overflow, rd, fan, told, owed>>
             /\ UNCHANGED synth \/ (\E s \in Sub : PushAck(s)) \/ (\E r \in Req : PushDiscover(r))
  BY <1>2 DEF Callers, Writes, PushGivesUp, Listen, CancelListen, Discover, Request, CancelRequest,
              PushAck, Register, RegisterLate, PushDiscover, Send, SendFails, Unrecord
<1>3. ASSUME Receives
      PROVE  /\ UNCHANGED <<synth, queued, overflow, closed, closing, listeners, sub, want, method, told>>
             /\ UNCHANGED <<deferErr, sampled>> \/ ReceiveErr
             /\ UNCHANGED owed \/ Changed
             /\ UNCHANGED <<pending, req>> \/ Answer("resp") \/ Answer("error")
  BY <1>3 DEF Receives, ReceiveErr, PassThrough, Answer, Changed, Receive
<1>4. ASSUME PollSynth \/ PollQueued \/ SelectSynth \/ WithholdErr
      PROVE  UNCHANGED <<phase, fate, readCh, changes, overflow, closed, closing, listeners, pending, sub,
                         want, method, fan, owed>>
             /\ (UNCHANGED <<deferErr, sampled>> \/ WithholdErr)
  BY <1>4 DEF PollSynth, PollQueued, SelectSynth, WithholdErr
<1>5. ASSUME ReturnDeferred \/ StartRead \/ (\E s \in Sub : FanOut(s)) \/ FannedOut
      PROVE  /\ UNCHANGED <<phase, fate, changes, sampled, closed, closing, listeners, pending, sub, want,
                            req, method, told, owed>>
             /\ UNCHANGED deferErr \/ ReturnDeferred
             /\ UNCHANGED readCh \/ StartRead
             /\ UNCHANGED <<synth, queued, overflow>> \/ (\E s \in Sub : FanOut(s)) \/ FannedOut
  BY <1>5 DEF ReturnDeferred, StartRead, FanOut, FannedOut
<1>6. ASSUME InnerReads \/ CloseInner \/ Die
      PROVE  /\ UNCHANGED <<synth, queued, deferErr, sampled, closed, listeners, pending, sub, want,
                            req, method, overflow, rd, fan, told, owed>>
             /\ UNCHANGED closing \/ CloseInner
  BY <1>6 DEF InnerReads, InnerRead, InnerReadFails, CloseInner, Die
<1>7. ASSUME Close
      PROVE  UNCHANGED <<phase, fate, readCh, changes, synth, deferErr, sampled, overflow, rd, fan, told,
                         owed>>
  BY <1>7 DEF Close
<1>8. CASE UNCHANGED vars
  BY <1>8
<1>9. QED
  BY <1>1, <1>2, <1>3, <1>4, <1>5, <1>6, <1>7, <1>8 DEF Next, Reads, Callers, Receives, Environment

ConnTypes ==
    /\ phase \in {"write", "read", "refuse", "ready", "close", "failed", "up"}
    /\ fate \in {"alive", "crashed", "closed"}
    /\ readCh \in InnerMsg \cup {Idle, Reading, Failed}
    /\ changes \in 0 .. MaxChanged

QueueTypes ==
    /\ synth \in Seq(SynthMsg) /\ Len(synth) <= SynthCap
    /\ queued \in Seq(SynthMsg) /\ overflow \in Seq(SynthMsg)

FlagTypes ==
    deferErr \in BOOLEAN /\ sampled \in BOOLEAN /\ closed \in BOOLEAN /\ closing \in BOOLEAN

ReqPC == {"idle", "push", "recorded", "written", "unsent", "plain", "ttl", "ttl 0", "failed",
          "cancelled", "late"}

CallerTypes ==
    /\ listeners \in [Sub -> (SUBSET Kind) \cup {{None}}]
    /\ pending \subseteq Req
    /\ sub \in [Sub -> {"idle", "push", "register", "open", "failed", "cancelled"}]
    /\ want \in [Sub -> SUBSET Kind]
    /\ req \in [Req -> ReqPC]
    /\ method \in [Req -> Methods \cup {"discover", None}]

LoopTypes ==
    rd \in {"synth", "queued", "select", "sampled", "fan", "done"} /\ fan \subseteq Sub

ToldTypes == told \in [Sub -> Seq({"ack", "note", "end"})] /\ owed \in [Sub -> Nat]

LEMMA TypeParts ==
    TypeOK <=> ConnTypes /\ QueueTypes /\ FlagTypes /\ CallerTypes /\ LoopTypes /\ ToldTypes
<1>1. TypeOK => ConnTypes /\ QueueTypes /\ FlagTypes /\ CallerTypes /\ LoopTypes /\ ToldTypes
  BY Zenon DEF TypeOK, ConnTypes, QueueTypes, FlagTypes, CallerTypes, LoopTypes, ToldTypes, ReqPC
<1>2. ConnTypes /\ QueueTypes /\ FlagTypes /\ CallerTypes /\ LoopTypes /\ ToldTypes => TypeOK
  BY Zenon DEF TypeOK, ConnTypes, QueueTypes, FlagTypes, CallerTypes, LoopTypes, ToldTypes, ReqPC
<1>3. QED
  BY <1>1, <1>2

LEMMA ConnTyped == ASSUME TypeOK, [Next]_vars PROVE ConnTypes'
<1>0. ConnTypes
  BY TypeParts
<1>1. CASE UNCHANGED <<phase, fate, readCh, changes>>
  BY <1>0, <1>1 DEF ConnTypes
<1>2. CASE Connects
  BY <1>0, <1>2 DEF ConnTypes, Connects, handshake, handshakeFails, ConnectFails, Step
<1>3. CASE CloseInner \/ Die
  BY <1>0, <1>3 DEF ConnTypes, CloseInner, Die
<1>4. CASE InnerRead
  BY <1>0, <1>4, CapAssumption DEF ConnTypes, InnerRead, InnerMsg
<1>5. CASE InnerReadFails \/ StartRead \/ Receives
  BY <1>0, <1>5 DEF ConnTypes, InnerReadFails, StartRead, Receives, ReceiveErr, PassThrough, Answer, Changed,
                    Receive
<1>6. QED
  BY <1>1, <1>2, <1>3, <1>4, <1>5, Frames DEF InnerReads

LEMMA FlagTyped == ASSUME TypeOK, [Next]_vars PROVE FlagTypes'
<1>0. FlagTypes
  BY TypeParts
<1>1. CASE UNCHANGED <<deferErr, sampled, closed, closing>>
  BY <1>0, <1>1, Zenon DEF FlagTypes
<1>2. CASE ReturnDeferred
  BY <1>0, <1>2, Zenon DEF FlagTypes, ReturnDeferred, maps
<1>3. CASE ReceiveErr
  BY <1>0, <1>3 DEF FlagTypes, ReceiveErr, maps
<1>4. CASE WithholdErr
  BY <1>0, <1>4 DEF FlagTypes, WithholdErr, maps
<1>5. CASE Close
  BY <1>0, <1>5 DEF FlagTypes, Close, loop
<1>6. CASE CloseInner
  BY <1>0, <1>6 DEF FlagTypes, CloseInner, loop
<1>7. QED
  BY <1>1, <1>2, <1>3, <1>4, <1>5, <1>6, Frames

\* Taking the next message of a queue.
LEMMA SynthTaken ==
    ASSUME TypeOK, TakeSynth
    PROVE  /\ Head(synth) \in SynthMsg /\ synth # <<>> /\ synth' = Tail(synth)
           /\ Return(Head(synth)) /\ Tail(synth) \in Seq(SynthMsg) /\ Len(Tail(synth)) <= SynthCap
<1>1. synth \in Seq(SynthMsg) /\ Len(synth) <= SynthCap /\ synth # <<>>
  BY DEF TypeOK, TakeSynth
<1>2. /\ Head(synth) \in SynthMsg /\ Tail(synth) \in Seq(SynthMsg)
      /\ Len(Tail(synth)) = Len(synth) - 1 /\ Len(synth) \in Nat
  BY <1>1, HeadTailProperties, LenProperties
<1>3. QED
  BY <1>1, <1>2, CapAssumption DEF TakeSynth

LEMMA QueueTaken ==
    ASSUME TypeOK, PollQueued
    PROVE  /\ Head(queued) \in SynthMsg /\ queued # <<>> /\ queued' = Tail(queued)
           /\ Return(Head(queued)) /\ Tail(queued) \in Seq(SynthMsg)
<1>1. queued \in Seq(SynthMsg) /\ queued # <<>>
  BY DEF TypeOK, PollQueued
<1>2. QED
  BY <1>1, HeadTailProperties DEF PollQueued

LEMMA CallerTyped == ASSUME TypeOK, [Next]_vars PROVE CallerTypes'
<1>0. CallerTypes
  BY TypeParts
<1>1. CASE UNCHANGED <<listeners, pending, sub, want, req, method>>
  BY <1>0, <1>1 DEF CallerTypes
<1>2. ASSUME NEW s \in Sub, Listen(s) \/ PushAck(s) \/ Register(s) \/ RegisterLate(s) \/ CancelListen(s)
      PROVE  CallerTypes'
  BY <1>0, <1>2 DEF CallerTypes, Listen, PushAck, Register, RegisterLate, CancelListen, Unregistered, maps
<1>3. ASSUME NEW r \in Req, \/ Discover(r) \/ Request(r) \/ CancelRequest(r) \/ PushDiscover(r) \/ Send(r)
                            \/ SendFails(r) \/ Unrecord(r)
      PROVE  CallerTypes'
  BY <1>0, <1>3 DEF CallerTypes, Discover, Request, CancelRequest, PushDiscover, Send, SendFails, Unrecord,
                    maps, ReqPC
<1>4. CASE PushGivesUp
  BY <1>0, <1>4 DEF CallerTypes, PushGivesUp, maps, ReqPC
<1>5. CASE Close
  BY <1>0, <1>5 DEF CallerTypes, Close, callers, Unregistered
<1>6. ASSUME NEW m \in SynthMsg, Return(m), UNCHANGED <<listeners, pending, sub, want, method>>
      PROVE  CallerTypes'
  BY <1>0, <1>6, Returned DEF CallerTypes, ReqPC
<1>7. CASE PollSynth \/ PollQueued \/ SelectSynth \/ WithholdErr
  <2>1. UNCHANGED <<listeners, pending, sub, want, method>>
    BY <1>7 DEF PollSynth, PollQueued, SelectSynth, WithholdErr, maps
  <2>2. UNCHANGED req \/ \E m \in SynthMsg : Return(m)
    BY <1>7, SynthTaken, QueueTaken DEF PollSynth, PollQueued, SelectSynth, WithholdErr
  <2>3. QED
    BY <1>1, <1>6, <2>1, <2>2
<1>8. ASSUME Answer("resp") \/ Answer("error") PROVE CallerTypes'
  <2>1. UNCHANGED <<listeners, sub, want, method>> /\ \E t : stampResult(readCh.id, t)
    BY <1>8 DEF Answer
  <2>2. QED
    BY <1>0, <2>1 DEF CallerTypes, stampResult, Freshness, ReqPC
<1>9. QED
  BY <1>1, <1>2, <1>3, <1>4, <1>5, <1>7, <1>8, Frames DEF Callers, Writes

LEMMA QueueTyped == ASSUME TypeOK, [Next]_vars PROVE QueueTypes'
<1>0. QueueTypes
  BY TypeParts
<1>1. CASE UNCHANGED <<synth, queued, overflow>>
  BY <1>0, <1>1 DEF QueueTypes
<1>2. ASSUME NEW m \in SynthMsg, Len(synth) < SynthCap, synth' = Append(synth, m),
             UNCHANGED <<queued, overflow>>
      PROVE  QueueTypes'
  <2>1. Len(synth) \in Nat /\ Len(synth') = Len(synth) + 1 /\ synth' \in Seq(SynthMsg)
    BY <1>0, <1>2, LenProperties, AppendProperties DEF QueueTypes
  <2>2. QED
    BY <1>0, <1>2, <2>1, CapAssumption DEF QueueTypes
<1>3. ASSUME NEW s \in Sub, PushAck(s) PROVE QueueTypes'
  BY <1>2, <1>3, Messages DEF PushAck, push, loop, Ack
<1>4. ASSUME NEW r \in Req, PushDiscover(r) PROVE QueueTypes'
  <2>1. Msg("resp", r) \in SynthMsg
    BY DEF SynthMsg
  <2>2. QED
    BY <1>2, <1>4, <2>1 DEF PushDiscover, push, loop
<1>5. ASSUME NEW s \in Sub, FanOut(s) PROVE QueueTypes'
  <2>1. Note(s) \in SynthMsg
    BY Messages
  <2>2. CASE Len(synth) < SynthCap
    BY <1>2, <1>5, <2>1, <2>2 DEF FanOut, Note
  <2>3. CASE ~(Len(synth) < SynthCap)
    <3>1. overflow' = Append(overflow, Note(s)) /\ UNCHANGED <<synth, queued>>
      BY <1>5, <2>3 DEF FanOut, Note
    <3>2. overflow' \in Seq(SynthMsg)
      BY <1>0, <2>1, <3>1, AppendProperties DEF QueueTypes
    <3>3. QED
      BY <1>0, <3>1, <3>2 DEF QueueTypes
  <2>4. QED
    BY <2>2, <2>3
<1>6. CASE PollSynth \/ SelectSynth \/ WithholdErr
  <2>1. UNCHANGED <<queued, overflow>> /\ (UNCHANGED synth \/ TakeSynth)
    BY <1>6 DEF PollSynth, SelectSynth, WithholdErr
  <2>2. QED
    BY <1>0, <2>1, SynthTaken DEF QueueTypes
<1>7. CASE PollQueued
  BY <1>0, <1>7, QueueTaken DEF QueueTypes, PollQueued
<1>8. CASE FannedOut
  <2>1. queued' = queued \o overflow /\ overflow' = <<>> /\ UNCHANGED synth
    BY <1>8 DEF FannedOut
  <2>2. queued' \in Seq(SynthMsg) /\ overflow' \in Seq(SynthMsg)
    BY <1>0, <2>1, ConcatProperties, EmptySeq DEF QueueTypes
  <2>3. QED
    BY <1>0, <2>1, <2>2 DEF QueueTypes
<1>9. CASE Close
  <2>1. queued' = queued \o Closures(Registered) /\ UNCHANGED <<synth, overflow>>
    BY <1>9 DEF Close, loop
  <2>2. Closures(Registered) \in Seq(SynthMsg)
    BY ClosureMessages
  <2>3. queued' \in Seq(SynthMsg)
    BY <1>0, <2>1, <2>2, ConcatProperties DEF QueueTypes
  <2>4. QED
    BY <1>0, <2>1, <2>3 DEF QueueTypes
<1>10. QED
  BY <1>1, <1>3, <1>4, <1>5, <1>6, <1>7, <1>8, <1>9, Frames

LEMMA TellTyped == ASSUME TypeOK, [Next]_vars PROVE LoopTypes' /\ ToldTypes'
<1>0. LoopTypes /\ ToldTypes
  BY TypeParts
<1>1. LoopTypes'
  <2>1. CASE UNCHANGED <<rd, fan>>
    BY <1>0, <2>1 DEF LoopTypes
  <2>2. CASE Reads
    BY <1>0, <2>2 DEF LoopTypes, Reads, PollSynth, PollQueued, ReturnDeferred, StartRead, SelectSynth,
          ReceiveErr, WithholdErr, PassThrough, Answer, Changed, FanOut, FannedOut, Goes
  <2>3. QED
    BY <2>1, <2>2, Frames
<1>2. ToldTypes'
  <2>1. CASE UNCHANGED <<told, owed>>
    BY <1>0, <2>1 DEF ToldTypes
  <2>2. CASE PollSynth \/ SelectSynth \/ WithholdErr \/ PollQueued
    <3>1. UNCHANGED owed /\ (UNCHANGED told \/ \E m \in SynthMsg : Return(m))
      BY <2>2, SynthTaken, QueueTaken DEF PollSynth, PollQueued, SelectSynth, WithholdErr
    <3>2. QED
      BY <1>0, <3>1, Returned DEF ToldTypes
  <2>3. CASE Changed
    BY <1>0, <2>3 DEF ToldTypes, Changed
  <2>4. QED
    BY <2>1, <2>2, <2>3, Frames
<1>3. QED
  BY <1>1, <1>2

LEMMA TypePreserved == ASSUME TypeOK, [Next]_vars PROVE TypeOK'
<1>1. ConnTypes' /\ QueueTypes' /\ FlagTypes' /\ CallerTypes' /\ LoopTypes' /\ ToldTypes'
  BY ConnTyped, QueueTyped, FlagTyped, CallerTyped, TellTyped
<1>2. QED
  BY <1>1, TypeParts, PTL

-----------------------------------------------------------------------------
(* Where a list_changed is *)

\* The sequences of the state, of the one shape the lemmas need.
LEMMA Sequenced ==
    ASSUME TypeOK
    PROVE  /\ synth \in Seq(SynthMsg) /\ queued \in Seq(SynthMsg) /\ overflow \in Seq(SynthMsg)
           /\ \A s \in Sub : /\ told[s] \in Seq({"ack", "note", "end"}) /\ Note(s) \in SynthMsg
                             /\ owed[s] \in Nat
                             /\ Times("note", told[s]) \in Nat /\ Times(Note(s), synth) \in Nat
                             /\ Times(Note(s), queued) \in Nat /\ Times(Note(s), overflow) \in Nat
<1>1. /\ synth \in Seq(SynthMsg) /\ queued \in Seq(SynthMsg) /\ overflow \in Seq(SynthMsg)
      /\ \A s \in Sub : told[s] \in Seq({"ack", "note", "end"}) /\ owed[s] \in Nat
  BY DEF TypeOK
<1>2. QED
  BY <1>1, PositionsFinite, Messages

\* Returning a message moves a note from a queue to what its stream was told.
LEMMA ToldNotes ==
    ASSUME TypeOK, NEW m \in SynthMsg, Return(m), NEW s \in Sub
    PROVE  Times("note", told'[s]) = Times("note", told[s]) + (IF m = Note(s) THEN 1 ELSE 0)
<1>1. told[s] \in Seq({"ack", "note", "end"}) /\ Times("note", told[s]) \in Nat
  BY Sequenced
<1>2. told'[s] = IF m \in {Ack(s), Note(s), End(s)} THEN Append(told[s], m.type) ELSE told[s]
  BY Returned
<1>3. CASE m \in {Ack(s), Note(s), End(s)}
  <2>1. m.type \in {"ack", "note", "end"} /\ (m.type = "note" <=> m = Note(s))
    BY <1>3 DEF Ack, Note, End, Msg
  <2>2. Times("note", Append(told[s], m.type))
            = Times("note", told[s]) + (IF m.type = "note" THEN 1 ELSE 0)
    BY <1>1, <2>1, Appended
  <2>3. QED
    BY <1>2, <1>3, <2>1, <2>2
<1>4. CASE m \notin {Ack(s), Note(s), End(s)}
  BY <1>1, <1>2, <1>4
<1>5. QED
  BY <1>3, <1>4

LEMMA AccountedPreserved ==
    ASSUME TypeOK, Accounted, Placed, [Next]_vars
    PROVE  Accounted'
<1> DEFINE Fan(s) == IF s \in fan THEN 1 ELSE 0
<1> SUFFICES ASSUME NEW s \in Sub
             PROVE  owed'[s] = Times("note", told'[s]) + Times(Note(s), synth') + Times(Note(s), queued')
                                   + Times(Note(s), overflow') + (IF s \in fan' THEN 1 ELSE 0)
  BY DEF Accounted, Note
<1>0. /\ synth \in Seq(SynthMsg) /\ queued \in Seq(SynthMsg) /\ overflow \in Seq(SynthMsg)
      /\ told[s] \in Seq({"ack", "note", "end"}) /\ Note(s) \in SynthMsg /\ owed[s] \in Nat
      /\ Times("note", told[s]) \in Nat /\ Times(Note(s), synth) \in Nat
      /\ Times(Note(s), queued) \in Nat /\ Times(Note(s), overflow) \in Nat
      /\ owed[s] = Times("note", told[s]) + Times(Note(s), synth) + Times(Note(s), queued)
                       + Times(Note(s), overflow) + (IF s \in fan THEN 1 ELSE 0)
  BY Sequenced DEF Accounted
<1>1. CASE UNCHANGED <<told, synth, queued, overflow, fan, owed>>
  BY <1>0, <1>1
<1>2. ASSUME NEW m \in SynthMsg, m # Note(s), synth' = Append(synth, m),
             UNCHANGED <<told, queued, overflow, fan, owed>>
      PROVE  Times(Note(s), synth') = Times(Note(s), synth)
  BY <1>0, <1>2, Appended
<1>3. CASE (\E x \in Sub : PushAck(x)) \/ \E r \in Req : PushDiscover(r)
  <2>1. \E m \in SynthMsg : m # Note(s) /\ synth' = Append(synth, m)
    <3>1. ASSUME NEW x \in Sub, PushAck(x) PROVE \E m \in SynthMsg : m # Note(s) /\ synth' = Append(synth, m)
      <4>1. Ack(x) \in SynthMsg /\ Ack(x) # Note(s)
        BY Messages DEF Ack, Note
      <4>2. QED
        BY <3>1, <4>1 DEF PushAck, push, Ack
    <3>2. ASSUME NEW r \in Req, PushDiscover(r) PROVE \E m \in SynthMsg : m # Note(s) /\ synth' = Append(synth, m)
      <4>1. Msg("resp", r) \in SynthMsg /\ Msg("resp", r) # Note(s)
        BY Messages DEF Note
      <4>2. QED
        BY <3>2, <4>1 DEF PushDiscover, push
    <3>3. QED
      BY <1>3, <3>1, <3>2
  <2>2. UNCHANGED <<told, queued, overflow, fan, owed>>
    BY <1>3 DEF PushAck, PushDiscover, loop, history
  <2>3. QED
    BY <1>0, <1>2, <2>1, <2>2
<1>4. ASSUME TakeSynth, UNCHANGED <<queued, overflow, fan, owed>>
      PROVE  owed'[s] = Times("note", told'[s]) + Times(Note(s), synth') + Times(Note(s), queued')
                            + Times(Note(s), overflow') + (IF s \in fan' THEN 1 ELSE 0)
  <2>1. Head(synth) \in SynthMsg /\ synth # <<>> /\ synth' = Tail(synth) /\ Return(Head(synth))
    BY <1>4, SynthTaken
  <2>2. Times("note", told'[s]) = Times("note", told[s]) + (IF Head(synth) = Note(s) THEN 1 ELSE 0)
    BY <2>1, ToldNotes
  <2>3. /\ Times(Note(s), Tail(synth)) \in Nat
        /\ Times(Note(s), synth) = Times(Note(s), Tail(synth)) + (IF Head(synth) = Note(s) THEN 1 ELSE 0)
    BY <1>0, <2>1, Taken
  <2>4. QED
    BY <1>0, <1>4, <2>1, <2>2, <2>3
<1>5. CASE PollSynth \/ SelectSynth \/ WithholdErr
  <2>1. UNCHANGED <<queued, overflow, fan, owed>> /\ (UNCHANGED <<synth, told>> \/ TakeSynth)
    BY <1>5 DEF PollSynth, SelectSynth, WithholdErr
  <2>2. QED
    BY <1>1, <1>4, <2>1
<1>6. CASE PollQueued
  <2>1. Head(queued) \in SynthMsg /\ queued # <<>> /\ queued' = Tail(queued) /\ Return(Head(queued))
    BY <1>6, QueueTaken
  <2>2. Times("note", told'[s]) = Times("note", told[s]) + (IF Head(queued) = Note(s) THEN 1 ELSE 0)
    BY <2>1, ToldNotes
  <2>3. /\ Times(Note(s), Tail(queued)) \in Nat
        /\ Times(Note(s), queued) = Times(Note(s), Tail(queued)) + (IF Head(queued) = Note(s) THEN 1 ELSE 0)
    BY <1>0, <2>1, Taken
  <2>4. UNCHANGED <<synth, overflow, fan, owed>>
    BY <1>6 DEF PollQueued
  <2>5. QED
    BY <1>0, <2>1, <2>2, <2>3, <2>4
<1>7. CASE Close
  <2>1. queued' = queued \o Closures(Registered) /\ UNCHANGED <<told, synth, overflow, fan, owed>>
    BY <1>7 DEF Close, loop
  <2>2. Closures(Registered) \in Seq(SynthMsg) /\ Times(Note(s), Closures(Registered)) = 0
    BY ClosureMessages, PositionsFinite
  <2>3. Times(Note(s), queued') = Times(Note(s), queued)
    BY <1>0, <2>1, <2>2, Joined
  <2>4. QED
    BY <1>0, <2>1, <2>3
<1>8. CASE Changed
  <2>1. /\ owed'[s] = (IF s \in fan' THEN owed[s] + 1 ELSE owed[s])
        /\ UNCHANGED <<told, synth, queued, overflow>> /\ rd = "select"
    BY <1>8 DEF Changed, queues, Receive
  <2>2. s \notin fan
    BY <2>1 DEF Placed
  <2>3. QED
    BY <1>0, <2>1, <2>2
<1>9. ASSUME NEW x \in Sub, FanOut(x)
      PROVE  owed'[s] = Times("note", told'[s]) + Times(Note(s), synth') + Times(Note(s), queued')
                            + Times(Note(s), overflow') + (IF s \in fan' THEN 1 ELSE 0)
  <2>1. /\ x \in fan /\ fan' = fan \ {x} /\ UNCHANGED <<told, queued, owed>>
        /\ \/ synth' = Append(synth, Note(x)) /\ UNCHANGED overflow
           \/ overflow' = Append(overflow, Note(x)) /\ UNCHANGED synth
    BY <1>9 DEF FanOut, Note, history
  <2>2. Note(x) \in SynthMsg /\ (Note(x) = Note(s) <=> x = s)
    BY Messages DEF Note
  <2>3. /\ Times(Note(s), Append(synth, Note(x))) = Times(Note(s), synth) + (IF Note(x) = Note(s) THEN 1 ELSE 0)
        /\ Times(Note(s), Append(overflow, Note(x))) = Times(Note(s), overflow) + (IF Note(x) = Note(s) THEN 1 ELSE 0)
    BY <1>0, <2>2, Appended
  <2>4. (IF s \in fan THEN 1 ELSE 0) = (IF s \in fan' THEN 1 ELSE 0) + (IF Note(x) = Note(s) THEN 1 ELSE 0)
    BY <2>1, <2>2
  <2>5. CASE synth' = Append(synth, Note(x)) /\ UNCHANGED overflow
    <3>1. Times(Note(s), synth') = Times(Note(s), synth) + (IF Note(x) = Note(s) THEN 1 ELSE 0)
      BY <2>3, <2>5
    <3>2. QED
      BY <1>0, <2>1, <2>4, <2>5, <3>1
  <2>6. CASE overflow' = Append(overflow, Note(x)) /\ UNCHANGED synth
    <3>1. Times(Note(s), overflow') = Times(Note(s), overflow) + (IF Note(x) = Note(s) THEN 1 ELSE 0)
      BY <2>3, <2>6
    <3>2. QED
      BY <1>0, <2>1, <2>4, <2>6, <3>1
  <2>7. QED
    BY <2>1, <2>5, <2>6
<1>10. CASE FannedOut
  <2>1. queued' = queued \o overflow /\ overflow' = <<>> /\ UNCHANGED <<told, synth, fan, owed>>
    BY <1>10 DEF FannedOut, history
  <2>2. Times(Note(s), <<>>) = 0
    <3>1. <<>> \in Seq(SynthMsg) /\ ~Occurs(Note(s), <<>>)
      BY EmptySeq DEF Occurs
    <3>2. QED
      BY <3>1, PositionsFinite
  <2>3. Times(Note(s), queued') = Times(Note(s), queued) + Times(Note(s), overflow)
    BY <1>0, <2>1, Joined
  <2>4. QED
    BY <1>0, <2>1, <2>2, <2>3
<1>11. \/ UNCHANGED <<told, synth, queued, overflow, fan, owed>>
       \/ (\E x \in Sub : PushAck(x) \/ FanOut(x)) \/ (\E r \in Req : PushDiscover(r))
       \/ PollSynth \/ PollQueued \/ SelectSynth \/ WithholdErr \/ FannedOut \/ Close \/ Changed
  <2>1. UNCHANGED fan \/ Changed \/ \E x \in Sub : FanOut(x)
    <3>1. ASSUME Reads PROVE UNCHANGED fan \/ Changed \/ \E x \in Sub : FanOut(x)
      BY <3>1 DEF Reads, PollSynth, PollQueued, ReturnDeferred, StartRead, SelectSynth, ReceiveErr, WithholdErr,
                  PassThrough, Answer, FannedOut
    <3>2. QED
      BY <3>1, Frames
  <2>2. QED
    BY <2>1, Frames
<1>12. QED
  BY <1>1, <1>3, <1>5, <1>6, <1>7, <1>8, <1>9, <1>10, <1>11

-----------------------------------------------------------------------------
(* What the read loop has emptied *)

\* What is pushed by a caller is no note.
LEMMA Pushed ==
    ASSUME TypeOK, (\E x \in Sub : PushAck(x)) \/ \E r \in Req : PushDiscover(r)
    PROVE  \E m \in SynthMsg : synth' = Append(synth, m) /\ \A s \in Sub : m # Note(s)
<1>1. ASSUME NEW x \in Sub, PushAck(x)
      PROVE  \E m \in SynthMsg : synth' = Append(synth, m) /\ \A s \in Sub : m # Note(s)
  <2>1. Ack(x) \in SynthMsg /\ \A s \in Sub : Ack(x) # Note(s)
    BY Messages DEF Ack, Note, Msg
  <2>2. QED
    BY <1>1, <2>1 DEF PushAck, push, Ack
<1>2. ASSUME NEW r \in Req, PushDiscover(r)
      PROVE  \E m \in SynthMsg : synth' = Append(synth, m) /\ \A s \in Sub : m # Note(s)
  <2>1. Msg("resp", r) \in SynthMsg /\ \A s \in Sub : Msg("resp", r) # Note(s)
    BY DEF SynthMsg, Note, Msg
  <2>2. QED
    BY <1>2, <2>1 DEF PushDiscover, push
<1>3. QED
  BY <1>1, <1>2

LEMMA Emptied == ASSUME NEW m PROVE ~Occurs(m, <<>>)
BY DEF Occurs

LEMMA QueuedByClose ==
    ASSUME TypeOK, Close, NEW s \in Sub
    PROVE  /\ Occurs(Note(s), queued') <=> Occurs(Note(s), queued)
           /\ Occurs(End(s), queued) \/ s \in Registered => Occurs(End(s), queued')
<1>1. queued' = queued \o Closures(Registered) /\ queued \in Seq(SynthMsg)
  BY Sequenced DEF Close
<1>2. /\ Closures(Registered) \in Seq(SynthMsg) /\ ~Occurs(Note(s), Closures(Registered))
      /\ s \in Registered => Occurs(End(s), Closures(Registered))
  BY ClosureMessages
<1>3. \A m : Occurs(m, queued') <=> Occurs(m, queued) \/ Occurs(m, Closures(Registered))
  BY <1>1, <1>2, Joined
<1>4. QED
  BY <1>2, <1>3

LEMMA PlacedPreserved ==
    ASSUME TypeOK, Placed, [Next]_vars
    PROVE  Placed'
<1>0. /\ synth \in Seq(SynthMsg) /\ queued \in Seq(SynthMsg)
      /\ rd \in {"synth", "queued", "select", "sampled", "fan", "done"}
  BY Sequenced DEF TypeOK
<1>1. ASSUME ~Reads
      PROVE  /\ UNCHANGED <<rd, fan, overflow>>
             /\ UNCHANGED synth \/ (\E x \in Sub : PushAck(x)) \/ \E r \in Req : PushDiscover(r)
             /\ UNCHANGED queued \/ Close
  <2>1. UNCHANGED <<rd, fan>>
    BY <1>1, Frames
  <2>2. /\ ~PollSynth /\ ~PollQueued /\ ~SelectSynth /\ ~WithholdErr /\ ~FannedOut
        /\ \A x \in Sub : ~FanOut(x)
    BY <1>1 DEF Reads
  <2>3. CASE Close
    BY <2>1, <2>3 DEF Close, loop
  <2>4. CASE ~Close
    <3>1. \/ UNCHANGED <<synth, queued, overflow>>
          \/ (\E x \in Sub : PushAck(x)) \/ \E r \in Req : PushDiscover(r)
      BY <2>2, <2>4, Frames
    <3>2. QED
      BY <2>1, <3>1 DEF PushAck, PushDiscover, loop
  <2>5. QED
    BY <2>3, <2>4
<1>2. CASE ~Reads
  <2>1. ASSUME NEW s \in Sub, ~Occurs(Note(s), synth) PROVE ~Occurs(Note(s), synth')
    <3>1. \/ UNCHANGED synth
          \/ \E m \in SynthMsg : synth' = Append(synth, m) /\ m # Note(s)
      BY <1>1, <1>2, Pushed
    <3>2. QED
      BY <1>0, <2>1, <3>1, Appended
  <2>2. ASSUME NEW s \in Sub, ~Occurs(Note(s), queued) PROVE ~Occurs(Note(s), queued')
    BY <1>1, <1>2, <2>2, QueuedByClose
  <2>3. QED
    BY <1>1, <1>2, <2>1, <2>2 DEF Placed, Note
<1>3. CASE PollSynth
  <2>1. UNCHANGED <<queued, fan, overflow>> /\ rd = "synth"
    BY <1>3 DEF PollSynth
  <2>2. rd' = "synth" \/ (rd' = "queued" /\ synth = <<>> /\ synth' = synth)
    BY <1>3 DEF PollSynth, Goes
  <2>3. QED
    BY <2>1, <2>2, Emptied DEF Placed, Note
<1>4. CASE PollQueued \/ SelectSynth
  <2>1. UNCHANGED <<fan, overflow>> /\ rd # "fan" /\ rd' = "synth"
    BY <1>4 DEF PollQueued, SelectSynth, Goes
  <2>2. QED
    BY <2>1 DEF Placed
<1>5. CASE ReturnDeferred \/ StartRead
  <2>1. UNCHANGED <<synth, queued, fan, overflow>> /\ queued = <<>> /\ rd = "queued" /\ rd' \in {"done", "select"}
    BY <1>5 DEF ReturnDeferred, StartRead, Goes, queues
  <2>2. QED
    BY <2>1, Emptied DEF Placed, Note
<1>6. CASE ReceiveErr \/ WithholdErr \/ PassThrough \/ Answer("resp") \/ Answer("error")
  <2>1. UNCHANGED <<fan, overflow, queued>> /\ rd \in {"select", "sampled"} /\ rd' \in {"synth", "sampled", "done"}
    BY <1>6 DEF ReceiveErr, WithholdErr, PassThrough, Answer, Receive, Goes, queues
  <2>2. UNCHANGED synth \/ rd' = "synth"
    BY <1>6 DEF ReceiveErr, WithholdErr, PassThrough, Answer, Goes, queues
  <2>3. QED
    BY <2>1, <2>2 DEF Placed, Note
<1>7. CASE Changed
  <2>1. UNCHANGED <<queued>> /\ rd = "select" /\ rd' = "fan"
    BY <1>7 DEF Changed, Receive, Goes, queues
  <2>2. QED
    BY <2>1 DEF Placed, Note
<1>8. CASE \E s \in Sub : FanOut(s)
  <2>1. UNCHANGED <<queued, rd>> /\ rd = "fan"
    BY <1>8 DEF FanOut
  <2>2. QED
    BY <2>1 DEF Placed, Note
<1>9. CASE FannedOut
  <2>1. fan' = {} /\ overflow' = <<>> /\ rd' = "synth"
    BY <1>9 DEF FannedOut, Goes
  <2>2. QED
    BY <2>1 DEF Placed
<1>10. QED
  BY <1>2, <1>3, <1>4, <1>5, <1>6, <1>7, <1>8, <1>9 DEF Reads

-----------------------------------------------------------------------------
(* What a stream hears first *)

\* How synth and what the streams were told change.
LEMMA SynthMoves ==
    ASSUME TypeOK, [Next]_vars
    PROVE  \/ /\ UNCHANGED told
              /\ \/ UNCHANGED synth
                 \/ \E m \in SynthMsg : /\ synth' = Append(synth, m)
                                        /\ \A s \in Sub : m = Note(s) => s \in fan
           \/ TakeSynth
           \/ PollQueued
<1>1. CASE UNCHANGED <<synth, queued, overflow>> /\ ~PollSynth /\ ~SelectSynth /\ ~WithholdErr
  <2>1. UNCHANGED told \/ PollQueued
    BY <1>1, Frames DEF Changed
  <2>2. QED
    BY <1>1, <2>1
<1>2. CASE (\E x \in Sub : PushAck(x)) \/ \E r \in Req : PushDiscover(r)
  <2>1. UNCHANGED told
    BY <1>2 DEF PushAck, PushDiscover, history
  <2>2. QED
    BY <1>2, <2>1, Pushed
<1>3. ASSUME NEW x \in Sub, FanOut(x)
      PROVE  UNCHANGED synth \/ \E m \in SynthMsg : /\ synth' = Append(synth, m)
                                                    /\ \A s \in Sub : m = Note(s) => s \in fan
  <2>1. Note(x) \in SynthMsg /\ x \in fan /\ \A s \in Sub : Note(x) = Note(s) => s = x
    BY <1>3, Messages DEF Note, FanOut
  <2>2. UNCHANGED synth \/ synth' = Append(synth, Note(x))
    BY <1>3 DEF FanOut, Note
  <2>3. QED
    BY <2>1, <2>2
<1>4. CASE \E x \in Sub : FanOut(x)
  <2>1. UNCHANGED told
    BY <1>4 DEF FanOut, history
  <2>2. QED
    BY <1>3, <1>4, <2>1
<1>5. CASE PollSynth \/ SelectSynth \/ WithholdErr
  BY <1>5 DEF PollSynth, SelectSynth, WithholdErr
<1>6. CASE FannedOut \/ Close
  BY <1>6 DEF FannedOut, Close, history
<1>7. QED
  BY <1>1, <1>2, <1>4, <1>5, <1>6, Frames

\* Nothing that was told is taken back.
LEMMA ToldGrows ==
    ASSUME TypeOK, [Next]_vars, NEW s \in Sub
    PROVE  /\ told[s] # <<>> => told'[s] # <<>> /\ Head(told'[s]) = Head(told[s])
           /\ Occurs("end", told[s]) => Occurs("end", told'[s])
<1> DEFINE H == {"ack", "note", "end"}
<1>1. told[s] \in Seq(H)
  BY Sequenced
<1>2. UNCHANGED told \/ \E m \in SynthMsg : Return(m)
  BY SynthMoves, SynthTaken, QueueTaken
<1>3. told'[s] = told[s] \/ \E t \in H : told'[s] = Append(told[s], t)
  <2>1. ASSUME NEW m \in SynthMsg, Return(m)
        PROVE  told'[s] = told[s] \/ \E t \in H : told'[s] = Append(told[s], t)
    <3>1. told'[s] = IF m \in {Ack(s), Note(s), End(s)} THEN Append(told[s], m.type) ELSE told[s]
      BY <2>1, Returned
    <3>2. m \in {Ack(s), Note(s), End(s)} => m.type \in H
      BY DEF Ack, Note, End, Msg
    <3>3. QED
      BY <3>1, <3>2
  <2>2. QED
    BY <1>2, <2>1
<1>4. ASSUME NEW t \in H, told'[s] = Append(told[s], t)
      PROVE  /\ told[s] # <<>> => told'[s] # <<>> /\ Head(told'[s]) = Head(told[s])
             /\ Occurs("end", told[s]) => Occurs("end", told'[s])
  <2>1. Occurs("end", told[s]) => Occurs("end", told'[s])
    BY <1>1, <1>4, Appended
  <2>2. PICK q \in Seq(H) : q = told[s]
    BY <1>1
  <2>3. /\ Append(q, t) \in Seq(H) /\ Len(Append(q, t)) = Len(q) + 1 /\ Len(q) \in Nat
        /\ \A i \in 1 .. Len(q) : Append(q, t)[i] = q[i]
    BY AppendProperties, LenProperties
  <2>4. Append(q, t) # <<>>
    BY <2>3, EmptySeq
  <2>5. q # <<>> => Head(Append(q, t)) = Head(q)
    BY <2>3, <2>4, HeadTailProperties, EmptySeq
  <2>6. QED
    BY <1>4, <2>1, <2>2, <2>4, <2>5
<1>5. QED
  BY <1>3, <1>4

\* What Return hands over, the stream has been told.
LEMMA Heard ==
    ASSUME TypeOK, NEW m \in SynthMsg, Return(m), NEW s \in Sub, m \in {Ack(s), Note(s), End(s)}
    PROVE  /\ told'[s] # <<>>
           /\ told[s] = <<>> => Head(told'[s]) = m.type
           /\ m = End(s) => Occurs("end", told'[s])
<1>1. told[s] \in Seq({"ack", "note", "end"}) /\ told'[s] = Append(told[s], m.type)
  BY Sequenced, Returned
<1>2. m.type \in {"ack", "note", "end"} /\ (m = End(s) => m.type = "end")
  BY DEF Ack, Note, End, Msg
<1>3. Append(told[s], m.type) # <<>> /\ (told[s] = <<>> => Head(Append(told[s], m.type)) = m.type)
  BY <1>1, <1>2
<1>4. m = End(s) => Occurs("end", Append(told[s], m.type))
  BY <1>1, <1>2, Appended
<1>5. QED
  BY <1>1, <1>3, <1>4

LEMMA AckedStays ==
    ASSUME TypeOK, [Next]_vars, NEW s \in Sub, Acked(s)
    PROVE  told'[s] # <<>> \/ Occurs(Ack(s), synth')
<1>1. CASE told[s] # <<>>
  BY <1>1, ToldGrows
<1>2. CASE told[s] = <<>>
  <2>1. Occurs(Ack(s), synth) /\ synth \in Seq(SynthMsg)
    BY <1>2, Sequenced DEF Acked
  <2>2. ASSUME NEW m \in SynthMsg, synth' = Append(synth, m) PROVE Occurs(Ack(s), synth')
    BY <2>1, <2>2, Appended
  <2>3. CASE TakeSynth
    <3>1. /\ Head(synth) \in SynthMsg /\ synth # <<>> /\ synth' = Tail(synth)
          /\ Return(Head(synth))
      BY <2>3, SynthTaken
    <3>2. Occurs(Ack(s), Tail(synth)) \/ Head(synth) = Ack(s)
      BY <2>1, <3>1, Taken
    <3>3. QED
      BY <3>1, <3>2, Heard
  <2>4. CASE PollQueued
    BY <2>1, <2>4 DEF PollQueued
  <2>5. QED
    BY <2>1, <2>2, <2>3, <2>4, SynthMoves
<1>3. QED
  BY <1>1, <1>2

\* A note is pushed behind the acknowledgment, and one at the head is behind none.
LEMMA FollowsAppend ==
    ASSUME NEW q \in Seq(SynthMsg), NEW m \in SynthMsg, NEW s, Follows(s, q),
           m = Note(s) => Occurs(Ack(s), q)
    PROVE  Follows(s, Append(q, m))
<1>1. /\ Len(q) \in Nat /\ DOMAIN q = 1 .. Len(q) /\ DOMAIN Append(q, m) = 1 .. Len(q) + 1
      /\ \A i \in 1 .. Len(q) : Append(q, m)[i] = q[i]
      /\ Append(q, m)[Len(q) + 1] = m
  BY LenProperties, AppendProperties
<1>2. ASSUME NEW i \in 1 .. Len(q) + 1, Append(q, m)[i] = Note(s)
      PROVE  \E j \in 1 .. i - 1 : Append(q, m)[j] = Ack(s)
  <2>1. CASE i \in 1 .. Len(q)
    <3>1. PICK j \in 1 .. i - 1 : q[j] = Ack(s)
      BY <1>1, <1>2, <2>1 DEF Follows
    <3>2. j \in 1 .. Len(q)
      BY <1>1, <2>1
    <3>3. QED
      BY <1>1, <3>1, <3>2
  <2>2. CASE i = Len(q) + 1
    <3>1. PICK j \in DOMAIN q : q[j] = Ack(s)
      BY <1>1, <1>2, <2>2 DEF Occurs
    <3>2. j \in 1 .. i - 1
      BY <1>1, <2>2
    <3>3. QED
      BY <1>1, <3>1, <3>2
  <2>3. QED
    BY <1>1, <1>2, <2>1, <2>2
<1>3. QED
  BY <1>1, <1>2 DEF Follows

LEMMA FollowsTail ==
    ASSUME NEW q \in Seq(SynthMsg), q # <<>>, NEW s, Follows(s, q)
    PROVE  /\ Head(q) # Note(s)
           /\ Head(q) # Ack(s) => Follows(s, Tail(q))
<1>1. /\ Len(q) \in Nat /\ Len(q) > 0 /\ DOMAIN q = 1 .. Len(q) /\ Head(q) = q[1]
      /\ Tail(q) \in Seq(SynthMsg) /\ Len(Tail(q)) = Len(q) - 1
      /\ DOMAIN Tail(q) = 1 .. Len(q) - 1
      /\ \A i \in 1 .. Len(q) - 1 : Tail(q)[i] = q[i + 1]
  BY HeadTailProperties, LenProperties, EmptySeq
<1>2. Head(q) # Note(s)
  <2>1. SUFFICES ASSUME q[1] = Note(s) PROVE FALSE
    BY <1>1
  <2>2. 1 \in DOMAIN q
    BY <1>1
  <2>3. PICK j \in 1 .. 1 - 1 : q[j] = Ack(s)
    BY <2>1, <2>2 DEF Follows
  <2>4. QED
    BY <2>3
<1>3. ASSUME Head(q) # Ack(s), NEW i \in 1 .. Len(q) - 1, Tail(q)[i] = Note(s)
      PROVE  \E j \in 1 .. i - 1 : Tail(q)[j] = Ack(s)
  <2>1. i + 1 \in DOMAIN q /\ q[i + 1] = Note(s) /\ (i + 1) - 1 = i
    BY <1>1, <1>3
  <2>2. PICK j \in 1 .. i : q[j] = Ack(s)
    BY <2>1 DEF Follows
  <2>3. j # 1
    BY <1>1, <1>3, <2>2
  <2>4. j - 1 \in 1 .. i - 1 /\ j - 1 \in 1 .. Len(q) - 1 /\ (j - 1) + 1 = j
    BY <1>1, <2>2, <2>3
  <2>5. Tail(q)[j - 1] = Ack(s)
    BY <1>1, <2>2, <2>4
  <2>6. QED
    BY <2>4, <2>5
<1>4. QED
  BY <1>1, <1>2, <1>3 DEF Follows

\* What else a step may do to what Announced speaks of.
LEMMA NoteMoves ==
    ASSUME TypeOK, [Next]_vars, NEW s \in Sub
    PROVE  /\ Occurs(Note(s), overflow') => Occurs(Note(s), overflow) \/ s \in fan
           /\ \/ Occurs(Note(s), queued') => Occurs(Note(s), queued)
              \/ rd' = "synth" /\ (Occurs(Note(s), queued') => Occurs(Note(s), queued) \/ Occurs(Note(s), overflow))
           /\ rd' = "queued" => \/ rd = "queued"
                                \/ synth = <<>> /\ UNCHANGED <<synth, queued, told>>
           /\ s \in fan' => s \in fan \/ listeners[s] # Unregistered
           /\ sub'[s] \in {"register", "open"} => sub[s] \in {"register", "open"} \/ PushAck(s)
<1>0. /\ queued \in Seq(SynthMsg) /\ overflow \in Seq(SynthMsg)
      /\ \A x \in Sub : Note(x) \in SynthMsg /\ (Note(x) = Note(s) => x = s)
  BY Sequenced, Messages DEF Note
<1>1. Occurs(Note(s), overflow') => Occurs(Note(s), overflow) \/ s \in fan
  <2>1. ASSUME NEW x \in Sub, FanOut(x), Occurs(Note(s), overflow') PROVE Occurs(Note(s), overflow) \/ s \in fan
    <3>1. x \in fan /\ (UNCHANGED overflow \/ overflow' = Append(overflow, Note(x)))
      BY <2>1 DEF FanOut, Note
    <3>2. overflow' = Append(overflow, Note(x)) => Occurs(Note(s), overflow) \/ x = s
      <4>1. Note(x) \in SynthMsg /\ (Note(x) = Note(s) => x = s)
        BY <1>0
      <4>2. Occurs(Note(s), Append(overflow, Note(x))) <=> Occurs(Note(s), overflow) \/ Note(x) = Note(s)
        BY <1>0, <4>1, Appended
      <4>3. QED
        BY <2>1, <4>1, <4>2
    <3>3. QED
      BY <2>1, <3>1, <3>2
  <2>2. ASSUME FannedOut PROVE ~Occurs(Note(s), overflow')
    BY <2>2, Emptied DEF FannedOut
  <2>3. UNCHANGED overflow \/ (\E x \in Sub : FanOut(x)) \/ FannedOut
    <3>1. ASSUME NEW x \in Sub, PushAck(x) PROVE UNCHANGED overflow
      BY <3>1 DEF PushAck, loop
    <3>2. ASSUME NEW r \in Req, PushDiscover(r) PROVE UNCHANGED overflow
      BY <3>2 DEF PushDiscover, loop
    <3>3. ASSUME PollSynth \/ PollQueued \/ SelectSynth \/ WithholdErr \/ Close PROVE UNCHANGED overflow
      BY <3>3 DEF PollSynth, PollQueued, SelectSynth, WithholdErr, Close, loop
    <3>4. QED
      BY <3>1, <3>2, <3>3, Frames
  <2>4. QED
    BY <2>1, <2>2, <2>3
<1>2. \/ Occurs(Note(s), queued') => Occurs(Note(s), queued)
      \/ rd' = "synth" /\ (Occurs(Note(s), queued') => Occurs(Note(s), queued) \/ Occurs(Note(s), overflow))
  <2>1. CASE PollQueued
    <3>1. queued # <<>> /\ queued' = Tail(queued)
      BY <2>1 DEF PollQueued
    <3>2. QED
      BY <1>0, <3>1, Taken
  <2>2. CASE FannedOut
    <3>1. queued' = queued \o overflow /\ rd' = "synth"
      BY <2>2 DEF FannedOut, Goes
    <3>2. QED
      BY <1>0, <3>1, Joined
  <2>3. CASE Close
    BY <2>3, QueuedByClose
  <2>4. UNCHANGED queued \/ PollQueued \/ FannedOut \/ Close
    <3>1. ASSUME NEW x \in Sub, PushAck(x) \/ FanOut(x) PROVE UNCHANGED queued
      BY <3>1 DEF PushAck, FanOut
    <3>2. ASSUME NEW r \in Req, PushDiscover(r) PROVE UNCHANGED queued
      BY <3>2 DEF PushDiscover
    <3>3. ASSUME PollSynth \/ SelectSynth \/ WithholdErr PROVE UNCHANGED queued
      BY <3>3 DEF PollSynth, SelectSynth, WithholdErr
    <3>4. QED
      BY <3>1, <3>2, <3>3, Frames
  <2>5. QED
    BY <2>1, <2>2, <2>3, <2>4
<1>3. rd' = "queued" => rd = "queued" \/ (synth = <<>> /\ UNCHANGED <<synth, queued, told>>)
  <2>1. CASE Reads
    BY <2>1 DEF Reads, PollSynth, PollQueued, ReturnDeferred, StartRead, SelectSynth, ReceiveErr, WithholdErr,
                PassThrough, Answer, Changed, FanOut, FannedOut, Goes
  <2>2. QED
    BY <2>1, Frames
<1>4. s \in fan' => s \in fan \/ listeners[s] # Unregistered
  <2>1. CASE Changed
    <3>1. fan' = {x \in Sub : readCh.id \in listeners[x]} /\ readCh \in InnerMsg \cup {Idle, Reading, Failed}
          /\ readCh.type = "changed"
      BY <2>1 DEF Changed, Receive, TypeOK
    <3>2. readCh.id \in Kind
      BY <3>1 DEF InnerMsg, Idle, Reading, Failed, Msg
    <3>3. readCh.id # None
      BY <3>2, NoneAssumption
    <3>4. QED
      BY <3>1, <3>3 DEF Unregistered
  <2>2. CASE Reads /\ ~Changed
    BY <2>2 DEF Reads, PollSynth, PollQueued, ReturnDeferred, StartRead, SelectSynth, ReceiveErr, WithholdErr,
                PassThrough, Answer, FanOut, FannedOut
  <2>3. QED
    BY <2>1, <2>2, Frames
<1>5. sub'[s] \in {"register", "open"} => sub[s] \in {"register", "open"} \/ PushAck(s)
  <2>0. sub \in [Sub -> {"idle", "push", "register", "open", "failed", "cancelled"}]
    BY DEF TypeOK
  <2>1. ASSUME NEW x \in Sub, Listen(x) \/ PushAck(x) \/ Register(x) \/ RegisterLate(x) \/ CancelListen(x)
        PROVE  sub'[s] \in {"register", "open"} => sub[s] \in {"register", "open"} \/ PushAck(s)
    BY <2>0, <2>1 DEF Listen, PushAck, Register, RegisterLate, CancelListen
  <2>2. CASE PushGivesUp
    BY <2>0, <2>2 DEF PushGivesUp
  <2>3. ASSUME NEW r \in Req, \/ Discover(r) \/ Request(r) \/ CancelRequest(r) \/ PushDiscover(r) \/ Send(r)
                              \/ SendFails(r) \/ Unrecord(r)
        PROVE  UNCHANGED sub
    BY <2>3 DEF Discover, Request, CancelRequest, PushDiscover, Send, SendFails, Unrecord
  <2>4. CASE Close \/ PollSynth \/ PollQueued \/ SelectSynth \/ WithholdErr \/ Answer("resp") \/ Answer("error")
    BY <2>4 DEF Close, PollSynth, PollQueued, SelectSynth, WithholdErr, Answer, callers
  <2>5. QED
    BY <2>1, <2>2, <2>3, <2>4, Frames DEF Callers, Writes
<1>6. QED
  BY <1>1, <1>2, <1>3, <1>4, <1>5

LEMMA AnnouncedPreserved ==
    ASSUME TypeOK, Announced, Ending, [Next]_vars
    PROVE  Announced'
<1> SUFFICES ASSUME NEW s \in Sub
             PROVE  /\ told'[s] # <<>> => Head(told'[s]) # "note"
                    /\ told'[s] # <<>> \/ Follows(s, synth')
                    /\ sub'[s] \in {"register", "open"} => Acked(s)'
                    /\ s \in fan' => Acked(s)'
                    /\ Occurs(Note(s), queued') => Acked(s)'
                    /\ Occurs(Note(s), overflow') => Acked(s)'
                    /\ rd' = "queued" /\ Occurs(Note(s), queued') => told'[s] # <<>>
  BY DEF Announced, Note, Follows, Ack
<1>0. /\ told[s] # <<>> => Head(told[s]) # "note"
      /\ told[s] # <<>> \/ Follows(s, synth)
      /\ sub[s] \in {"register", "open"} => Acked(s)
      /\ s \in fan => Acked(s)
      /\ Occurs(Note(s), queued) => Acked(s)
      /\ Occurs(Note(s), overflow) => Acked(s)
      /\ rd = "queued" /\ Occurs(Note(s), queued) => told[s] # <<>>
      /\ listeners[s] # Unregistered => sub[s] = "open"
      /\ synth \in Seq(SynthMsg) /\ queued \in Seq(SynthMsg)
  BY Sequenced DEF Announced, Ending
<1>1. Acked(s) => Acked(s)'
  BY AckedStays DEF Acked, Ack
<1>2. told[s] # <<>> => told'[s] # <<>> /\ Head(told'[s]) # "note"
  BY <1>0, ToldGrows
<1>3. ASSUME told[s] = <<>>
      PROVE  /\ told'[s] # <<>> => Head(told'[s]) # "note"
             /\ told'[s] # <<>> \/ Follows(s, synth')
  <2>0. Follows(s, synth)
    BY <1>0, <1>3
  <2>1. ASSUME NEW m \in SynthMsg, Return(m), m # Note(s)
        PROVE  /\ told'[s] # <<>> => Head(told'[s]) # "note"
               /\ told'[s] = <<>> => m # Ack(s)
    <3>1. CASE m \in {Ack(s), End(s)}
      <4>1. m.type # "note"
        BY <3>1 DEF Ack, End, Msg
      <4>2. QED
        BY <1>3, <2>1, <3>1, <4>1, Heard
    <3>2. CASE m \notin {Ack(s), End(s)}
      <4>1. told'[s] = told[s]
        BY <2>1, <3>2, Returned
      <4>2. QED
        BY <1>3, <3>2, <4>1
    <3>3. QED
      BY <3>1, <3>2
  <2>2. CASE UNCHANGED told /\ UNCHANGED synth
    BY <1>3, <2>0, <2>2
  <2>3. ASSUME NEW m \in SynthMsg, UNCHANGED told, synth' = Append(synth, m), m = Note(s) => s \in fan
        PROVE  told'[s] = <<>> /\ Follows(s, synth')
    <3>1. m = Note(s) => Occurs(Ack(s), synth)
      BY <1>0, <1>3, <2>3 DEF Acked
    <3>2. Follows(s, Append(synth, m))
      BY <1>0, <2>0, <3>1, FollowsAppend
    <3>3. QED
      BY <1>3, <2>3, <3>2
  <2>4. CASE TakeSynth
    <3>1. Head(synth) \in SynthMsg /\ synth # <<>> /\ synth' = Tail(synth) /\ Return(Head(synth))
      BY <2>4, SynthTaken
    <3>2. Head(synth) # Note(s) /\ (Head(synth) # Ack(s) => Follows(s, Tail(synth)))
      BY <1>0, <2>0, <3>1, FollowsTail
    <3>3. QED
      BY <2>1, <3>1, <3>2
  <2>5. CASE PollQueued
    <3>1. Head(queued) \in SynthMsg /\ queued # <<>> /\ Return(Head(queued)) /\ rd = "queued" /\ UNCHANGED synth
      BY <2>5, QueueTaken DEF PollQueued
    <3>2. Head(queued) # Note(s)
      <4>1. Head(queued) = Note(s) => Occurs(Note(s), queued)
        BY <1>0, <3>1, Taken
      <4>2. QED
        BY <1>0, <1>3, <3>1, <4>1
    <3>3. QED
      BY <2>0, <2>1, <3>1, <3>2
  <2>6. QED
    BY <2>2, <2>3, <2>4, <2>5, SynthMoves
<1>4. ASSUME PushAck(s) PROVE Acked(s)'
  <2>1. Ack(s) \in SynthMsg /\ synth' = Append(synth, Ack(s))
    BY <1>4, Messages DEF PushAck, push, Ack
  <2>2. Occurs(Ack(s), synth')
    BY <1>0, <2>1, Appended
  <2>3. QED
    BY <2>2 DEF Acked, Ack
<1>5. ASSUME rd' = "queued", Occurs(Note(s), queued') PROVE told'[s] # <<>>
  <2>1. Occurs(Note(s), queued)
    BY <1>5, NoteMoves
  <2>2. CASE rd = "queued"
    BY <1>0, <1>2, <2>1, <2>2
  <2>3. CASE synth = <<>> /\ UNCHANGED <<synth, queued, told>>
    BY <1>0, <2>1, <2>3, Emptied DEF Acked
  <2>4. QED
    BY <1>5, <2>2, <2>3, NoteMoves
<1>6. QED
  BY <1>0, <1>1, <1>2, <1>3, <1>4, <1>5, NoteMoves

-----------------------------------------------------------------------------
(* How the connection ends *)

\* The first four conjuncts of Ending: Close, the server's end, what Read saw of it.
Ends ==
    /\ phase # "up" => ~closed /\ \A s \in Sub : sub[s] = "idle"
    /\ closing => closed
    /\ fate = "closed" => closed \/ phase = "failed"
    /\ readCh = Failed \/ rd \in {"sampled", "done"} \/ deferErr => fate # "alive"

LEMMA Irreversible ==
    ASSUME TypeOK, [Next]_vars
    PROVE  /\ closed => closed'
           /\ fate # "alive" => fate' = fate \/ (fate' = "closed" /\ phase = "close")
           /\ phase = "up" => phase' = "up"
           /\ phase = "failed" => phase' = "failed"
           /\ fate' = "closed" => fate = "closed" \/ phase' = "failed" \/ closing \/ (closed /\ closed')
           /\ closing' => closing \/ closed'
           /\ closed' => closed \/ Close
<1>1. CASE Connects
  <2>1. UNCHANGED <<closed, closing>>
    BY <1>1 DEF Connects, handshake, handshakeFails, ConnectFails, Step, maps
  <2>2. QED
    BY <1>1, <2>1 DEF Connects, handshake, handshakeFails, ConnectFails, Step
<1>2. CASE CloseInner
  BY <1>2 DEF CloseInner
<1>3. CASE Die
  BY <1>3 DEF Die, maps
<1>4. CASE Close
  BY <1>4 DEF Close, inner
<1>5. ASSUME ~Connects, ~CloseInner, ~Die, ~Close PROVE UNCHANGED <<phase, fate, closed, closing>>
  <2>1. UNCHANGED <<closed, closing>>
    BY <1>5, Frames DEF ReturnDeferred, ReceiveErr, WithholdErr, maps
  <2>2. UNCHANGED <<phase, fate>>
    <3>1. ASSUME InnerReads \/ StartRead \/ Receives PROVE UNCHANGED <<phase, fate>>
      BY <3>1 DEF InnerReads, InnerRead, InnerReadFails, StartRead, Receives, ReceiveErr, PassThrough, Answer,
                  Changed, Receive
    <3>2. QED
      BY <1>5, <3>1, Frames
  <2>3. QED
    BY <2>1, <2>2
<1>6. QED
  BY <1>1, <1>2, <1>3, <1>4, <1>5

\* Where the read loop can come from, and what it saw.
LEMMA LoopMoves ==
    ASSUME TypeOK, [Next]_vars
    PROVE  /\ readCh' = Failed => readCh = Failed \/ fate # "alive"
           /\ rd' = "sampled" =>
                  \/ rd = "sampled" /\ UNCHANGED sampled
                  \/ readCh = Failed /\ UNCHANGED <<queued, closed, fate>> /\ (~sampled' => queued = <<>>)
           /\ rd' = "done" =>
                  \/ rd = "done"
                  \/ deferErr /\ queued = <<>> /\ UNCHANGED <<queued, closed, fate>>
                  \/ rd = "sampled" /\ ~sampled
           /\ deferErr' => deferErr \/ rd = "sampled"
<1>1. readCh' = Failed => readCh = Failed \/ fate # "alive"
  <2>1. CASE InnerReads
    <3>1. InnerRead => readCh'.type \in {"changed", "resp", "error", "other"}
      BY DEF InnerRead, Msg
    <3>2. Failed.type = "err"
      BY DEF Failed, Msg
    <3>3. InnerReadFails => fate # "alive"
      BY DEF InnerReadFails
    <3>4. QED
      BY <2>1, <3>1, <3>2, <3>3 DEF InnerReads
  <2>2. CASE StartRead \/ Receives
    BY <2>2 DEF StartRead, Receives, ReceiveErr, PassThrough, Answer, Changed, Receive, Failed, Idle, Reading, Msg
  <2>3. CASE Connects \/ CloseInner \/ Die
    BY <2>3 DEF Connects, handshake, handshakeFails, ConnectFails, Step, CloseInner, Die
  <2>4. QED
    BY <2>1, <2>2, <2>3, Frames
<1>2. CASE ~Reads
  <2>1. UNCHANGED rd
    BY <1>2, Frames
  <2>2. ~ReceiveErr /\ ~WithholdErr /\ ~ReturnDeferred
    BY <1>2 DEF Reads
  <2>3. UNCHANGED <<deferErr, sampled>>
    BY <2>2, Frames DEF Close, CloseInner, loop
  <2>4. QED
    BY <1>1, <2>1, <2>3
<1>3. CASE ReceiveErr
  <2>1. readCh \in InnerMsg \cup {Idle, Reading, Failed} /\ readCh.type = "err"
    BY <1>3 DEF ReceiveErr, Receive, TypeOK
  <2>2. readCh = Failed
    BY <2>1 DEF InnerMsg, Idle, Reading, Failed, Msg
  <2>3. /\ rd' = "sampled" /\ UNCHANGED <<queued, closed, fate, deferErr>>
        /\ ~sampled' => queued = <<>>
    BY <1>3 DEF ReceiveErr, Receive, Goes, queues, maps
  <2>4. QED
    BY <1>1, <2>2, <2>3
<1>4. CASE ReturnDeferred
  <2>1. deferErr /\ queued = <<>> /\ UNCHANGED <<queued, closed, fate>> /\ rd' = "done" /\ ~deferErr'
    BY <1>4 DEF ReturnDeferred, Goes, inner, queues, maps
  <2>2. QED
    BY <1>1, <2>1
<1>5. CASE WithholdErr
  <2>1. rd = "sampled" /\ rd' \in {"synth", "done"} /\ (rd' = "done" => ~sampled)
    BY <1>5 DEF WithholdErr, Goes
  <2>2. QED
    BY <1>1, <2>1
<1>6. CASE Reads /\ ~ReceiveErr /\ ~ReturnDeferred /\ ~WithholdErr
  <2>1. rd' \in {"synth", "queued", "select", "fan"} /\ UNCHANGED deferErr
    BY <1>6 DEF Reads, PollSynth, PollQueued, StartRead, SelectSynth, PassThrough, Answer, Changed, FanOut,
                FannedOut, Goes
  <2>2. QED
    BY <1>1, <2>1
<1>7. QED
  BY <1>2, <1>3, <1>4, <1>5, <1>6

\* How a stream is opened and left.
LEMMA ListenMoves ==
    ASSUME TypeOK, [Next]_vars, NEW s \in Sub
    PROVE  \/ UNCHANGED <<sub, listeners>> \/ (Close /\ UNCHANGED sub)
           \/ sub'[s] = sub[s] /\ listeners'[s] = listeners[s]
           \/ sub[s] = "idle" /\ phase = "up" /\ sub'[s] = "push" /\ listeners'[s] = listeners[s]
           \/ sub[s] \in {"push", "register"} /\ sub'[s] \in {"register", "failed"}
                  /\ listeners'[s] = listeners[s]
           \/ /\ sub[s] = "register" /\ ~closed /\ sub'[s] = "open" /\ listeners'[s] # Unregistered
              /\ UNCHANGED <<closed, fate, phase>>
           \/ sub[s] = "open" /\ sub'[s] = "cancelled" /\ listeners'[s] = Unregistered
<1>0. /\ sub \in [Sub -> {"idle", "push", "register", "open", "failed", "cancelled"}]
      /\ want \in [Sub -> SUBSET Kind]
      /\ listeners \in [Sub -> (SUBSET Kind) \cup {{None}}]
  BY DEF TypeOK
<1>1. ASSUME NEW x \in Sub, Listen(x) PROVE sub' = [sub EXCEPT ![x] = "push"] /\ UNCHANGED listeners
                                            /\ sub[x] = "idle" /\ phase = "up"
  BY <1>1 DEF Listen, maps, Up
<1>2. ASSUME NEW x \in Sub, PushAck(x) \/ RegisterLate(x)
      PROVE  /\ sub[x] \in {"push", "register"} /\ UNCHANGED listeners
             /\ sub' = [sub EXCEPT ![x] = "register"] \/ sub' = [sub EXCEPT ![x] = "failed"]
  BY <1>2 DEF PushAck, RegisterLate, maps
<1>3. ASSUME NEW x \in Sub, Register(x)
      PROVE  /\ sub[x] = "register" /\ ~closed /\ UNCHANGED <<closed, fate, phase>>
             /\ sub' = [sub EXCEPT ![x] = "open"] /\ listeners' = [listeners EXCEPT ![x] = want[x]]
             /\ want[x] # Unregistered
  BY <1>0, <1>3, Messages DEF Register, inner
<1>4. ASSUME NEW x \in Sub, CancelListen(x)
      PROVE  /\ sub[x] = "open"
             /\ sub' = [sub EXCEPT ![x] = "cancelled"] /\ listeners' = [listeners EXCEPT ![x] = Unregistered]
  BY <1>4 DEF CancelListen
<1>5. ASSUME PushGivesUp
      PROVE  UNCHANGED listeners /\ (UNCHANGED sub \/ \E x \in Sub : sub[x] = "push" /\ sub' = [sub EXCEPT ![x] = "failed"])
  BY <1>5 DEF PushGivesUp, maps
<1>6. ASSUME NEW r \in Req, \/ Discover(r) \/ Request(r) \/ CancelRequest(r) \/ PushDiscover(r) \/ Send(r)
                            \/ SendFails(r) \/ Unrecord(r)
      PROVE  UNCHANGED <<sub, listeners>>
  BY <1>6 DEF Discover, Request, CancelRequest, PushDiscover, Send, SendFails, Unrecord, maps
<1>7. ASSUME PollSynth \/ PollQueued \/ SelectSynth \/ WithholdErr \/ Answer("resp") \/ Answer("error")
      PROVE  UNCHANGED <<sub, listeners>>
  BY <1>7 DEF PollSynth, PollQueued, SelectSynth, WithholdErr, Answer, maps
<1>8. Close => UNCHANGED sub
  BY DEF Close, callers
<1>9. QED
  BY <1>0, <1>1, <1>2, <1>3, <1>4, <1>5, <1>6, <1>7, <1>8, Frames DEF Callers, Writes

LEMMA EndsPreserved ==
    ASSUME TypeOK, Ending, [Next]_vars
    PROVE  Ends'
<1>0. Ends
  BY DEF Ending, Ends
<1>1. closing' => closed'
  BY <1>0, Irreversible DEF Ends
<1>2. fate' = "closed" => closed' \/ phase' = "failed"
  BY <1>0, Irreversible DEF Ends
<1>3. readCh' = Failed \/ rd' \in {"sampled", "done"} \/ deferErr' => fate' # "alive"
  <2>1. readCh' = Failed \/ rd' \in {"sampled", "done"} \/ deferErr' => fate # "alive"
    BY <1>0, LoopMoves DEF Ends
  <2>2. QED
    BY <2>1, Irreversible
<1>4. ASSUME phase' # "up" PROVE ~closed' /\ \A s \in Sub : sub'[s] = "idle"
  <2>1. phase # "up" /\ ~closed
    BY <1>0, <1>4, Irreversible DEF Ends
  <2>2. ~Close
    BY <2>1 DEF Close, Up
  <2>3. ASSUME NEW s \in Sub PROVE sub'[s] = "idle"
    BY <1>0, <2>1, ListenMoves DEF Ends
  <2>4. QED
    BY <2>1, <2>2, <2>3, Irreversible
<1>5. QED
  BY <1>1, <1>2, <1>3, <1>4 DEF Ends, Failed, Msg

\* A closure stays queued until it is told.
LEMMA EndStays ==
    ASSUME TypeOK, [Next]_vars, NEW s \in Sub, Occurs(End(s), queued) \/ Occurs("end", told[s])
    PROVE  Occurs(End(s), queued') \/ Occurs("end", told'[s])
<1>0. queued \in Seq(SynthMsg) /\ overflow \in Seq(SynthMsg)
  BY Sequenced
<1>1. CASE Occurs("end", told[s])
  BY <1>1, ToldGrows
<1>2. CASE Occurs(End(s), queued)
  <2>1. CASE PollQueued
    <3>1. /\ Head(queued) \in SynthMsg /\ queued # <<>> /\ queued' = Tail(queued)
          /\ Return(Head(queued))
      BY <2>1, QueueTaken
    <3>2. Occurs(End(s), Tail(queued)) \/ Head(queued) = End(s)
      BY <1>0, <1>2, <3>1, Taken
    <3>3. QED
      BY <3>1, <3>2, Heard
  <2>2. CASE FannedOut
    <3>1. queued' = queued \o overflow
      BY <2>2 DEF FannedOut
    <3>2. QED
      BY <1>0, <1>2, <3>1, Joined
  <2>3. CASE Close
    BY <1>2, <2>3, QueuedByClose
  <2>4. UNCHANGED queued \/ PollQueued \/ FannedOut \/ Close
    <3>1. ASSUME NEW x \in Sub, PushAck(x) \/ FanOut(x) PROVE UNCHANGED queued
      BY <3>1 DEF PushAck, FanOut
    <3>2. ASSUME NEW r \in Req, PushDiscover(r) PROVE UNCHANGED queued
      BY <3>2 DEF PushDiscover
    <3>3. ASSUME PollSynth \/ SelectSynth \/ WithholdErr PROVE UNCHANGED queued
      BY <3>3 DEF PollSynth, SelectSynth, WithholdErr
    <3>4. QED
      BY <3>1, <3>2, <3>3, Frames
  <2>5. QED
    BY <1>2, <2>1, <2>2, <2>3, <2>4
<1>3. QED
  BY <1>1, <1>2

LEMMA EndingPreserved ==
    ASSUME TypeOK, Ending, [Next]_vars
    PROVE  Ending'
<1>0. Ends /\ Ends'
  BY EndsPreserved DEF Ending, Ends
<1>1. ASSUME NEW s \in Sub
      PROVE  /\ listeners'[s] # Unregistered => sub'[s] = "open"
             /\ sub'[s] = "open" => IF closed' THEN Occurs("end", told'[s]) \/ Occurs(End(s), queued')
                                               ELSE listeners'[s] # Unregistered
             /\ /\ sub'[s] = "open" /\ fate' = "closed"
                /\ (rd' = "sampled" /\ ~sampled') \/ rd' = "done"
                => Occurs("end", told'[s])
  <2>0. /\ listeners[s] # Unregistered => sub[s] = "open"
        /\ sub[s] = "open" => IF closed THEN Occurs("end", told[s]) \/ Occurs(End(s), queued)
                                        ELSE listeners[s] # Unregistered
        /\ sub[s] = "open" /\ fate = "closed" /\ ((rd = "sampled" /\ ~sampled) \/ rd = "done")
               => Occurs("end", told[s])
    BY DEF Ending, Closed
  <2>1. CASE Close
    <3>1. /\ listeners' = [x \in Sub |-> Unregistered] /\ sub' = sub /\ closed' /\ ~closed
          /\ UNCHANGED <<fate, phase>> /\ phase = "up"
      BY <2>1 DEF Close, callers, inner, Up
    <3>2. sub[s] = "open" => s \in Registered
      BY <2>0, <3>1 DEF Registered
    <3>3. sub'[s] = "open" => Occurs(End(s), queued')
      BY <2>1, <3>1, <3>2, QueuedByClose
    <3>4. fate' # "closed"
      BY <1>0, <3>1 DEF Ends
    <3>5. QED
      BY <3>1, <3>3, <3>4
  <2>2. CASE ~Close
    <3>1. listeners'[s] # Unregistered => sub'[s] = "open"
      BY <2>0, <2>2, ListenMoves
    <3>2. ASSUME sub'[s] = "open"
          PROVE  IF closed' THEN Occurs("end", told'[s]) \/ Occurs(End(s), queued')
                            ELSE listeners'[s] # Unregistered
      <4>1. CASE sub[s] = "open" /\ listeners'[s] = listeners[s]
        <5>1. CASE closed
          BY <2>0, <4>1, <5>1, EndStays, Irreversible
        <5>2. CASE ~closed
          BY <2>0, <2>2, <4>1, <5>2, Irreversible
        <5>3. QED
          BY <5>1, <5>2
      <4>2. CASE ~closed /\ UNCHANGED closed /\ listeners'[s] # Unregistered
        BY <4>2
      <4>3. QED
        BY <2>2, <3>2, <4>1, <4>2, ListenMoves
    <3>3. ASSUME sub'[s] = "open", fate' = "closed", (rd' = "sampled" /\ ~sampled') \/ rd' = "done"
          PROVE  Occurs("end", told'[s])
      <4>1. sub[s] = "open" /\ closed
        <5>1. phase' # "failed"
          BY <1>0, <3>3 DEF Ends
        <5>2. closed' /\ closed
          BY <1>0, <2>2, <3>3, <5>1, Irreversible DEF Ends
        <5>3. QED
          BY <2>2, <3>3, <5>2, ListenMoves
      <4>2. phase = "up"
        BY <1>0, <4>1 DEF Ends
      <4>3. queued = <<>> => Occurs("end", told[s])
        BY <2>0, <4>1, Emptied
      <4>4. \/ (rd = "sampled" /\ ~sampled) \/ rd = "done"
            \/ queued = <<>>
        BY <3>3, LoopMoves
      <4>5. CASE queued = <<>>
        BY <4>3, <4>5, ToldGrows
      <4>6. CASE (rd = "sampled" /\ ~sampled) \/ rd = "done"
        <5>1. fate # "alive"
          BY <1>0, <4>6 DEF Ends
        <5>2. fate = "closed"
          BY <3>3, <4>2, <5>1, Irreversible
        <5>3. QED
          BY <2>0, <4>1, <4>6, <5>2, ToldGrows
      <4>7. QED
        BY <4>4, <4>5, <4>6
    <3>4. QED
      BY <3>1, <3>2, <3>3
  <2>3. QED
    BY <2>1, <2>2
<1>2. QED
  BY <1>0, <1>1 DEF Ending, Ends, Closed, End, Failed, Unregistered, Occurs, Msg

-----------------------------------------------------------------------------

LEMMA InitLegacy == Init => LegacyInv
<1> SUFFICES ASSUME Init PROVE LegacyInv
  OBVIOUS
<1>1. TypeOK
  <2>1. ConnTypes
    BY CapAssumption DEF Init, ConnTypes
  <2>2. QueueTypes
    BY EmptySeq, CapAssumption DEF Init, QueueTypes
  <2>3. FlagTypes
    BY DEF Init, FlagTypes
  <2>4. CallerTypes /\ LoopTypes
    BY DEF Init, CallerTypes, LoopTypes, Unregistered, ReqPC
  <2>5. ToldTypes
    BY EmptySeq DEF Init, ToldTypes
  <2>6. QED
    BY <2>1, <2>2, <2>3, <2>4, <2>5, TypeParts
<1>2. Accounted
  <2>1. ASSUME NEW m, NEW S PROVE Times(m, <<>>) = 0
    <3>1. <<>> \in Seq(S) /\ ~Occurs(m, <<>>)
      BY EmptySeq, Emptied
    <3>2. QED
      BY <3>1, PositionsFinite
  <2>2. /\ synth = <<>> /\ queued = <<>> /\ overflow = <<>> /\ fan = {}
        /\ \A s \in Sub : told[s] = <<>> /\ owed[s] = 0
    BY DEF Init
  <2>3. QED
    BY <2>1, <2>2 DEF Accounted
<1>3. Placed /\ Announced
  <2>1. \A s : Follows(s, <<>>)
    BY DEF Follows
  <2>2. QED
    BY <2>1, Emptied DEF Init, Placed, Announced
<1>4. Ending
  BY DEF Init, Ending, Idle, Failed, Msg, Unregistered
<1>5. QED
  BY <1>1, <1>2, <1>3, <1>4 DEF LegacyInv

\* Types, the account of the list_changed, what a stream hears first and how the
\* connection ends, for every number of streams and requests and any capacity.
THEOREM LegacyInvariant == Spec => []LegacyInv
<1>1. LegacyInv /\ [Next]_vars => LegacyInv'
  BY TypePreserved, AccountedPreserved, PlacedPreserved, AnnouncedPreserved, EndingPreserved DEF LegacyInv
<1>2. QED
  BY <1>1, InitLegacy, PTL DEF Spec

\* compat.go:89: synth never holds more than its capacity, and every variable
\* of the bridge has its type.
THEOREM LegacyTypeCorrect == Spec => []TypeOK
<1>1. LegacyInv => TypeOK
  BY DEF LegacyInv
<1>2. QED
  BY <1>1, LegacyInvariant, PTL

\* compat.go:264: Write queues the acknowledgment before it registers the stream,
\* so no list_changed reaches the stream ahead of it.
THEOREM AckComesFirst == Spec => []AckBeforeNotes
<1>1. LegacyInv => AckBeforeNotes
  BY DEF LegacyInv, Announced, AckBeforeNotes
<1>2. QED
  BY <1>1, LegacyInvariant, PTL

\* compat.go:194 and 278: after a Close that came before the server was gone,
\* every stream still open was told of its end before the loop learns the error.
THEOREM CloseIsGraceful == Spec => []GracefulEnd
<1>1. LegacyInv => GracefulEnd
  BY DEF LegacyInv, Ending, Closed, Occurs, GracefulEnd
<1>2. QED
  BY <1>1, LegacyInvariant, PTL

\* compat.go:573: when the loop reads the server again, or ends, every
\* list_changed read for a stream has been returned to it, once each.
THEOREM NoChangeLost == Spec => []EveryChangeTold
<1>1. ASSUME LegacyInv PROVE EveryChangeTold
  <2>1. SUFFICES ASSUME rd \in {"select", "sampled", "done"}, NEW s \in Sub
                 PROVE  Times("note", told[s]) = owed[s]
    BY DEF EveryChangeTold, Times, Positions
  <2>2. fan = {} /\ overflow = <<>> /\ ~Occurs(Note(s), synth) /\ ~Occurs(Note(s), queued)
    BY <1>1, <2>1 DEF LegacyInv, Placed
  <2>3. TypeOK
    BY <1>1 DEF LegacyInv
  <2>4. Times(Note(s), synth) = 0 /\ Times(Note(s), queued) = 0 /\ Times(Note(s), overflow) = 0
    BY <2>2, <2>3, Emptied, Sequenced, PositionsFinite
  <2>5. /\ owed[s] = Times("note", told[s]) + Times(Note(s), synth) + Times(Note(s), queued)
                         + Times(Note(s), overflow) + (IF s \in fan THEN 1 ELSE 0)
        /\ Times("note", told[s]) \in Nat
    BY <1>1, <2>3, Sequenced DEF LegacyInv, Accounted
  <2>6. QED
    BY <2>2, <2>4, <2>5
<1>2. QED
  BY <1>1, LegacyInvariant, PTL
=============================================================================
