----------------------------- MODULE LegacyConn -----------------------------
(***************************************************************************)
(* pkg/backend/legacy/compat.go: the bridge that lets the gateway speak to *)
(* a 2025-11-25 server as if it were a 2026-07-28 one.                     *)
(*                                                                         *)
(* The mux's read loop calls Read over and over until it fails, its        *)
(* callers call Write, and the pool calls Close, each on a goroutine of    *)
(* its own.  Read merges three sources: synth, a buffered channel of       *)
(* messages made up here, queued, those that may not be dropped but did    *)
(* not fit, and the inner connection, read by a goroutine that outlives    *)
(* the Read that started it.                                               *)
(*                                                                         *)
(* The mux gives every request an id of its own, so an id is used once.    *)
(***************************************************************************)
EXTENDS Integers, Sequences, FiniteSets, SequencesExt

CONSTANTS
    Sub,        \* ids of subscriptions/listen requests
    Req,        \* ids of other requests
    Methods,    \* their methods
    Kind,       \* what a list_changed can be about: tools, prompts, resources
    None,
    SynthCap,   \* the capacity of synth, 16 in the code
    MaxChanged  \* bounds the list_changed a server sends

ASSUME MethodAssumption ==
    Methods \subseteq {"discover", "list", "resources/read", "tools/call"}
ASSUME CapAssumption == SynthCap \in Nat \ {0} /\ MaxChanged \in Nat
ASSUME NoneAssumption == None \notin Sub \cup Req \cup Kind
ASSUME IdAssumption == IsFiniteSet(Sub) /\ Sub \cap Req = {}

VARIABLES
    phase,      \* where Connect is
    fate,       \* of the inner connection; "closed" if Close came first
    synth,
    queued,
    deferErr,   \* a transport error is withheld
    listeners,  \* the filter of each registered stream, {} included, or None
    pending,    \* ids in conn.pending
    closed,
    closing,    \* Close has still to close the inner connection
    readCh,     \* the inner read in flight, or its result
    rd,         \* where the read loop is
    sampled,    \* innerReadOrSynth's pendingQueued
    fan,        \* listeners a list_changed has still to be fanned out to
    overflow,   \* those that found synth full
    sub,        \* where the Write of each listen is
    want,       \* the filter it asks for, until it is registered
    req,        \* where the Write of each request is
    method,     \* its method, once it is called
    changes,    \* list_changed sent so far
    told,       \* history: what Read returned for each stream
    owed        \* history: list_changed read while the stream was registered

inner == <<phase, fate, readCh, changes>>
queues == <<synth, queued>>
maps == <<listeners, pending, closed, closing>>
loop == <<deferErr, rd, sampled, fan, overflow>>
callers == <<sub, want, req, method>>
history == <<told, owed>>
vars == <<inner, queues, maps, loop, callers, history>>

Msg(type, id) == [type |-> type, id |-> id]
Idle == Msg("none", None)
Reading == Msg("reading", None)
Failed == Msg("err", None)

Tracked(r) == method[r] \in {"list", "resources/read"}

\* What the subscriber or the requester of m hears of it.
SynthMsg == {Msg(t, s) : t \in {"ack", "note", "end"}, s \in Sub}
                \cup {Msg("resp", r) : r \in Req}
InnerMsg == {Msg("changed", k) : k \in Kind} \cup {Msg("other", None)}
                \cup {Msg(t, r) : t \in {"resp", "error"}, r \in Req}

TypeOK ==
    /\ phase \in {"write", "read", "refuse", "ready", "close", "failed", "up"}
    /\ fate \in {"alive", "crashed", "closed"}
    /\ synth \in Seq(SynthMsg) /\ Len(synth) <= SynthCap
    /\ queued \in Seq(SynthMsg)
    /\ deferErr \in BOOLEAN /\ sampled \in BOOLEAN
    /\ listeners \in [Sub -> (SUBSET Kind) \cup {{None}}]
    /\ pending \subseteq Req
    /\ closed \in BOOLEAN /\ closing \in BOOLEAN
    /\ readCh \in InnerMsg \cup {Idle, Reading, Failed}
    /\ rd \in {"synth", "queued", "select", "sampled", "fan", "done"}
    /\ fan \subseteq Sub
    /\ overflow \in Seq(SynthMsg)
    /\ sub \in [Sub -> {"idle", "push", "register", "open", "failed", "cancelled"}]
    /\ want \in [Sub -> SUBSET Kind]
    /\ req \in [Req -> {"idle", "push", "recorded", "written", "unsent", "plain", "ttl", "ttl 0",
                        "failed", "cancelled", "late"}]
    /\ method \in [Req -> Methods \cup {"discover", None}]
    /\ changes \in 0 .. MaxChanged
    /\ told \in [Sub -> Seq({"ack", "note", "end"})]
    /\ owed \in [Sub -> Nat]

Unregistered == {None}

Init ==
    /\ phase = "write" /\ fate = "alive"
    /\ synth = <<>> /\ queued = <<>>
    /\ deferErr = FALSE /\ sampled = FALSE
    /\ listeners = [s \in Sub |-> Unregistered]
    /\ pending = {}
    /\ closed = FALSE /\ closing = FALSE
    /\ readCh = Idle /\ rd = "synth"
    /\ fan = {} /\ overflow = <<>>
    /\ sub = [s \in Sub |-> "idle"] /\ want = [s \in Sub |-> {}]
    /\ req = [r \in Req |-> "idle"] /\ method = [r \in Req |-> None]
    /\ changes = 0
    /\ told = [s \in Sub |-> <<>>]
    /\ owed = [s \in Sub |-> 0]

-----------------------------------------------------------------------------
(* Connect and its handshake, all of it bounded by handshakeTimeout *)

Step(from, to) ==
    /\ phase = from /\ phase' = to
    /\ UNCHANGED <<fate, readCh, changes, queues, maps, loop, callers, history>>

\* Stray notifications and other responses are read and skipped.
handshake ==
    \/ Step("write", "read")
    \/ Step("read", "refuse")     \* the server asks for something
    \/ Step("refuse", "read")     \* and is told MethodNotFound
    \/ Step("read", "ready")
    \/ Step("ready", "up")        \* notifications/initialized

\* A write or a read fails, initialize is rejected or the time is up.
handshakeFails ==
    \E p \in {"write", "read", "refuse", "ready"} : Step(p, "close")

ConnectFails ==
    /\ phase = "close"
    /\ phase' = "failed" /\ fate' = "closed"
    /\ UNCHANGED <<readCh, changes, queues, maps, loop, callers, history>>

-----------------------------------------------------------------------------
(* Write *)

Up == phase = "up"

\* push: it waits for room in synth.
push(m) == Len(synth) < SynthCap /\ synth' = Append(synth, m)

\* Mutant: the stream is registered before its acknowledgment is queued.
Listen_RegistersFirst(s) ==
    /\ Up /\ sub[s] = "idle"
    /\ sub' = [sub EXCEPT ![s] = "push"]
    /\ \E f \in SUBSET Kind :
          /\ want' = [want EXCEPT ![s] = f]
          /\ listeners' = [listeners EXCEPT ![s] = f]
    /\ UNCHANGED <<inner, queues, pending, closed, closing, loop, req, method, history>>

Listen(s) ==
    /\ Up /\ sub[s] = "idle"
    /\ sub' = [sub EXCEPT ![s] = "push"]
    /\ \E f \in SUBSET Kind : want' = [want EXCEPT ![s] = f]
    /\ UNCHANGED <<inner, queues, maps, loop, req, method, history>>

PushAck(s) ==
    /\ sub[s] = "push"
    /\ push(Msg("ack", s))
    /\ sub' = [sub EXCEPT ![s] = "register"]
    /\ UNCHANGED <<inner, queued, maps, loop, want, req, method, history>>

Register(s) ==
    /\ sub[s] = "register" /\ ~closed
    /\ listeners' = [listeners EXCEPT ![s] = want[s]]
    /\ want' = [want EXCEPT ![s] = {}]
    /\ sub' = [sub EXCEPT ![s] = "open"]
    /\ UNCHANGED <<inner, queues, pending, closed, closing, loop, req, method, history>>

\* ErrConnDead
RegisterLate(s) ==
    /\ sub[s] = "register" /\ closed
    /\ sub' = [sub EXCEPT ![s] = "failed"]
    /\ UNCHANGED <<inner, queues, maps, loop, want, req, method, history>>

Discover(r) ==
    /\ Up /\ req[r] = "idle"
    /\ req' = [req EXCEPT ![r] = "push"]
    /\ method' = [method EXCEPT ![r] = "discover"]
    /\ UNCHANGED <<inner, queues, maps, loop, sub, want, history>>

PushDiscover(r) ==
    /\ req[r] = "push"
    /\ push(Msg("resp", r))
    /\ req' = [req EXCEPT ![r] = "written"]
    /\ UNCHANGED <<inner, queued, maps, loop, sub, want, method, history>>

\* The caller's context ends while its Write waits for room.
PushGivesUp ==
    /\ \/ \E s \in Sub : sub[s] = "push" /\ sub' = [sub EXCEPT ![s] = "failed"] /\ UNCHANGED req
       \/ \E r \in Req : req[r] = "push" /\ req' = [req EXCEPT ![r] = "failed"] /\ UNCHANGED sub
    /\ UNCHANGED <<inner, queues, maps, loop, want, method, history>>

\* A request for the server is recorded before it is written.
Request(r) ==
    /\ Up /\ req[r] = "idle"
    /\ req' = [req EXCEPT ![r] = "recorded"]
    /\ \E m \in Methods \ {"discover"} : method' = [method EXCEPT ![r] = m]
    /\ pending' = IF Tracked(r)' THEN pending \cup {r} ELSE pending
    /\ UNCHANGED <<inner, queues, listeners, closed, closing, loop, sub, want, history>>

Send(r) ==
    /\ req[r] = "recorded" /\ fate = "alive"
    /\ req' = [req EXCEPT ![r] = "written"]
    /\ UNCHANGED <<inner, queues, maps, loop, sub, want, method, history>>

SendFails(r) ==
    /\ req[r] = "recorded"
    /\ req' = [req EXCEPT ![r] = "unsent"]
    /\ UNCHANGED <<inner, queues, maps, loop, sub, want, method, history>>

Unrecord(r) ==
    /\ req[r] = "unsent"
    /\ req' = [req EXCEPT ![r] = "failed"]
    /\ pending' = pending \ {r}
    /\ UNCHANGED <<inner, queues, listeners, closed, closing, loop, sub, want, method, history>>

\* notifications/cancelled, which the mux sends for a call whose Write is done.
CancelListen(s) ==
    /\ sub[s] = "open"
    /\ sub' = [sub EXCEPT ![s] = "cancelled"]
    /\ listeners' = [listeners EXCEPT ![s] = Unregistered]
    /\ UNCHANGED <<inner, queues, pending, closed, closing, loop, want, req, method, history>>

CancelRequest(r) ==
    /\ req[r] = "written"
    /\ req' = [req EXCEPT ![r] = "cancelled"]
    /\ pending' = pending \ {r}
    /\ UNCHANGED <<inner, queues, listeners, closed, closing, loop, sub, want, method, history>>

-----------------------------------------------------------------------------
(* Close *)

Registered == {s \in Sub : listeners[s] # Unregistered}

Closures(S) == SetToSeq({Msg("end", s) : s \in S})

Close ==
    /\ Up /\ ~closed
    /\ closed' = TRUE /\ closing' = TRUE
    /\ queued' = queued \o Closures(Registered)
    /\ listeners' = [s \in Sub |-> Unregistered]
    /\ UNCHANGED <<inner, synth, pending, loop, callers, told, owed>>

CloseInner ==
    /\ closing
    /\ closing' = FALSE
    /\ fate' = IF fate = "alive" THEN "closed" ELSE fate
    /\ UNCHANGED <<phase, readCh, changes, queues, listeners, pending, closed, loop,
                   callers, history>>

\* The server exits of its own accord.
Die ==
    /\ fate = "alive"
    /\ fate' = IF closed THEN "closed" ELSE "crashed"
    /\ UNCHANGED <<phase, readCh, changes, queues, maps, loop, callers, history>>

-----------------------------------------------------------------------------
(* The goroutine that reads the inner connection *)

InnerRead ==
    /\ readCh = Reading
    /\ \/ \E k \in Kind : /\ changes < MaxChanged
                          /\ changes' = changes + 1
                          /\ readCh' = Msg("changed", k)
       \/ \E r \in Req, t \in {"resp", "error"} :
              /\ req[r] \in {"written", "cancelled"} /\ method[r] # "discover"
              /\ readCh' = Msg(t, r)
              /\ UNCHANGED changes
       \/ /\ fate = "alive"       \* progress, a request of the server's
          /\ readCh' = Msg("other", None)
          /\ UNCHANGED changes
    /\ UNCHANGED <<phase, fate, queues, maps, loop, callers, history>>

InnerReadFails ==
    /\ readCh = Reading /\ fate # "alive"
    /\ readCh' = Failed
    /\ UNCHANGED <<phase, fate, changes, queues, maps, loop, callers, history>>

-----------------------------------------------------------------------------
(* Read *)

Goes(pc) == rd' = pc

\* Read returns what was made up here; the loop calls it again at once.
Return(m) ==
    /\ told' = IF m.id \in Sub THEN [told EXCEPT ![m.id] = Append(@, m.type)] ELSE told
    /\ req' = IF m.id \in Req /\ req[m.id] = "written"
                 THEN [req EXCEPT ![m.id] = "plain"] ELSE req

TakeSynth ==
    /\ synth # <<>>
    /\ synth' = Tail(synth)
    /\ Return(Head(synth))

PollSynth ==
    /\ Up /\ rd = "synth"
    /\ IF synth # <<>>
          THEN TakeSynth /\ Goes("synth")
          ELSE Goes("queued") /\ UNCHANGED <<synth, told, req>>
    /\ UNCHANGED <<inner, queued, maps, deferErr, sampled, fan, overflow, sub, want,
                   method, owed>>

PollQueued ==
    /\ rd = "queued" /\ queued # <<>>
    /\ queued' = Tail(queued)
    /\ Return(Head(queued))
    /\ Goes("synth")
    /\ UNCHANGED <<inner, synth, maps, deferErr, sampled, fan, overflow, sub, want,
                   method, owed>>

ReturnDeferred ==
    /\ rd = "queued" /\ queued = <<>> /\ deferErr
    /\ deferErr' = FALSE
    /\ Goes("done")
    /\ UNCHANGED <<inner, queues, maps, sampled, fan, overflow, callers, history>>

\* innerReadOrSynth: the read in flight is used again.
StartRead ==
    /\ rd = "queued" /\ queued = <<>> /\ ~deferErr
    /\ readCh' = IF readCh = Idle THEN Reading ELSE readCh
    /\ Goes("select")
    /\ UNCHANGED <<phase, fate, changes, queues, maps, deferErr, sampled, fan, overflow,
                   callers, history>>

SelectSynth ==
    /\ rd = "select"
    /\ TakeSynth /\ Goes("synth")
    /\ UNCHANGED <<inner, queued, maps, deferErr, sampled, fan, overflow, sub, want,
                   method, owed>>

\* Takes the result of the inner read.
Receive(type) ==
    /\ rd = "select" /\ readCh.type = type
    /\ readCh' = Idle
    /\ UNCHANGED <<phase, fate, changes>>

ReceiveErr ==
    /\ Receive("err")
    /\ sampled' = (queued # <<>>)
    /\ Goes("sampled")
    /\ UNCHANGED <<queues, maps, deferErr, fan, overflow, callers, history>>

\* Mutant: what is queued does not hold the error back.
WithholdErr_SynthOnly ==
    /\ rd = "sampled" /\ sampled' = FALSE
    /\ IF synth # <<>>
          THEN /\ TakeSynth
               /\ deferErr' = TRUE
               /\ Goes("synth")
          ELSE /\ Goes("done")
               /\ UNCHANGED <<synth, told, req, deferErr>>
    /\ UNCHANGED <<inner, queued, maps, fan, overflow, sub, want,
                   method, owed>>

\* The error waits until what was synthesized has been handed over.
WithholdErr ==
    /\ rd = "sampled" /\ sampled' = FALSE
    /\ IF synth # <<>>
          THEN /\ TakeSynth
               /\ deferErr' = TRUE
               /\ Goes("synth")
          ELSE /\ deferErr' = sampled
               /\ Goes(IF sampled THEN "synth" ELSE "done")
               /\ UNCHANGED <<synth, told, req>>
    /\ UNCHANGED <<inner, queued, maps, fan, overflow, sub, want,
                   method, owed>>

PassThrough ==
    /\ Receive("other")
    /\ Goes("synth")
    /\ UNCHANGED <<queues, maps, deferErr, sampled, fan, overflow, callers, history>>

\* ttlMsFor: the content of a resource is stale at once.
Freshness(r) ==
    IF r \notin pending THEN "plain"
    ELSE IF method[r] = "resources/read" THEN "ttl 0" ELSE "ttl"

\* An answer that comes after the cancellation is dropped by the mux.
stampResult(r, t) ==
    /\ req' = [req EXCEPT ![r] = IF @ = "cancelled" THEN "late"
                                 ELSE IF t = "resp" THEN Freshness(r) ELSE "plain"]
    /\ pending' = pending \ {r}

Answer(t) ==
    /\ Receive(t)
    /\ stampResult(readCh.id, t)
    /\ Goes("synth")
    /\ UNCHANGED <<queues, listeners, closed, closing, deferErr, sampled, fan, overflow,
                   sub, want, method, history>>

\* translateNotification: the listeners are sampled, then served one by one.
Changed ==
    /\ Receive("changed")
    /\ fan' = {s \in Sub : readCh.id \in listeners[s]}
    /\ owed' = [s \in Sub |-> IF s \in fan' THEN owed[s] + 1 ELSE owed[s]]
    /\ Goes("fan")
    /\ UNCHANGED <<queues, maps, deferErr, sampled, overflow, callers, told>>

\* Mutant: what does not fit in synth is dropped.
FanOut_Drops(s) ==
    /\ rd = "fan" /\ s \in fan
    /\ fan' = fan \ {s}
    /\ synth' = IF Len(synth) < SynthCap THEN Append(synth, Msg("note", s)) ELSE synth
    /\ UNCHANGED <<inner, queued, maps, deferErr, rd, sampled, overflow, callers, history>>

\* Mutant: the fan-out waits for room in synth.
FanOut_Blocks(s) ==
    /\ rd = "fan" /\ s \in fan
    /\ fan' = fan \ {s}
    /\ push(Msg("note", s))
    /\ UNCHANGED <<inner, queued, maps, deferErr, rd, sampled, overflow, callers, history>>

FanOut(s) ==
    /\ rd = "fan" /\ s \in fan
    /\ fan' = fan \ {s}
    /\ IF Len(synth) < SynthCap
          THEN synth' = Append(synth, Msg("note", s)) /\ UNCHANGED overflow
          ELSE overflow' = Append(overflow, Msg("note", s)) /\ UNCHANGED synth
    /\ UNCHANGED <<inner, queued, maps, deferErr, rd, sampled, callers, history>>

FannedOut ==
    /\ rd = "fan" /\ fan = {}
    /\ queued' = queued \o overflow
    /\ overflow' = <<>>
    /\ Goes("synth")
    /\ UNCHANGED <<inner, synth, maps, deferErr, sampled, fan, callers, history>>

-----------------------------------------------------------------------------

Connects == handshake \/ handshakeFails \/ ConnectFails

Writes ==
    \/ \E s \in Sub : PushAck(s) \/ Register(s) \/ RegisterLate(s)
    \/ \E r \in Req : PushDiscover(r) \/ Send(r) \/ SendFails(r) \/ Unrecord(r)

Reads ==
    \/ PollSynth \/ PollQueued \/ ReturnDeferred \/ StartRead
    \/ SelectSynth \/ ReceiveErr \/ WithholdErr
    \/ PassThrough \/ Answer("resp") \/ Answer("error") \/ Changed
    \/ (\E s \in Sub : FanOut(s)) \/ FannedOut

InnerReads == InnerRead \/ InnerReadFails

\* What callers, the pool and the server choose to do.
Environment ==
    \/ \E s \in Sub : Listen(s) \/ CancelListen(s)
    \/ \E r \in Req : Discover(r) \/ Request(r) \/ CancelRequest(r)
    \/ PushGivesUp \/ Close \/ Die

Next == Connects \/ Writes \/ Reads \/ InnerReads \/ CloseInner \/ Environment

Spec == Init /\ [][Next]_vars

\* Goroutines that can step do; an inner connection that is gone says so.
Fairness ==
    /\ WF_vars(Reads) /\ WF_vars(CloseInner) /\ WF_vars(InnerReadFails)

FairSpec == Spec /\ Fairness

-----------------------------------------------------------------------------
(* Properties *)

\* compat.go:264: no list_changed reaches a stream ahead of its acknowledgment,
\* one that was read while the listen was being written included.
AckBeforeNotes ==
    \A s \in Sub : told[s] # <<>> => Head(told[s]) # "note"

\* compat.go:265, "nothing can reach this stream ahead of its acknowledgment":
\* not so for its closure: README, section 5.
AckFirst ==
    \A s \in Sub : told[s] # <<>> => Head(told[s]) = "ack"

\* compat.go:194 and 278: a listen that was accepted and not cancelled hears its
\* closure before the read loop hears of the error, however Close, the Write of
\* the listen and a Read overlap, if Close came before the server was gone.
GracefulEnd ==
    rd = "done" /\ fate = "closed" =>
        \A s \in Sub : sub[s] = "open" => \E i \in DOMAIN told[s] : told[s][i] = "end"

\* compat.go:573: a list_changed is dropped for no subscriber, whatever fits in
\* synth: before the next message is read from the server, and before the
\* connection reports its end, every stream it was for has been told.
EveryChangeTold ==
    rd \in {"select", "sampled", "done"} =>
        \A s \in Sub : Cardinality({i \in DOMAIN told[s] : told[s][i] = "note"}) = owed[s]

\* compat.go:187 and 585: what Read withholds or queues never stops the
\* connection from ending.
CloseEnds == closed ~> rd = "done"
=============================================================================
