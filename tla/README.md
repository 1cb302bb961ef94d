# A TLA+ model of nats-mcp-gateway

nats-mcp-gateway carries MCP (JSON-RPC) over NATS. A *shim* speaks stdio to an
MCP client and publishes each request on NATS; a *gateway* replica takes it from
a queue group, runs it on a pooled connection to the MCP server it fronts (a
subprocess or an HTTP endpoint), and streams frames back to the caller's inbox.
The gateway's configuration is reloaded while it serves.

This directory holds TLA+ modules translated from the Go sources, the
configurations TLC checks them with, and proofs checked by TLAPS. Paths below
are relative to the repository (`src/` in `PROJECT.json`); `PROJECT.json` maps every definition
to the lines it stands for.

## 1. Inventory

| component | state it keeps | operations | talks to |
|---|---|---|---|
| backend pool, `pkg/backend/pool.go` | entries, orphans, spawns in flight, reserved slots, breakers | `Get` and its release, `runSpawn`, `reap`, `EvictServer`, `Shutdown` | called by the proxy; calls the factory and `Backend.Connect`; evicted by the reconciler |
| connection mux, `pkg/backend/mux.go` | pending calls by remapped id, progress tokens, death | `Call`, `readLoop`, `Close` | between pool and transport |
| backends, `pkg/backend/stdio.go`, `http.go`, `legacy/compat.go` | a process, or HTTP exchanges in flight; the legacy bridge's queue | `Connect`, `Read`, `Write`, `Close` | under the mux |
| credential resolvers, `pkg/backend/cred` | cached value, generation, flight in progress | `Resolve`, `Invalidate`, refresh-ahead | called by the proxy and the backends; a generation is part of a pool key |
| reconciler, `pkg/reconcile` | live config, last failed revision | `Apply`, `Current` | called by the config sources; stores the config the factory reads; drives `SetServers` and `EvictServer` |
| config sources, `pkg/configsource` | last hash seen, watchers | `Watch`, `Reload`, `Retry`, `Run` | feed the reconciler |
| wire server, `pkg/wire/server.go` | services, draining flag, wait group; per request a stream writer, a control subscription, keep-alives | `dispatch`, `Msg`, `End`, `Err`, `SetServers`, `Shutdown` | NATS in front, the proxy's handler behind |
| wire client, `pkg/wire/client.go` | per request a subscription, a pump, a context; the violation registry | `Do`, `pump`, `Cancel`, `Close` | NATS; used by the shim |
| claim store, `pkg/wire/claim.go` | objects in a JetStream bucket, eager-delete cooldown | `Put`, `Fetch`, `Delete` | `Put`/`Delete` by the gateway, `Fetch` by the client |
| proxy, `pkg/proxy` | none | the handler: integrity check, resolve, `Get`, `Call`, answer | wire server, credential registry, pool, mux |
| credential registry, factory and `applyRevision`, `cmd/gateway.go` | a resolver per server with dynamic credentials | `lookup`, `prune`, `buildBackend` | called by the proxy and the factory; reads the reconciler's live config |
| shim, `pkg/shim` | live streams by JSON-RPC id, legacy session | read loop, request goroutines, cancellations | stdio, wire client |
| config, mcpspec, jsonrpc, cmd | none to speak of | parsing, formatting, wiring | everything |

What is hard here, and what each part must get right:

* **Pool.** Everything happens at the same time as everything else: a caller
  looks up, waits, is woken and re-takes the lock, and between any two of those
  steps the entry may have been retired, replaced, reaped, evicted or closed.
  Counters must stay exact through every cancellation; a tenant's cap must hold
  while spawns are in flight; a connection must always belong to somebody who
  will close it; age must never kill live work; a `Get` must return.
* **Reconciler with pool.** The factory reads the live definition with no lock
  in common with `Apply`. When the dust settles no backend built from a
  superseded or refused definition may be left behind.
* **Reply streams.** Notifications, keep-alives and terminal calls come from
  different goroutines; frames are lost; the response may be parked in a store;
  the client may give up or cancel; the gateway may drain. A consumer must see
  exactly one terminal frame, last.
* **Credentials.** A slow refresh must not meet a second conversation with the same
  source, nor bring back what a backend has rejected meanwhile; a generation, which
  is part of a pool key, must name one material, and must not move without cause.
* **Config sources.** A change event or a SIGHUP must not be lost, neither while a
  source is starting nor while the apply of that very content is failing; a failing
  apply must not turn into a loop; a gateway that serves must go on serving.
* **Mux and stdio.** Calls share ids, pipes and one read loop. An answer must reach
  the call that asked, after that call's notifications, and be preferred to the
  death of the connection that comes with it; every exit must clean up; a call must
  not outlive `Close`.
* **Legacy bridge.** `Read` merges a channel, a queue and the server with no order
  between them. A subscription must be acknowledged before it hears anything, told of
  every change, and closed exactly when the connection was closed rather than lost; and
  the only goroutine that makes room must never wait for room.
* **HTTP.** An exchange is retried after a 401 and after a header mismatch, for which
  it may have to sweep the tool list, alone or behind another exchange's sweep. It must
  not be executed twice, nor given up because of a sweep that showed nothing; a
  closing connection must have drained.
* **Gateway.** The proxy resolves a credential and keys the pool by its generation; the
  factory, later, reads the live definition, then the registry, which reads the config
  again, and resolves once more. Reloads and rotations come between any two. A backend
  must hold what its key names, and neither a service nor a resolver may outlive its
  server.
* **Shim.** Ids are the client's choice, reuse included. A request is answered once, a
  cancellation reaches the newest request of its id, and the end of stdin ends
  everything.

## 2. Modules

`Pool` — the backend pool. State: the fields of `Pool` under their own names
(`entries`, `orphans`, `spawning`, `pending`, `broken`, `closed`), the spawns and
entries (one `Id` names a `*spawn` and the `*entry` it installs), the connections
(`conn`), the program counter of every caller, the definition the factory would
read (`def`) and a coarse clock. An action is one critical section of `Pool.mu`,
one channel operation, or one step of the environment. `get` is therefore some
fifteen actions: `GetHit`, `GetAttach`, `GetSpawn`, `GetAtCap`, `GetCircuitOpen`
for the first section; `SpawnReady`, `JoinSpawned`, `JoinTooLate` around the wait
for a spawn; `AcquireSlot`, `CancelSlot`, `StartCall`, `StartTooLate`, `Backout`
around the semaphore; `ReleaseSlot` and `ReleaseEntry` for the release. Deadlines,
idleness and breaker cooldowns are flags that time raises; `now` exists because
`evictServer` compares two readings of the clock.

`Reload` — EXTENDS `Pool` with `Reconciler.Apply`: publish, `SetServers` accepting
or refusing, adopt, roll back, evict server by server, each a step of its own
because the factory may read between any two.

`ReplyStream` — one request's reply stream end to end, for a set of requests that
share a client, a subject and a gateway. `srv[r]` is where `dispatch`'s goroutine
is, `cli[r]` where the client's `pump` is, `lock`/`done` are the stream writer's,
`in` the subscription's pending messages, `store` the claim bucket, `phase` and
`wg` the drain. A handler is any `wire.Handler`: it may call `End` and `Err` as
often as it likes, and `Msg` from another goroutine. NATS keeps the order of one
connection's frames and may lose any of them. Frame bodies are abstracted to the
kind of frame; a permission violation, a lost subscription and no-responders are
steps of NATS. The publish of a terminal frame or of a claim's id succeeds or is refused; an
object whose claim frame was refused is left to the bucket's TTL (`left`).

`Stream` — what `wire.Stream` promises the consumer of its channel: notifications,
one terminal frame, then closed. `ReplyStream` is shown to implement it.

`CredCache` — the cache in front of every credential resolver (`cached.go`), for one
key. Callers of `ResolveGen` are served, park on a refresh, fail fast or hold the
entry's lock across a conversation with the source (`Ask`, `SourceReads`,
`ResolveOk`, `ResolveErr`); `refresh` is the refresh-ahead goroutine, which does not
hold it. Deadlines are flags and an age; the epoch a refresh starts with is kept as
whether the entry has moved since. Material is a number that the source advances
(`Rotate`); a conversation reads it at one moment and delivers it at a later one.

`ConfigFeed` — `configsource.Run` for each of a set of Watches on one source. `kind`,
chosen at the start and never changed, says which source, and `polls` whether it has a ticker: `File` (reloaded by SIGHUP), `NATS` (fetch, change
events, refetch ticker), `Poll` (a ticker), or `Dedup` around an external push source.
A Watch boots (`Watch`, `Subscribe`), reads (`Load`, `LoadErr`), goes through its
change filter (`Suppress`, `changed`) and waits for a trigger (`Triggered`, `Tick`);
A send ends when Run takes the update or the context has ended (`SendAborted`), and the Watch
goes on to its select, where a trigger may still come before the context (`Triggered`,
`Close`). Run takes what it is sent (`Take`, `TakeErr`), applies it (`ApplyOk`, `ApplyErr`) and,
when that fails, clears the filters of all Watches one by one (`retry`, `RetryDone`).
`Dedup` and the source it wraps are one goroutine, so an update the source has read does
not wait while `Dedup` is sending an earlier one; in the code one may.
A config's content is a model value, its hash likewise. `owed` and `unread` are history:
what a trigger has asked for and not yet been given.

`Mux` — one pooled connection: `Mux.Call`, `readLoop` and the routing of responses and
notifications, over a `stdioConn`. A call registers, writes, waits in the select and
leaves by one of its exits; between looking a call up and handing it a message
`readLoop` holds no lock, so these are two steps (`Read`, then `routeResponse` or
`routeNotification`). The pipes and `lines` hold `Cap` messages, and a write to a full
one blocks whatever its context says, as `stdioConn.Write` does. The process is
external: it answers what it has read, as often as it likes, notifies, asks, exits,
or does nothing at all. A message carries, as history, the call it is about.

`LegacyConn` — one bridged connection (`legacy/compat.go`). `synth` is the buffered channel
of what the bridge says itself, `queued` the slice it falls back to, `pending` the requests
whose responses it has to recognise. The Write of a `subscriptions/listen` is a step into
`synth` and a registration (`Listen`, `PushAck`, `Register`, `RegisterLate`); that of a
request is recorded, sent, and unrecorded if the send fails. `Read` polls `synth`, then
`queued` under the lock, then hands a goroutine the inner read and selects (`PollSynth`,
`PollQueued`, `StartRead`, `SelectSynth`, `ReceiveErr`, `WithholdErr`); a list_changed is
fanned out one subscriber at a time (`FanOut`, `FannedOut`). Whether `Close` came before or
after the server was gone is kept as `fate`, what each stream was told as `told`.

`HttpConn` — the exchanges of one HTTP connection. An exchange is admitted under the
lock, sent with the headers its tool is known to want, answered, rejected, redirected to
a retry by a 401 or a mismatch, streamed and delivered into an inbox that may be full; what
is in the inbox is counted, for nothing here depends on whose it is. A notification that the
server answers is delivered like a request, one that fails is only logged (`Fails`). A
mismatch samples what is known, then sweeps `tools/list` page by page under `refreshMu`, or
waits for the exchange that does (`UsesAnother`, `StartSweep`, `SweepPage`, `SweepDone`,
`SweepFails`), and compares. Which tools want headers, how many pages the listing has, beyond
the cap included, and which page each tool is on are chosen at the start; a page, whether
read by a sweep or passing through on its way to a client (`Absorbs`), adds what it says to
what is known. `cold` is history: that the listing had not been read to its end when a
call's headers were computed. `Close` sets the flag, cancels and waits for what is in flight.

`Gateway` — what `cmd/gateway.go` puts together, on the promises of the modules above. A
request is `Arrive`, `ReadCurrent`, `Lookup`, `Resolve`, `Keyed`, `Get`, and where there is no backend
a spawn: `FactoryReads`, `FactoryLooksUp`, `buildBackend`, `Install`. Meanwhile `applyRevision`
publishes, binds services one by one, undoes what it bound when one fails, stops what is
stale, adopts or rolls back, evicts and prunes, each a step. A server's definition is
abstracted to how it gets its credentials (not at all, statically, one for all, one per
user), the pool to the backends it can dispatch to.

`Shim` — the client edge: `Run`'s loop, the registration of a stream after `Do` has
returned, the goroutine that copies it to stdout and takes its registration away, the
legacy handshake, cancellations. A stream is what `Stream` promises.

The `MC` modules give the constants values. The theorems are in a module per component,
`PoolProofs`, `ReplyStreamProofs`, `CredCacheProofs`, `MuxProofs`, `LegacyConnProofs`,
`HttpConnProofs`, `GatewayProofs` and `ShimProofs`; those of `Reload`, which extends `Pool`,
are in `PoolProofs`, and those of `ConfigFeed`, the source of what `Gateway` applies, in
`GatewayProofs`, which extends both (hence the names `FeedInit`, `FeedNext`, `FeedSpec`).

Definitions named `X_Something` next to a definition `X` are its plausible bugs;
each property is known to fail when one of them takes the place of `X`.

## 3. Runs

| run | instance | what it shows |
|---|---|---|
| `pool_liveness` | one key, one spawn name, two callers, failures and breaker, fair scheduling | `AgingSparesWork`, `GetReturns`, `OrphansCollected`, `ShutdownDrains` |
| `reload` | two credential generations of one tenant, two spawns, cap 1, two definitions, one apply that changes something | `NoLeakedConn`, `CapRespected`, `DefinitionsFresh`, `RefusedSparesPrev`: rotation, ageing, reaping and a reload retire and replace under a full cap |
| `reply` | one request, one notification or keep-alive, two terminal calls, pending limit 1, fair scheduling | `ClaimsReachable`, `OneHonestEnd`, that the stream implements `Stream`, `StreamEnds`, `DrainCompletes` |
| `reply_violation` | two requests on one subject | a *violation*: finding 1 |
| `cred_cache` | two callers, two rotations, one sweep, fair scheduling | `OneConversation`, `InvalidatedStaysOut`, `GenNamesMaterial`, `ParkedIsWoken` |
| `feed` | one Watch on each kind of source with and without a ticker, two contents and an unreadable one, fair scheduling | `TriggerHonoured`: a SIGHUP to a `File` without a ticker is not eaten by a failing apply; `EveryTriggerRead`: a trigger racing the start of any Watch is read; `Converges`: a config that stays put is served in the end |
| `mux` | two calls and one message from the process, or one call and two, pipes of one message, fair scheduling | `AnswerIsMine`, `NoLeak`, `LandedWins`, `NotesBeforeAnswer`, and `CloseReleases` whatever the process does |
| `legacy` | one subscription, one request of each kind, `synth` of one, two changes, fair scheduling | `AckBeforeNotes`, `GracefulEnd`, `EveryChangeTold`, `CloseEnds` |
| `http` | two exchanges on one tool, a listing within and one beyond the cap, an inbox of one, fair scheduling | `Drained`, `AtMostOnce`, `HastyOnlyWhenCold`, `ExchangesEnd` |
| `gateway` | two servers, one user and the unattributed one, one request at a time, four revisions, two generations, two resolvers, two backends | `KeyedRight`, `GrainFollowsConfig`, `RegistryPruned`, `Served` |
| `gateway_identity` | the same | a *violation*: finding 2 |
| `shim` | three requests, two ids, fair scheduling | `NewestIsRouted`, `AnsweredOnce`, `RunReturns` |

**Bounds.** Two callers are the least that make one wait for a slot or a spawn the
other holds, and `MaxConcurrent = 1` makes them. Two spawn names are the least
that let an entry be replaced while the old one drains; a name is used again once
its spawn is done and nothing refers to it, so behaviours are not cut short by
running out of names. `BreakerThreshold = 1` opens the breaker at the first
failure, `getMaxAttempts` of 1 or 2 reaches both the retry and its end. `MaxNow`
of 1 to 3 gives `evictServer` a definition read before, at and after its instant.
In `reload` it is 2, which is one apply that changes something: a revision refused a second
time, or after another has been adopted, is left to the proofs (`DefinitionsStayFresh`,
`RefusedRevisionSpares`).
`reload` leaves out (a CONSTRAINT) behaviours after a failed Connect or a Shutdown,
and ageing or idleness that sets in while an apply is under way: `pool_liveness` has
them, and neither the cap across generations nor the definition a backend carries
depends on them; the proofs cover the rest. One caller is enough there, since its
spawns go on when it has left and it may come again.
In `ReplyStream` a pending limit of 1 lets a second frame overflow it;
`MaxFrames = 1` puts a notification or a keep-alive in flight against a
terminal call; `MaxCalls = 2` lets a handler terminate twice, and park a body on
a stream already terminated. What a reply stream does after its terminal frame is
all that is kept of its history (`tail`). One request is enough to race a drain.
In `CredCache` two callers let one ask the source, or start a refresh, while the
other expires and parks; two rotations give three materials, so a stale one can come
back after a newer one; one sweep starts an entry afresh. Invalidate, expiry and
backoff are not bounded.
`ConfigFeed` needs no other bound: contents, Watches and kinds are finite sets, a trigger
channel holds one, and signals, edits and failures may come for ever.
In `Mux` a pipe of one message is full after one, so a second write blocks; two calls
and an answer are the least that could be confused, one call with a notification and
an answer the least that could be reordered: `MaxTraffic = 3` bounds calls and messages
together and gives both.
In `LegacyConn` a `synth` of one makes the second thing to say overflow, so a fan-out, an
acknowledgment and a discover compete for room; two changes let one be told and the
next overflow. In `HttpConn` two exchanges are one that sweeps and one that waits for
it, or closes behind it, and listings of one and three pages against a cap of two are
read to the end and cut off, before the tool's page or after it. In `Gateway` only server "a" is asked for (a CONSTRAINT); "b" is
there so that a revision can fail on one service after binding another. The four
revisions take "a" through every kind of credentials; two resolvers and two
generations give a stale and a live one of each. Requests come one after the other:
what a second one would do to the first, a reload or a rotation does. A request that
has left may leave its spawn behind. In `Shim` three requests over two ids let an id be
used, used again, and used while another is live.
Deadlock is not an error in `mux`, `legacy`, `http` and `shim`: their goroutines end.

**Fairness.** Pool: a caller's own steps are strongly fair, because they need
`Pool.mu` and a `sync.Mutex` does not starve; taking a semaphore slot is strongly
fair, because senders blocked on a channel are served in order; a spawn's steps
are weakly fair because the factory and Connect run under `SpawnTimeout`; the reaper
runs on a ticker. Nothing forces a caller to come, a connection to die or time to
pass. Reply stream: each goroutine that can step does (weak fairness of the pump,
of dispatch around the handler, of a publish under the writer's lock); a handler
returns in the end and a consumer receives in the end. These last two are
assumptions about code outside the wire: the proxy's handler honours its context,
and the shim always drains. Keep-alives are bounded in the model, so
`StreamEnds` says that the *client* ends a stream once the gateway falls silent;
it does not say that a stream kept alive for ever ends, and the code does not
promise that. Nobody has to shut the gateway down, but a Shutdown that has begun
goes on. Credential cache: callers and the refresh are strongly fair, because they
need the entry's mutex, and every conversation with a source has a timeout
(`refreshTimeout` and the resolvers' own). Config feed: the goroutines of Watch and Run
are weakly fair and so is the refetch ticker; `Converges` assumes in addition that a
fetch and an apply that are tried for ever succeed in the end, which is what its
"eventually" is about, not something the gateway provides. Mux: the goroutines of
calls, `readLoop`, `stdoutLoop`, `waitLoop` and the signals of a `Close` that has begun
are weakly fair; nothing is asked of the process, which may stop reading, writing or
both, and only SIGKILL is sure to end it. Legacy bridge: the read loop, the closing of
the inner connection and the failure of its read once it is gone are weakly fair, and
nothing is asked of writers or of the server. HTTP: exchanges and the
mux's reads are weakly fair, a request whose context is done is given up by the HTTP
client, a sweep ends by its timeout if by nothing else, and the inbox serves those that
wait for room in their order (strong fairness of `Deliver`); nothing is asked of the
server, and no caller has to leave. Shim:
`Run` and the goroutines are weakly fair, and a stream whose context has ended closes
(`Stream`, `StreamEnds`); `RunReturns` says nothing before stdin has ended.

## 4. Proofs

`PoolProofs` proves, for any keys, callers, ids and limits, that `Spec` keeps

    IInv == TypeOK /\ Refs /\ CountersExact

and from it `TypeCorrect`, `CountersAreExact`, `SpawnsAreExclusive`, `NoConnLeaks`,
`KeysAreIsolated` and the action property `AgingSparesWorkHolds`. The counters are
inductive only together with `Refs`, which says who may refer to what: a caller
counted on an entry names an entry whose spawn has installed it, an id free for
reuse is referred to by nobody, the key of a caller, its spawn and its entry agree.
The assumptions are the ones named in `Pool`: the sets are finite, `None` is no
id, the limits are positive.

`CapHolds` adds `CapRespected` to it: what is reserved, mapped and orphaned for a tenant,
counted together, is within `MaxProcsPerTenant`. It is inductive with `Refs`, because a
backend changes sides in one critical section (a reservation becomes an entry, an entry an
orphan) and `Refs` says that it was on one side only.

For `Reload`, `ReloadSpec` keeps

    ReloadInv == IInv /\ CapRespected /\ ReloadTypes /\ Phases /\ Earlier
                 /\ \A i : Dated(i)  /\  \A i : Serves(i) => Fresh(i)

`Phases` says what is live in each phase of an apply, `Dated` that a spawn is dated before it
can serve and keeps the definition it read, `Fresh` that what serves, or will be installed,
has the live definition, or one that the rollback under way makes live again, or was built
since an instant the eviction under way will reach. `Earlier` gives the action property
`RefusedSparesPrev` its other half: what served when the window opened is dated before it.
The proof goes through one lemma per action of `Pool`, that it moves a spawn in one of three
ways (`Moves`), none of which upsets the rest. From it: `ReloadTypeCorrect`,
`DefinitionsStayFresh`, `CapHoldsUnderReload`, `RefusedRevisionSpares`.

`ReplyStreamProofs` proves, for any number of requests and any bounds, that `Spec` keeps

    IInv == TypeOK /\ Held /\ Writer /\ Drains /\ Parked /\ Cancels /\ OneHonestEnd

`Writer` is what makes `NothingAfterTerminal` inductive: the lock is held only
before the stream is done, and whoever is about to publish a terminal frame has
claimed a stream on which none was published. `Drains` says that the wait group is
the number of requests between `beginRequest` and dispatch's defers; `Parked` that
a claim's id is sent by the one call that claimed the stream, and that an object no frame
refers to is about to be published, about to be deleted, or left to the TTL; `Cancels` that an
empty end frame, wherever it is on its way, belongs to a caller that cancelled.
`OneHonestEnd` is about what is on the wire, behind the frame the pump stops at included,
and follows step by step from `Writer` and `Cancels`.
From these: `ReplyTypeCorrect`, `TerminalIsLast`, `EndsOnceHonestly`, `CleanDrain`, `NoClaimForgotten`,
`EmptyEndIsHonest`, and `StreamImplemented`: `Spec => StreamOf!Spec`, by showing
that every action maps to a step of `Stream` or to none.

`CredCacheProofs` proves, for any number of callers, rotations and sweeps, that
`Spec` keeps

    CacheInv == TypeOK /\ OneConversation /\ InvalidatedStaysOut
                       /\ Conversations /\ Generations /\ GenNamesMaterial

`Conversations` says that a refresh overtaken by Invalidate knows that the entry
moved; `Generations` that no generation is ahead of `globalGen`, that whatever was
handed out under the entry's generation is the material the entry remembers (what
Invalidate dropped included), and that this is what was last stored. From it:
`SingleFlight`, `NoResurrection`, `NoAlias` and the action property
`StableGeneration`. The only assumptions are that `None` is nothing else and that
the bounds are numbers.

For `ConfigFeed`, with any Watches and revisions, `GatewayProofs` proves that `FeedSpec` keeps
`FeedInv`: `FeedTypeOK` and, for every Watch, `Booting` (what one that has not delivered yet may
be doing), `Reading` (a trigger not yet followed by a read is in the channel, or the
read comes next), `Baseline` (while a filter holds a baseline, that revision is on
its way to Run, being applied, about to be cleared, or live) and, for `File`, `Owing`
(a Watch at rest that owes a revision has recorded that it was swallowed, or a reload
is on its way). `TriggerHonoured` is not inductive without the last two: what makes it
true is that a suppressed trigger leaves its mark on the filter that Run's Retry reads.
The kind of source is part of the state, so one proof covers them all.
From it: `FeedTypeCorrect`, `HupsAreHonoured`, `TriggersAreRead`, `ServiceSurvives`.

`MuxProofs` proves, for any number of calls and pipes of any size, that `Spec` keeps

    MuxInv == Flags /\ Places /\ Reading /\ Names /\ Tables /\ Mail /\ Mine /\ Death

The first three are `TypeOK` without the pipes. `Names`: ids are handed out in order,
each to one call. `Tables`: an entry is its call's own, and there only while Call may
still leave through `unregister`. `Mail`: every message on its way carries the id of a
call that has written its request. `Mine` and `Death` are `AnswerIsMine` and `LandedWins`
with what they need: a message being routed is for a call that was posted, and a dead
connection's loop has ended. From it: `MuxTypeCorrect`, `AnswersAreMine`, `NothingLeaks`,
`LandedAlwaysWins`. A second invariant on top of it, `NotesInv`, gives `NotesComeFirst`. It
takes the process's stdout and `lines` as one pipe and counts in it: the notifications the
server had sent before a response are at most those the call was given and those ahead of
the response in the pipe. Three things make that inductive: the read loop finds the call's
entry while it waits (`Entered`), progress goes to calls that asked for it (`Tokened`), and
what the loop holds has nothing ahead of it (`Handed`).

`LegacyConnProofs` proves, for any number of streams and requests and any capacity of
`synth`, that `Spec` keeps

    LegacyInv == TypeOK /\ Accounted /\ Placed /\ Announced /\ Ending

`Accounted` counts: the list_changed read for a stream are those it was told, those in
`synth`, those that overflowed, those in `queued` and the one being fanned out. `Placed`
says which of these places the read loop has emptied by where it is, so that nothing is
outstanding when it reads the server again. `Announced`: in `synth` a note has the
acknowledgment ahead of it, and what is in `queued` was put there for a stream whose
acknowledgment had been queued; that `queued` is read only when `synth` was seen empty
after that is what orders the two. `Ending`: once `Close` has run, every stream still open
has its closure in `queued` or was told; that the error was sampled after the server was
gone is what makes the sample tell of every closure. From it: `LegacyTypeCorrect`,
`AckComesFirst`, `CloseIsGraceful`, `NoChangeLost`. Assumed: each request has an id of its
own (`IdAssumption`), which the mux sees to. The lemmas about counting in sequences
(`Joined`, `Appended`, `Taken`) are proved there.

`HttpConnProofs` proves, for any exchanges, tools, listings and caps, that `Spec` keeps

    HttpInv == TypeOK /\ Exchanges /\ Sweeping /\ Learned /\ Latched

`Exchanges` says of each exchange, by where it is, how often the server has executed its
request, that it compares only once a sweep has ended since it was sent, and that one on its
way to line 451 was sent what its tool wants or was sent cold; `Sweeping` that one exchange
at most sweeps, and that the pages before the one it is at have been read; `Learned` what a
generation above zero, and `known`, stand for: every page within the cap has been read, and
all that is wanted is known; `Latched` that after `Close` has waited nothing can start. What
is learned only grows, which is what lets these last. From it: `HttpTypeCorrect`,
`CloseDrains`, `ExecutedOnce`, `OnlyColdCallsGivenUp`. The last covers both ways the code has
of giving a call up, lines 451 and 477. It does not say that none is given up in haste,
which is false (section 5), but that a cold call at line 451 is the only one.

`GatewayProofs` proves, for any servers, callers, requests and revisions, that `Spec` keeps

    GatewayInv == Types /\ Generations /\ Credentials /\ Phases
                  /\ Services /\ Registry /\ Backends

`Generations`: none is cached by two resolvers or above the counter. `Credentials` rests on
it: as long as a resolver has a key's generation cached it is of the key's grain, so a
backend whose generation is its key's was resolved by a resolver of that grain; and what was
built without credentials, because its config had gone, is kept under a key that the
resolver now registered cannot have issued.
The other four follow an apply from step to step: what is live, which services are bound,
what the registry may hold, and that every backend, and every spawn under way, was built for
what is live or will be evicted. From it: `GatewayTypeCorrect`, `CredentialsAreTheKeys`,
`ConfigDecidesCredentials`, `PruneLasts`, `ServicesFollow`. The theorems are about any number
of requests at once, where the run has one at a time. Assumed: the sets are finite, the
bounds are numbers, and `None` is nothing else (`NoneAssumption`).

`ShimProofs` proves, for any requests over any ids, that `Spec` keeps

    ShimInv == Values /\ Flags /\ Counted /\ Handled /\ Registered /\ Answers
               /\ NewestIsRouted /\ AnsweredOnce /\ NothingLeft

`Counted` is that `wg` is the number of goroutines still running, without which it would not
stay a number; `Registered` that an entry of `streams` is a request of that id;
`Handled` that no line is read between `Do` and the registration. From it:
`TypeCorrect`, `Routing`, `Answering`, `ReturnsClean`.

**Only model-checked:** what needs fairness (`GetReturns`, `OrphansCollected`,
`ShutdownDrains`, `StreamEnds`, `DrainCompletes`, `ParkedIsWoken`, `Converges`,
`CloseReleases`, `CloseEnds`, `ExchangesEnd`, `RunReturns`): liveness is out of the prover's
reach. Every invariant and every action property of a passing run is proved. Some theorems
state what no run lists (`CountersAreExact`, `SpawnsAreExclusive`, `KeysAreIsolated`,
`TerminalIsLast`, `EmptyEndIsHonest`, `CleanDrain`, `StableGeneration`, `ServiceSurvives`, `ReturnsClean`, the type
invariants): TLC checked each before it was proved.

## 5. Findings

1. `reply_violation`: `Stream` promises exactly one terminal frame. A permission
   violation that lands while `pump` is handing over a frame makes `deliver` return
   through `ctx.Done()`, and `C` is closed with no terminal frame and no cause.
2. `gateway_identity`: a per-user resolver is never to be asked for `"_"`. The factory
   reads the definition, then the registry, which builds the resolver from whatever is
   live by then: with a revision that makes the server per-user published in between,
   the check passes on the old definition and the new resolver is asked. The generation
   comparison then rejects the result, so nothing is pooled; but a helper has run.

Observations made while modelling, with no run of their own:

* The comment above `evictServer` says the Get waiting behind a stale spawn retries
  onto the new definition. It does when Connect succeeds; when Connect fails the
  waiter gets the old definition's error, and the failure counts against the breaker
  the eviction had cleared (`SpawnFailed`).
* The comment in `reconcile.go` says a spawn in flight during an eviction inserts its
  backend afterwards and nothing collects it. The pool has since learnt to mark such
  spawns stale; the code is better than its comment (`DefinitionsFresh`).
* `Retry` is to account for a trigger spent while the apply was failing. `Dedup`'s
  drops what its filters report, so a push delivered again while its apply is failing
  is suppressed and not made up for: without its first conjunct, `kind = "file"`, TLC
  finds `TriggerHonoured` violated. The gateway itself does not use `Dedup`.
* The comment in `File.Retry` says it cannot spin. With one Watch that is so. With two, whose applies fail at about the same time, each takes the
  other's swallowed flag, and they re-fire each other's reloads for ever. The gateway
  has one Watch.
* Connections being closed are not counted against a tenant's cap, so more processes
  than `MaxProcsPerTenant` may exist for the time a close takes.
* `Call` is to return when its context ends (mux.go:98). `stdioConn.Write` does not look
  at its context, so a call writing its request, or the cancellation it sends on the way
  out, stays blocked on a full stdin until the connection dies or is closed: TLC finds
  `CancelReturns`, stated in `Mux`, violated.
* The acknowledgment of a subscription "MUST be the first message on it"
  (compat.go:257). Read looks at `synth`, then, under the lock, at `queued`: a listen that
  is acknowledged, registered and closed between the two has its closure, which is in
  `queued`, returned first (`AckFirst`, stated in `LegacyConn`, is violated). Also there: a
  fan-out that overflows may be queued behind the closure of its stream, where the mux
  drops it; a `Write` that waits for room in `synth` when the read loop has ended waits for
  its caller's context; and closures are lost when the process dies just before `Close`
  queues them.
* "If this tool's schema was already read, a missing Mcp-Param-* cannot be the cause"
  (http.go:443). It may have been read, by another exchange, after the call was sent: a
  call that could be repaired is declined (`KnownMeansSent`, stated in `HttpConn`, is
  violated). Two cold calls do it: the sweep of the first sets `annotationsKnown`, and the
  second, rejected after that, is not retried. The comment of `sentHeaders` (http.go:470)
  guards the comparison at line 477 against this race, but line 451 comes before it.
  `HastyOnlyWhenCold` says that there is no other way. Also there: a sweep begun before a request and finished after it counts as
  fresh; once everything is known, a tool whose schema has changed is never read again; a
  202, an undecodable body or a stream that ends without a response leaves the call to
  its caller's deadline; a stream that breaks after its response yields a second answer,
  which the mux drops; a session captured after `Close` has sampled it is not deleted.
* The shim's `Run` is to pump "until stdin closes or ctx is cancelled" (shim.go:86). It is
  always reading stdin, so a cancelled context ends the streams and `Run` returns with
  stdin. `cmd/shim.go` passes a context that is never cancelled.
* `Gateway`: an entry that a refused revision's window put into the registry stays until
  the next revision is adopted (hence `failed = None` in `RegistryPruned`), as does that of
  a server whose credentials became static (`prune` goes by name). A request with an old
  snapshot replaces the live resolver by an identical one with an empty cache. `lookup`
  returns nil for a server that is not live either, and `buildBackend` then builds without
  credentials: no request can reach that backend, since its key's generation is never
  asked for again. A service whose `Stop` failed keeps its handle, so listing its server
  again does not bind it anew, although it may no longer answer.
* `cmd.Wait` closes stdout when the process exits, while `stdoutLoop` may still be reading,
  which os/exec warns against: a response written just before the exit can be lost. The
  model has the loss (`waitLoop`), and the call is told that the connection died.
* The branch of `spawnEntry` that adopts an entry found in its place cannot be reached
  (`SpawnsAreExclusive`).

## 6. Not modelled

`config`, `mcpspec`, `jsonrpc`, the integrity check (`proxy/integrity.go`) and the encoding of
Mcp-Param headers (`xmcpheader.go`): parsing and comparing of text with no state, which the
repository's table and fuzz tests reach better than a model that abstracts the text. Of
`http.go`, `Mcp-Session-Id` and the legacy mode; a tool's schema does not change while a
connection lives. Of the wire server, how an error frame is cut to fit. Of the claim store,
the bucket cache and the cooldown after a refused delete: `Delete` may leave the object
behind at any time. Two requests at once in `Gateway` (over twelve million states in five
minutes, none of them a violation). Of `stdio.go`, Connect's
setting up of pipes and directory, the stderr ring and grandchildren that hold the
pipes after the process is gone. In `mux.go`, the rewriting of ids and tokens inside a
message, and a notification with no correlator, which is logged. Of the config sources,
`Static`, `Dedup` around a source that filters by itself, and a config whose hash cannot be
computed. The NATS drift warning and
all logging. The reply-subject filter of `dispatch` (`usableReplySubject`): a client's
inbox always passes it. `Do`'s errors before anything is published change no state.
`Pool` sees a connection as something that may die; `Mux` is what goes on inside. The credential sources
(OAuth, files, exec, the controller) are the value `CredCache` asks for; how long a
backoff lasts and the jitter of `refreshAt` are left out, so `CredCache` says nothing
of the rate at which a source is asked.

## 7. Plan

1. done: `Pool`, `Reload`, `ReplyStream`, `CredCache`, `ConfigFeed`, `Mux`, `LegacyConn`, `HttpConn`,
   `Gateway`, `Shim` and their runs; the safety of all of them proved.
2. Proofs that are left: refinements between the modules, step by step: that what `Shim`
   assumes of a stream is `Stream`, and that the backends `Gateway` counts on are what `Pool`
   gives it.
