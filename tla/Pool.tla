-------------------------------- MODULE Pool --------------------------------
(***************************************************************************)
(* The backend pool, pkg/backend/pool.go: one multiplexed connection per   *)
(* key, created by a spawn that belongs to the pool and not to the caller  *)
(* that asked for it, shared by concurrent callers through a semaphore,    *)
(* and retired by age, idleness, death, credential rotation, a config      *)
(* reload or Shutdown.                                                     *)
(*                                                                         *)
(* One action is one critical section of Pool.mu, one channel operation    *)
(* (the semaphore, a spawn's done channel, a context) or one step of the   *)
(* environment (a factory or a Connect returning, a connection dying, time *)
(* passing).  Wall-clock time is kept only where the code compares two     *)
(* readings of it: `now' dates the moment a definition was read.  A        *)
(* deadline, an idle period and a breaker cooldown are flags that time     *)
(* raises or clears.                                                       *)
(*                                                                         *)
(* An Id stands for a *spawn and for the *entry that spawn installs: the   *)
(* two are distinct objects in the code, but no entry exists without its   *)
(* spawn.                                                                  *)
(***************************************************************************)
EXTENDS Integers, FiniteSets

CONSTANTS
    Server, Tenant, CredSet,   \* the components of a Key
    Keys,                      \* the keys requests may carry
    Id,                        \* names of spawns and of the entries they install
    Caller,                    \* goroutines inside Get or running a call
    Def,                       \* server definitions
    NoDef,                     \* a server the live config does not have
    None,                      \* nil
    MaxConcurrent, MaxProcsPerTenant, BreakerThreshold, getMaxAttempts,
    MaxNow                     \* model bound on the clock

(***************************************************************************)
(* Generations are globally monotonic, so a Key's CredVersion is compared  *)
(* with <.  The bounds are what PoolConfig.fill leaves in force.           *)
(***************************************************************************)
ASSUME KeysAssumption ==
    Keys \subseteq [server : Server, tenant : Tenant, credset : CredSet, ver : Nat]

ASSUME NoneAssumption == None \notin Id /\ None \notin Keys /\ NoDef \notin Def

ASSUME FiniteAssumption == IsFiniteSet(Keys) /\ IsFiniteSet(Id) /\ IsFiniteSet(Caller)

ASSUME BoundsAssumption ==
    /\ MaxConcurrent \in Nat \ {0}
    /\ MaxProcsPerTenant \in Nat \ {0}
    /\ BreakerThreshold \in Nat \ {0}
    /\ getMaxAttempts \in Nat \ {0}
    /\ MaxNow \in Nat \ {0}

VARIABLES
    entries,    \* Pool.entries
    orphans,    \* Pool.orphans
    spawning,   \* Pool.spawning
    pending,    \* Pool.pending
    broken,     \* Pool.broken; fails = 0 stands for a key with no breaker
    closed,     \* Pool.closed
    spawn,      \* the spawns, and where each runSpawn goroutine is
    entry,      \* the mutable fields of the entries
    conn,       \* the connection each spawn opened
    caller,     \* where each Get, and the call it leads to, is
    def,        \* the definition Reconciler.Current holds for each server
    now         \* the clock definitions are dated by

poolVars == <<entries, orphans, spawning, pending, broken, closed>>
vars == <<poolVars, spawn, entry, conn, caller, def, now>>

-----------------------------------------------------------------------------
(* Types and initial state *)

(***************************************************************************)
(* Where a runSpawn goroutine is.  "factory": inside p.factory;            *)
(* "stamp": factory returned, sp.built not written; "connect": inside      *)
(* Connect; "failed": Connect failed, recordFailure pending; "unreserve":  *)
(* releasePending pending; "install": Connect succeeded, the installing    *)
(* section pending; "unmap" and "signal": the two last steps of runSpawn;  *)
(* "done": done is closed; "free": never started.                          *)
(***************************************************************************)
SpawnPC == {"free", "factory", "stamp", "connect", "failed", "unreserve",
            "install", "unmap", "signal", "done"}

SpawnErr == {"none", "factory", "connect", "closed", "retired"}

(***************************************************************************)
(* Where a caller is.  "idle": outside Get; "lookup": about to take the    *)
(* lock; "spawn": blocked on sp.done; "spawned": woken, about to re-take   *)
(* the lock; "sem": a counted waiter blocked on the semaphore; "slot": it  *)
(* sent to the semaphore, about to re-take the lock; "leaving": it was     *)
(* cancelled on the semaphore; "backout": it must hand its slot back;      *)
(* "running": Get returned and the call is on the mux; "released": release *)
(* has received from the semaphore and not yet re-taken the lock.          *)
(***************************************************************************)
CallerPC == {"idle", "lookup", "spawn", "spawned", "sem", "slot", "leaving",
             "backout", "running", "released"}

BlankSpawn == [pc |-> "free", key |-> None, stale |-> FALSE, built |-> 0,
               def |-> NoDef, e |-> None, err |-> "none"]
BlankEntry == [inflight |-> 0, waiters |-> 0, slots |-> 0,
               expired |-> FALSE, idle |-> FALSE]
IdleCaller == [pc |-> "idle", key |-> None, sp |-> None, e |-> None, tries |-> 0]

SpawnType == [pc : SpawnPC, key : Keys \cup {None}, stale : BOOLEAN, built : Nat,
              def : Def \cup {NoDef}, e : Id \cup {None}, err : SpawnErr]
EntryType == [inflight : Nat, waiters : Nat, slots : Nat,
              expired : BOOLEAN, idle : BOOLEAN]
CallerType == [pc : CallerPC, key : Keys \cup {None}, sp : Id \cup {None},
               e : Id \cup {None}, tries : Nat]

\* One type invariant: the maps are total over their keys, counters natural.
TypeOK ==
    /\ entries \in [Keys -> Id \cup {None}]
    /\ orphans \in SUBSET Id
    /\ spawning \in [Keys -> Id \cup {None}]
    /\ pending \in [Tenant -> Nat]
    /\ broken \in [Keys -> [fails : 0..BreakerThreshold, open : BOOLEAN]]
    /\ closed \in BOOLEAN
    /\ spawn \in [Id -> SpawnType]
    /\ entry \in [Id -> EntryType]
    /\ conn \in [Id -> {"none", "live", "closing", "dead"}]
    /\ caller \in [Caller -> CallerType]
    /\ def \in [Server -> Def \cup {NoDef}]
    /\ now \in Nat

\* NewPool: nothing pooled, nothing starting.  The clock starts after the
\* zero time, which EvictServer passes to mean "every backend".
Init ==
    /\ entries = [k \in Keys |-> None]
    /\ orphans = {}
    /\ spawning = [k \in Keys |-> None]
    /\ pending = [t \in Tenant |-> 0]
    /\ broken = [k \in Keys |-> [fails |-> 0, open |-> FALSE]]
    /\ closed = FALSE
    /\ spawn = [i \in Id |-> BlankSpawn]
    /\ entry = [i \in Id |-> BlankEntry]
    /\ conn = [i \in Id |-> "none"]
    /\ caller = [c \in Caller |-> IdleCaller]
    /\ def \in [Server -> Def]
    /\ now = 1

-----------------------------------------------------------------------------
(* What the critical sections read *)

Dead(i) == conn[i] = "dead"

\* Mutant: only running calls count as work.
busyLocked_NoWaiters(i) == entry[i].inflight > 0

busyLocked(i) == entry[i].inflight > 0 \/ entry[i].waiters > 0

PastUse(i) == Dead(i) \/ entry[i].expired

\* Mux.Close on a set of entries, each on a goroutine of its own: the
\* connection is told to close here and is dead when CloseDone runs.
ClosedBy(S) == [i \in Id |-> IF i \in S /\ conn[i] = "live" THEN "closing" ELSE conn[i]]

\* Mutant: backends still starting are not counted.
tenantCountLocked_NoPending(t, ents, orphs) ==
      Cardinality({k \in Keys : k.tenant = t /\ ents[k] # None /\ ~Dead(ents[k])})
    + Cardinality({i \in orphs : spawn[i].key.tenant = t /\ ~Dead(i)})

tenantCountLocked(t, ents, orphs) ==
      Cardinality({k \in Keys : k.tenant = t /\ ents[k] # None /\ ~Dead(ents[k])})
    + Cardinality({i \in orphs : spawn[i].key.tenant = t /\ ~Dead(i)})
    + pending[t]

\* The keys whose idle entries an older credential generation left behind.
Superseded(k, ents) ==
    {j \in Keys : /\ j.server = k.server /\ j.tenant = k.tenant /\ j.credset = k.credset
                  /\ j.ver < k.ver
                  /\ ents[j] # None
                  /\ ~busyLocked(ents[j])}

releasePendingLocked(t) ==
    pending' = [pending EXCEPT ![t] = IF @ - 1 > 0 THEN @ - 1 ELSE 0]

\* An Id nothing refers to any more may name the next spawn.
Unused(i) ==
    /\ spawn[i].pc \in {"free", "done"}
    /\ conn[i] \in {"none", "dead"}
    /\ i \notin orphans
    /\ \A k \in Keys : entries[k] # i
    /\ \A c \in Caller : caller[c].sp # i /\ caller[c].e # i
    /\ \A j \in Id \ {i} : spawn[j].e # i

Return(c) == caller' = [caller EXCEPT ![c] = IdleCaller]

\* errEntryRetired: Get starts over, a bounded number of times.
Retry(c) ==
    IF caller[c].tries + 1 < getMaxAttempts
    THEN caller' = [caller EXCEPT ![c] = [caller[c] EXCEPT !.pc = "lookup", !.sp = None,
                                                           !.e = None, !.tries = @ + 1]]
    ELSE Return(c)

\* The common tail of get's first section: the caller becomes a counted waiter.
Queue(c, i) ==
    /\ entry' = [entry EXCEPT ![i] = [entry[i] EXCEPT !.idle = FALSE, !.waiters = @ + 1]]
    /\ caller' = [caller EXCEPT ![c] = [caller[c] EXCEPT !.pc = "sem", !.sp = None, !.e = i]]

-----------------------------------------------------------------------------
(* Get *)

Call(c, k) ==
    /\ caller[c].pc = "idle"
    /\ caller' = [caller EXCEPT ![c] = [IdleCaller EXCEPT !.pc = "lookup", !.key = k]]
    /\ UNCHANGED <<poolVars, spawn, entry, conn, def, now>>

GetClosed(c) ==
    /\ caller[c].pc = "lookup"
    /\ closed
    /\ Return(c)
    /\ UNCHANGED <<poolVars, spawn, entry, conn, def, now>>

GetHit(c) ==
    LET i == entries[caller[c].key] IN
    /\ caller[c].pc = "lookup"
    /\ ~closed
    /\ i # None
    /\ ~PastUse(i)
    /\ Queue(c, i)
    /\ UNCHANGED <<poolVars, spawn, conn, def, now>>

\* The entry under k, if there is one, is dead or past its deadline: it is
\* closed, or orphaned when it still has work and a connection to do it on.
\* Idle entries of older generations are closed in the same section.
Replace(k) ==
    LET i    == entries[k]
        own  == IF i = None THEN {} ELSE {i}
        busy == {j \in own : ~Dead(j) /\ busyLocked(j)}
        sup  == Superseded(k, [entries EXCEPT ![k] = None])
    IN  /\ entries' = [j \in Keys |-> IF j = k \/ j \in sup THEN None ELSE entries[j]]
        /\ orphans' = orphans \cup busy
        /\ conn' = ClosedBy((own \ busy) \cup {entries[j] : j \in sup})

\* get found nothing to use under the caller's key.
Miss(c) ==
    LET i == entries[caller[c].key] IN
    /\ caller[c].pc = "lookup"
    /\ ~closed
    /\ i # None => PastUse(i)
    /\ Replace(caller[c].key)

GetCircuitOpen(c) ==
    /\ Miss(c)
    /\ broken[caller[c].key].open
    /\ Return(c)
    /\ UNCHANGED <<spawning, pending, broken, closed, spawn, entry, def, now>>

GetAttach(c) ==
    LET k == caller[c].key IN
    /\ Miss(c)
    /\ ~broken[k].open
    /\ spawning[k] # None
    /\ caller' = [caller EXCEPT ![c] = [caller[c] EXCEPT !.pc = "spawn", !.sp = spawning[k]]]
    /\ UNCHANGED <<spawning, pending, broken, closed, spawn, entry, def, now>>

GetAtCap(c) ==
    LET k == caller[c].key IN
    /\ Miss(c)
    /\ ~broken[k].open
    /\ spawning[k] = None
    /\ tenantCountLocked(k.tenant, entries', orphans') >= MaxProcsPerTenant
    /\ Return(c)
    /\ UNCHANGED <<spawning, pending, broken, closed, spawn, entry, def, now>>

GetSpawn(c, i) ==
    LET k == caller[c].key IN
    /\ Miss(c)
    /\ ~broken[k].open
    /\ spawning[k] = None
    /\ tenantCountLocked(k.tenant, entries', orphans') < MaxProcsPerTenant
    /\ Unused(i)
    /\ pending' = [pending EXCEPT ![k.tenant] = @ + 1]
    /\ spawning' = [spawning EXCEPT ![k] = i]
    /\ spawn' = [spawn EXCEPT ![i] = [BlankSpawn EXCEPT !.pc = "factory", !.key = k]]
    /\ entry' = [entry EXCEPT ![i] = BlankEntry]
    /\ caller' = [caller EXCEPT ![c] = [caller[c] EXCEPT !.pc = "spawn", !.sp = i]]
    /\ UNCHANGED <<broken, closed, def, now>>

\* ctx.Done while the spawn runs: the caller leaves and the spawn runs on.
AbandonSpawn(c) ==
    /\ caller[c].pc = "spawn"
    /\ Return(c)
    /\ UNCHANGED <<poolVars, spawn, entry, conn, def, now>>

SpawnFailed(c) ==
    LET sp == spawn[caller[c].sp] IN
    /\ caller[c].pc = "spawn"
    /\ sp.pc = "done"
    /\ sp.err \notin {"none", "retired"}
    /\ Return(c)
    /\ UNCHANGED <<poolVars, spawn, entry, conn, def, now>>

SpawnRetired(c) ==
    LET sp == spawn[caller[c].sp] IN
    /\ caller[c].pc = "spawn"
    /\ sp.pc = "done"
    /\ sp.err = "retired"
    /\ Retry(c)
    /\ UNCHANGED <<poolVars, spawn, entry, conn, def, now>>

SpawnReady(c) ==
    LET sp == spawn[caller[c].sp] IN
    /\ caller[c].pc = "spawn"
    /\ sp.pc = "done"
    /\ sp.err = "none"
    /\ caller' = [caller EXCEPT ![c] = [caller[c] EXCEPT !.pc = "spawned", !.e = sp.e]]
    /\ UNCHANGED <<poolVars, spawn, entry, conn, def, now>>

\* The re-check after the spawn: the entry may have been retired meanwhile.
JoinSpawned(c) ==
    LET i == caller[c].e IN
    /\ caller[c].pc = "spawned"
    /\ entries[caller[c].key] = i
    /\ Queue(c, i)
    /\ UNCHANGED <<poolVars, spawn, conn, def, now>>

JoinTooLate(c) ==
    /\ caller[c].pc = "spawned"
    /\ entries[caller[c].key] # caller[c].e
    /\ Retry(c)
    /\ UNCHANGED <<poolVars, spawn, entry, conn, def, now>>

AcquireSlot(c) ==
    LET i == caller[c].e IN
    /\ caller[c].pc = "sem"
    /\ entry[i].slots < MaxConcurrent
    /\ entry' = [entry EXCEPT ![i].slots = @ + 1]
    /\ caller' = [caller EXCEPT ![c].pc = "slot"]
    /\ UNCHANGED <<poolVars, spawn, conn, def, now>>

CancelSlot(c) ==
    /\ caller[c].pc = "sem"
    /\ caller' = [caller EXCEPT ![c].pc = "leaving"]
    /\ UNCHANGED <<poolVars, spawn, entry, conn, def, now>>

LeaveQueue(c) ==
    LET i == caller[c].e IN
    /\ caller[c].pc = "leaving"
    /\ entry' = [entry EXCEPT ![i].waiters = @ - 1]
    /\ Return(c)
    /\ UNCHANGED <<poolVars, spawn, conn, def, now>>

\* The re-check after the semaphore, everything the lookup had checked.
Startable(c) ==
    LET i == caller[c].e IN
    entries[caller[c].key] = i /\ ~PastUse(i)

StartCall(c) ==
    LET i == caller[c].e IN
    /\ caller[c].pc = "slot"
    /\ Startable(c)
    /\ entry' = [entry EXCEPT ![i] = [entry[i] EXCEPT !.waiters = @ - 1, !.inflight = @ + 1]]
    /\ caller' = [caller EXCEPT ![c].pc = "running"]
    /\ UNCHANGED <<poolVars, spawn, conn, def, now>>

StartTooLate(c) ==
    LET i == caller[c].e IN
    /\ caller[c].pc = "slot"
    /\ ~Startable(c)
    /\ entry' = [entry EXCEPT ![i].waiters = @ - 1]
    /\ caller' = [caller EXCEPT ![c].pc = "backout"]
    /\ UNCHANGED <<poolVars, spawn, conn, def, now>>

\* Mutant: the slot is not handed on.
Backout_KeepsSlot(c) ==
    /\ caller[c].pc = "backout"
    /\ Retry(c)
    /\ UNCHANGED <<poolVars, spawn, entry, conn, def, now>>

Backout(c) ==
    LET i == caller[c].e IN
    /\ caller[c].pc = "backout"
    /\ entry' = [entry EXCEPT ![i].slots = @ - 1]
    /\ Retry(c)
    /\ UNCHANGED <<poolVars, spawn, conn, def, now>>

\* release, called when the call on the mux has ended: the slot goes back
\* first, the in-flight count follows under the lock.
ReleaseSlot(c) ==
    LET i == caller[c].e IN
    /\ caller[c].pc = "running"
    /\ entry' = [entry EXCEPT ![i].slots = @ - 1]
    /\ caller' = [caller EXCEPT ![c].pc = "released"]
    /\ UNCHANGED <<poolVars, spawn, conn, def, now>>

ReleaseEntry(c) ==
    LET i == caller[c].e IN
    /\ caller[c].pc = "released"
    /\ entry' = [entry EXCEPT ![i] = [entry[i] EXCEPT !.inflight = @ - 1, !.idle = FALSE]]
    /\ Return(c)
    /\ UNCHANGED <<poolVars, spawn, conn, def, now>>

-----------------------------------------------------------------------------
(* runSpawn *)

\* The factory resolves the definition through Reconciler.Current; a server
\* the live config does not have, or one that cannot be built, is an error.
FactoryOk(i) ==
    LET d == def[spawn[i].key.server] IN
    /\ spawn[i].pc = "factory"
    /\ d # NoDef
    /\ spawn' = [spawn EXCEPT ![i] = [spawn[i] EXCEPT !.pc = "stamp", !.def = d]]
    /\ UNCHANGED <<poolVars, entry, conn, caller, def, now>>

FactoryErr(i) ==
    /\ spawn[i].pc = "factory"
    /\ spawn' = [spawn EXCEPT ![i] = [spawn[i] EXCEPT !.pc = "unreserve", !.err = "factory"]]
    /\ UNCHANGED <<poolVars, entry, conn, caller, def, now>>

Stamp(i) ==
    /\ spawn[i].pc = "stamp"
    /\ spawn' = [spawn EXCEPT ![i] = [spawn[i] EXCEPT !.pc = "connect", !.built = now]]
    /\ UNCHANGED <<poolVars, entry, conn, caller, def, now>>

ConnectOk(i) ==
    /\ spawn[i].pc = "connect"
    /\ spawn' = [spawn EXCEPT ![i].pc = "install"]
    /\ conn' = [conn EXCEPT ![i] = "live"]
    /\ UNCHANGED <<poolVars, entry, caller, def, now>>

\* The backend failed to start, or the pool's own deadline or Shutdown
\* interrupted it.
ConnectErr(i) ==
    /\ spawn[i].pc = "connect"
    /\ spawn' = [spawn EXCEPT ![i] = [spawn[i] EXCEPT !.pc = "failed", !.err = "connect"]]
    /\ UNCHANGED <<poolVars, entry, conn, caller, def, now>>

\* fails is only ever compared with the threshold: it saturates there.
recordFailure(i) ==
    LET k == spawn[i].key
        n == IF broken[k].fails < BreakerThreshold THEN broken[k].fails + 1
                                                   ELSE BreakerThreshold
    IN  /\ spawn[i].pc = "failed"
        /\ broken' = [broken EXCEPT ![k] =
               [fails |-> n, open |-> IF n >= BreakerThreshold THEN TRUE ELSE @.open]]
        /\ spawn' = [spawn EXCEPT ![i].pc = "unreserve"]
        /\ UNCHANGED <<entries, orphans, spawning, pending, closed, entry, conn, caller, def, now>>

releasePending(i) ==
    /\ spawn[i].pc = "unreserve"
    /\ releasePendingLocked(spawn[i].key.tenant)
    /\ spawn' = [spawn EXCEPT ![i].pc = "unmap"]
    /\ UNCHANGED <<entries, orphans, spawning, broken, closed, entry, conn, caller, def, now>>

\* Mutant: what was built is dropped without being closed.
DiscardSpawn_Leaks(i) ==
    /\ spawn[i].pc = "install"
    /\ closed \/ spawn[i].stale
    /\ releasePendingLocked(spawn[i].key.tenant)
    /\ spawn' = [spawn EXCEPT ![i] =
           [spawn[i] EXCEPT !.pc = "unmap", !.err = IF closed THEN "closed" ELSE "retired"]]
    /\ UNCHANGED <<entries, orphans, spawning, broken, closed, entry, conn, caller, def, now>>

\* The installing section when the pool closed or the key was evicted while
\* the backend was starting.
DiscardSpawn(i) ==
    /\ spawn[i].pc = "install"
    /\ closed \/ spawn[i].stale
    /\ releasePendingLocked(spawn[i].key.tenant)
    /\ conn' = ClosedBy({i})
    /\ spawn' = [spawn EXCEPT ![i] =
           [spawn[i] EXCEPT !.pc = "unmap", !.err = IF closed THEN "closed" ELSE "retired"]]
    /\ UNCHANGED <<entries, orphans, spawning, broken, closed, entry, caller, def, now>>

\* Mutant: the pool having been shut down is not looked at.
InstallSpawn_IgnoresClosed(i) ==
    LET k == spawn[i].key IN
    /\ spawn[i].pc = "install"
    /\ ~spawn[i].stale
    /\ releasePendingLocked(k.tenant)
    /\ broken' = [broken EXCEPT ![k] = [fails |-> 0, open |-> FALSE]]
    /\ entries' = [entries EXCEPT ![k] = i]
    /\ spawn' = [spawn EXCEPT ![i] = [spawn[i] EXCEPT !.pc = "unmap", !.e = i]]
    /\ UNCHANGED <<orphans, spawning, closed, entry, conn, caller, def, now>>

\* The installing section proper.  An entry already live under the key wins
\* over the one just built.
InstallSpawn(i) ==
    LET k     == spawn[i].key
        e     == entries[k]
        adopt == e # None /\ ~Dead(e)
    IN  /\ spawn[i].pc = "install"
        /\ ~closed /\ ~spawn[i].stale
        /\ releasePendingLocked(k.tenant)
        /\ broken' = [broken EXCEPT ![k] = [fails |-> 0, open |-> FALSE]]
        /\ entries' = [entries EXCEPT ![k] = IF adopt THEN e ELSE i]
        /\ conn' = ClosedBy(IF adopt THEN {i} ELSE {})
        /\ spawn' = [spawn EXCEPT ![i] =
               [spawn[i] EXCEPT !.pc = "unmap", !.e = IF adopt THEN e ELSE i]]
        /\ UNCHANGED <<orphans, spawning, closed, entry, caller, def, now>>

UnmapSpawn(i) ==
    LET k == spawn[i].key IN
    /\ spawn[i].pc = "unmap"
    /\ spawning' = [spawning EXCEPT ![k] = IF @ = i THEN None ELSE @]
    /\ spawn' = [spawn EXCEPT ![i].pc = "signal"]
    /\ UNCHANGED <<entries, orphans, pending, broken, closed, entry, conn, caller, def, now>>

SignalDone(i) ==
    /\ spawn[i].pc = "signal"
    /\ spawn' = [spawn EXCEPT ![i].pc = "done"]
    /\ UNCHANGED <<poolVars, entry, conn, caller, def, now>>

-----------------------------------------------------------------------------
(* The reaper, eviction and Shutdown *)

Reapable(i) == Dead(i) \/ (~busyLocked(i) /\ (entry[i].idle \/ entry[i].expired))

\* Mutant: an orphan is collected only when its connection dies.
Drained_OnlyDead(i) == Dead(i)

Drained(i) == Dead(i) \/ ~busyLocked(i)

reap ==
    LET victims == {k \in Keys : entries[k] # None /\ Reapable(entries[k])}
        drained == {i \in orphans : Drained(i)}
    IN  /\ entries' = [k \in Keys |-> IF k \in victims THEN None ELSE entries[k]]
        /\ orphans' = orphans \ drained
        /\ conn' = ClosedBy({entries[k] : k \in victims} \cup drained)
        /\ UNCHANGED <<spawning, pending, broken, closed, spawn, entry, caller, def, now>>

\* An installed entry always carries its spawn's stamp.
definedAfter(i, since) == spawn[i].built > since

\* Mutant: the spawns in flight are left alone.
evictServer_KeepsSpawns(s, since) ==
    LET victims == {k \in Keys : /\ k.server = s
                                 /\ entries[k] # None
                                 /\ definedAfter(entries[k], since)}
        lost    == {i \in orphans : spawn[i].key.server = s /\ definedAfter(i, since)}
    IN  /\ entries' = [k \in Keys |-> IF k \in victims THEN None ELSE entries[k]]
        /\ orphans' = orphans \ lost
        /\ conn' = ClosedBy({entries[k] : k \in victims} \cup lost)
        /\ broken' = [k \in Keys |-> IF k.server = s THEN [fails |-> 0, open |-> FALSE]
                                                     ELSE broken[k]]
        /\ UNCHANGED <<spawning, pending, closed, spawn, entry, caller, def, now>>

\* EvictServer is EvictServerSince the zero time.
evictServer(s, since) ==
    LET victims == {k \in Keys : /\ k.server = s
                                 /\ entries[k] # None
                                 /\ definedAfter(entries[k], since)}
        lost    == {i \in orphans : spawn[i].key.server = s /\ definedAfter(i, since)}
        running == {spawning[k] : k \in {j \in Keys : j.server = s /\ spawning[j] # None}}
    IN  /\ entries' = [k \in Keys |-> IF k \in victims THEN None ELSE entries[k]]
        /\ orphans' = orphans \ lost
        /\ conn' = ClosedBy({entries[k] : k \in victims} \cup lost)
        /\ broken' = [k \in Keys |-> IF k.server = s THEN [fails |-> 0, open |-> FALSE]
                                                     ELSE broken[k]]
        /\ spawn' = [i \in Id |->
               IF i \in running /\ (spawn[i].built = 0 \/ spawn[i].built > since)
               THEN [spawn[i] EXCEPT !.stale = TRUE]
               ELSE spawn[i]]
        /\ UNCHANGED <<spawning, pending, closed, entry, caller, def, now>>

Shutdown ==
    /\ closed' = TRUE
    /\ entries' = [k \in Keys |-> None]
    /\ orphans' = {}
    /\ conn' = ClosedBy(orphans \cup {entries[k] : k \in {j \in Keys : entries[j] # None}})
    /\ UNCHANGED <<spawning, pending, broken, spawn, entry, caller, def, now>>

-----------------------------------------------------------------------------
(* The environment *)

HasMux(i) == spawn[i].e = i

\* The read loop of an installed connection hits an error.
ConnDies(i) ==
    /\ conn[i] = "live"
    /\ HasMux(i)
    /\ conn' = [conn EXCEPT ![i] = "dead"]
    /\ UNCHANGED <<poolVars, spawn, entry, caller, def, now>>

CloseDone(i) ==
    /\ conn[i] = "closing"
    /\ conn' = [conn EXCEPT ![i] = "dead"]
    /\ UNCHANGED <<poolVars, spawn, entry, caller, def, now>>

DeadlinePasses(i) ==
    /\ HasMux(i)
    /\ conn[i] = "live"
    /\ ~entry[i].expired
    /\ entry' = [entry EXCEPT ![i].expired = TRUE]
    /\ UNCHANGED <<poolVars, spawn, conn, caller, def, now>>

\* More than IdleTTL since lastUsed.  Idleness is read only of an entry that
\* is not busy, so it is raised only then.
GoesIdle(i) ==
    /\ HasMux(i)
    /\ conn[i] = "live"
    /\ ~busyLocked(i) /\ ~entry[i].idle
    /\ entry' = [entry EXCEPT ![i].idle = TRUE]
    /\ UNCHANGED <<poolVars, spawn, conn, caller, def, now>>

CooldownEnds(k) ==
    /\ broken[k].open
    /\ broken' = [broken EXCEPT ![k].open = FALSE]
    /\ UNCHANGED <<entries, orphans, spawning, pending, closed, spawn, entry, conn, caller, def, now>>

Tick ==
    /\ now < MaxNow
    /\ now' = now + 1
    /\ UNCHANGED <<poolVars, spawn, entry, conn, caller, def>>

-----------------------------------------------------------------------------

CallerStep(c) ==
    \/ GetClosed(c) \/ GetHit(c) \/ GetCircuitOpen(c) \/ GetAttach(c) \/ GetAtCap(c)
    \/ \E i \in Id : GetSpawn(c, i)
    \/ SpawnFailed(c) \/ SpawnRetired(c) \/ SpawnReady(c) \/ AbandonSpawn(c)
    \/ JoinSpawned(c) \/ JoinTooLate(c)
    \/ AcquireSlot(c) \/ CancelSlot(c) \/ LeaveQueue(c)
    \/ StartCall(c) \/ StartTooLate(c) \/ Backout(c)
    \/ ReleaseSlot(c) \/ ReleaseEntry(c)

SpawnStep(i) ==
    \/ FactoryOk(i) \/ FactoryErr(i) \/ Stamp(i) \/ ConnectOk(i) \/ ConnectErr(i)
    \/ recordFailure(i) \/ releasePending(i) \/ DiscardSpawn(i) \/ InstallSpawn(i)
    \/ UnmapSpawn(i) \/ SignalDone(i)

\* What happens to a connection and to an entry's deadlines by itself.
EnvStep(i) == ConnDies(i) \/ CloseDone(i) \/ DeadlinePasses(i) \/ GoesIdle(i)

\* Every step that is the pool's, its callers' or time's; eviction belongs
\* to whoever drives a reload.
PoolStep ==
    \/ \E c \in Caller, k \in Keys : Call(c, k)
    \/ \E c \in Caller : CallerStep(c)
    \/ \E i \in Id : SpawnStep(i) \/ EnvStep(i)
    \/ \E k \in Keys : CooldownEnds(k)
    \/ reap
    \/ Shutdown

Next ==
    \/ PoolStep
    \/ \E s \in Server : \E since \in 0..now : evictServer(s, since)
    \/ Tick

Spec == Init /\ [][Next]_vars

\* The pool between two reloads.
PoolSpec == Init /\ [][PoolStep]_vars

\* Every lock is granted (a sync.Mutex does not starve a waiter), the factory and Connect return (SpawnTimeout bounds
\* the second), done is closed, calls end and release, the reaper ticks and a
\* close finishes.  The semaphore is a channel, which serves its senders in
\* order: a caller is not passed over for ever.  No caller ever has to give up.
Progress(c) ==
    \/ GetClosed(c) \/ GetHit(c) \/ GetCircuitOpen(c) \/ GetAttach(c) \/ GetAtCap(c)
    \/ \E i \in Id : GetSpawn(c, i)
    \/ SpawnFailed(c) \/ SpawnRetired(c) \/ SpawnReady(c)
    \/ JoinSpawned(c) \/ JoinTooLate(c) \/ LeaveQueue(c)
    \/ StartCall(c) \/ StartTooLate(c) \/ Backout(c)
    \/ ReleaseSlot(c) \/ ReleaseEntry(c)

Fairness ==
    /\ \A c \in Caller : SF_vars(Progress(c)) /\ SF_vars(AcquireSlot(c))
    /\ \A i \in Id : WF_vars(SpawnStep(i)) /\ WF_vars(CloseDone(i))
    /\ WF_vars(reap)

FairSpec == Spec /\ Fairness

-----------------------------------------------------------------------------
(* Properties *)

\* The callers counted by each of an entry's three counters.
Waiting(i) == {c \in Caller : caller[c].e = i /\ caller[c].pc \in {"sem", "slot", "leaving"}}
InFlight(i) == {c \in Caller : caller[c].e = i /\ caller[c].pc \in {"running", "released"}}
Holding(i) == {c \in Caller : caller[c].e = i /\ caller[c].pc \in {"slot", "backout", "running"}}

\* The spawns a tenant has been admitted for and that still hold the slot.
Reserving == {"factory", "stamp", "connect", "failed", "unreserve", "install"}
Reserved(t) == {i \in Id : spawn[i].pc \in Reserving /\ spawn[i].key.tenant = t}

Pooled == orphans \cup {entries[k] : k \in {j \in Keys : entries[j] # None}}

\* pool.go:41 and :187: an entry's counters are exactly the callers in the
\* states they stand for, through every cancellation, late start and split
\* release, so no slot is ever lost and none is handed out twice; and no
\* more than MaxConcurrent calls ever hold one connection.
CountersExact ==
    \A i \in Id :
        /\ entry[i].waiters = Cardinality(Waiting(i))
        /\ entry[i].inflight = Cardinality(InFlight(i))
        /\ entry[i].slots = Cardinality(Holding(i))
        /\ entry[i].slots <= MaxConcurrent

\* pool.go:42 and :570: whatever is starting, serving or draining for a
\* tenant never exceeds MaxProcsPerTenant, and the slot a spawn reserved is
\* given back exactly once on each of its ways out.
CapRespected ==
    \A t \in Tenant :
        /\ pending[t] = Cardinality(Reserved(t))
        /\ tenantCountLocked(t, entries, orphans) <= MaxProcsPerTenant

\* pool.go:126 and :442: a key has at most one backend starting, and while
\* it has one it has no entry, so a spawn never finds its place taken.
SpawnExclusive ==
    /\ \A i, j \in Id : /\ spawn[i].pc \in Reserving /\ spawn[j].pc \in Reserving
                       /\ spawn[i].key = spawn[j].key
                       => i = j
    /\ \A i \in Id : spawn[i].pc \in Reserving => entries[spawn[i].key] = None

\* pool.go:129 and :435: a connection nobody has told to close is always in
\* the hands of a spawn about to install it, mapped, or orphaned.  After
\* Shutdown only the first is left.
NoLeakedConn ==
    \A i \in Id : conn[i] = "live" => spawn[i].pc = "install" \/ i \in Pooled

\* pool.go:26: a call runs on the connection of its own key, so tenants and
\* credential generations never share one, whatever happened to the entry
\* between the lookup and the start of the call.
KeyIsolation ==
    \A c \in Caller :
        caller[c].e # None => spawn[caller[c].e].key = caller[c].key

\* pool.go:129 ("an age-out must never kill live work"): a connection with
\* calls running or queued on it is closed under them only by an eviction or
\* by Shutdown, never by a Get replacing it, a rotation or the reaper.
AgingSparesWork ==
    [][\A i \in Id :
          conn[i] = "live" /\ conn'[i] = "closing" /\ Waiting(i) \cup InFlight(i) # {}
          => Shutdown \/ \E s \in Server : \E date \in 0..now : evictServer(s, date)]_vars

\* pool.go:303 and :334: a Get comes back, with a connection or with an error,
\* even for a caller that never gives up: no wake-up is lost between a spawn
\* and its waiters, and no slot is lost to a caller that starts over.
GetReturns ==
    \A c \in Caller : caller[c].pc = "lookup" ~> caller[c].pc \in {"running", "idle"}

\* pool.go:619: an orphan is closed once its calls drain.
OrphansCollected == \A i \in Id : i \in orphans ~> i \notin orphans

\* pool.go:726: after Shutdown every connection is closed, those of backends
\* that were still starting included, and none is opened again.
ShutdownDrains == closed ~> [](\A i \in Id : conn[i] \notin {"live", "closing"})
=============================================================================
