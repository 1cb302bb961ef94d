------------------------------- MODULE Reload -------------------------------
(***************************************************************************)
(* A config reload against a working pool: Reconciler.Apply                *)
(* (pkg/reconcile/reconcile.go) publishes a revision, asks the wire to     *)
(* serve it, adopts it or rolls it back, and evicts the backends the       *)
(* revision made obsolete, while callers keep calling Get and spawns keep  *)
(* reading whatever definition is live.                                    *)
(*                                                                         *)
(* A config is abstracted to its server map.  Pool's variable def is       *)
(* Reconciler.cur: the factory reads it with no lock in common with Apply, *)
(* so every store and every eviction below is a step of its own.           *)
(***************************************************************************)
EXTENDS Pool

CONSTANT NoConfig   \* no revision: nothing has failed, nothing is being applied

Config == [Server -> Def \cup {NoDef}]

ASSUME NoConfigAssumption == NoConfig \notin Config

VARIABLES
    step,         \* where Apply is; r.mu serialises applies
    rev,          \* the revision being applied
    prev,         \* what cur held when the apply began
    windowStart,  \* the instant before rev could be read through Current
    published,    \* transition's `publish'
    toEvict,      \* the servers of the eviction still to be evicted
    since,        \* eviction.since
    failed,       \* Reconciler.failed, NoConfig when failedSeen is false
    serving       \* history: what has been pooled since before the window opened

applyVars == <<step, rev, prev, windowStart, published, toEvict, since, failed, serving>>
allVars == <<vars, applyVars>>

ApplyStep == {"idle", "window", "publish", "wire", "rollback", "evict"}

ReloadTypeOK ==
    /\ TypeOK
    /\ step \in ApplyStep
    /\ {rev, prev, failed} \subseteq Config \cup {NoConfig}
    /\ windowStart \in Nat /\ since \in Nat
    /\ published \in BOOLEAN
    /\ toEvict \subseteq Server
    /\ serving \subseteq Id

ReloadInit ==
    /\ Init
    /\ step = "idle"
    /\ rev = NoConfig /\ prev = NoConfig /\ failed = NoConfig
    /\ windowStart = 0 /\ since = 0
    /\ published = FALSE
    /\ toEvict = {} /\ serving = {}

-----------------------------------------------------------------------------
(* diffServers *)

Added(old, new)   == {s \in Server : old[s] = NoDef /\ new[s] # NoDef}
Removed(old, new) == {s \in Server : old[s] # NoDef /\ new[s] = NoDef}
Changed(old, new) == {s \in Server : old[s] # new[s] /\ old[s] # NoDef /\ new[s] # NoDef}

\* revisionKey identifies a revision by content.
failedBefore(c) == failed = c

-----------------------------------------------------------------------------
(* Apply *)

\* A revision whose servers are those already live is adopted at once.
ApplyUnchanged(c) ==
    /\ step = "idle"
    /\ c = def
    /\ failed' = NoConfig
    /\ UNCHANGED <<vars, step, rev, prev, windowStart, published, toEvict, since, serving>>

ApplyBegin(c) ==
    /\ step = "idle"
    /\ c # def
    /\ now < MaxNow
    /\ step' = "window"
    /\ rev' = c /\ prev' = def
    /\ UNCHANGED <<vars, windowStart, published, toEvict, since, failed, serving>>

\* time.Now(): every later reading is later than this one.
OpenWindow ==
    /\ step = "window"
    /\ windowStart' = now /\ now' = now + 1
    /\ published' = ~failedBefore(rev)
    /\ serving' = Pooled
    /\ step' = IF failedBefore(rev) THEN "wire" ELSE "publish"
    /\ UNCHANGED <<poolVars, spawn, entry, conn, caller, def, rev, prev, toEvict, since, failed>>

Publish ==
    /\ step = "publish"
    /\ def' = rev
    /\ step' = "wire"
    /\ UNCHANGED <<poolVars, spawn, entry, conn, caller, now, rev, prev, windowStart,
                   published, toEvict, since, failed, serving>>

\* ws.SetServers accepted the server set: adopt, and evict what changed.
WireAccepts ==
    /\ step = "wire"
    /\ def' = rev
    /\ failed' = NoConfig
    /\ toEvict' = Removed(prev, rev) \cup Changed(prev, rev)
    /\ since' = 0
    /\ step' = "evict"
    /\ UNCHANGED <<poolVars, spawn, entry, conn, caller, now, rev, prev, windowStart,
                   published, serving>>

\* ws.SetServers failed.  A revision that was never published leaves nothing
\* to undo.
WireRefuses ==
    /\ step = "wire"
    /\ failed' = rev
    /\ step' = IF published THEN "rollback" ELSE "evict"
    /\ UNCHANGED <<vars, rev, prev, windowStart, published, toEvict, since, serving>>

\* Mutant: the rollback evicts as an adopted revision does.
Rollback_EvictsAll ==
    /\ step = "rollback"
    /\ def' = prev
    /\ toEvict' = Changed(prev, rev) \cup Added(prev, rev)
    /\ since' = 0
    /\ step' = "evict"
    /\ UNCHANGED <<poolVars, spawn, entry, conn, caller, now, rev, prev, windowStart,
                   published, failed, serving>>

Rollback ==
    /\ step = "rollback"
    /\ def' = prev
    /\ toEvict' = Changed(prev, rev) \cup Added(prev, rev)
    /\ since' = windowStart
    /\ step' = "evict"
    /\ UNCHANGED <<poolVars, spawn, entry, conn, caller, now, rev, prev, windowStart,
                   published, failed, serving>>

\* One iteration of Reconciler.evict.
Evict(s) ==
    /\ step = "evict"
    /\ s \in toEvict
    /\ evictServer(s, since)
    /\ toEvict' = toEvict \ {s}
    /\ UNCHANGED <<step, rev, prev, windowStart, published, since, failed, serving>>

ApplyEnd ==
    /\ step = "evict"
    /\ toEvict = {}
    /\ step' = "idle"
    /\ rev' = NoConfig /\ prev' = NoConfig
    /\ windowStart' = 0 /\ since' = 0
    /\ published' = FALSE /\ serving' = {}
    /\ UNCHANGED <<vars, toEvict, failed>>

-----------------------------------------------------------------------------

Apply ==
    \/ \E c \in Config : ApplyUnchanged(c) \/ ApplyBegin(c)
    \/ OpenWindow \/ Publish \/ WireAccepts \/ WireRefuses \/ Rollback
    \/ \E s \in Server : Evict(s)
    \/ ApplyEnd

ReloadNext ==
    \/ /\ PoolStep
       /\ serving' = serving \cap Pooled'
       /\ UNCHANGED <<step, rev, prev, windowStart, published, toEvict, since, failed>>
    \/ Apply

ReloadSpec == ReloadInit /\ [][ReloadNext]_allVars

-----------------------------------------------------------------------------
(* Properties *)

\* A spawn that has read its definition and will install what it builds.
WillInstall(i) == spawn[i].pc \in {"stamp", "connect", "install"} /\ ~spawn[i].stale

\* reconcile.go:119 and :222: once an apply has finished, adopted or rolled
\* back, every backend the pool can still dispatch to, is draining, or is
\* about to install was built from the definition that is live, and a removed
\* server has none.
DefinitionsFresh ==
    step = "idle" =>
        \A i \in Id : i \in Pooled \/ WillInstall(i) => spawn[i].def = def[spawn[i].key.server]

\* reconcile.go:121 ("nor disturb work the previous config was already
\* serving"): the eviction of a refused revision closes nothing that was
\* pooled before the revision became reachable and has stayed so.
RefusedSparesPrev ==
    [][\A i \in Id :
          step = "evict" /\ failed = rev /\ (\E s \in Server : Evict(s)) /\ i \in serving
          => conn'[i] = conn[i]]_allVars
=============================================================================
