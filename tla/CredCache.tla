------------------------------ MODULE CredCache ------------------------------
(***************************************************************************)
(* The credential cache, pkg/backend/cred/cached.go, for one key: callers  *)
(* of ResolveGen, the refresh-ahead goroutine, Invalidate, and the source  *)
(* behind them, which rotates its material in its own time.                *)
(*                                                                         *)
(* A deadline (expiry, refreshAt, retryAt, invalidateAt) is a flag that    *)
(* time raises or clears; how long a backoff lasts is left out, and with   *)
(* it the counts it is computed from.  The epoch a refresh starts with is  *)
(* compared once, so it is kept as "the entry has moved since".            *)
(*                                                                         *)
(* A conversation with the source reads its material at one moment and     *)
(* delivers it at a later one.                                             *)
(***************************************************************************)
EXTENDS Integers, FiniteSets

CONSTANTS
    Caller,      \* goroutines calling ResolveGen
    None,
    MaxMat,      \* model bound: rotations of the source
    MaxSweep     \* model bound: entries dropped by the idle sweep

\* old marks, as history, a conversation begun before the last Invalidate.
Creds == [mat : Nat, old : BOOLEAN]

ASSUME NoneAssumption == None \notin Caller \cup Nat \cup Creds
ASSUME BoundAssumption == MaxMat \in Nat /\ MaxSweep \in Nat

VARIABLES
    source,     \* the material the source holds, a number per rotation
    globalGen,  \* globalGen
    present,    \* the key is in CachedResolver.entries
    creds,      \* cacheEntry.creds
    life,       \* how old they are: "early", "due" (past refreshAt) or "expired"
    gen,        \* cacheEntry.gen
    gone,       \* cacheEntry.gone
    refresh,    \* refreshing, the goroutine, and whether the epoch moved under it
    backoff,    \* retryAt is ahead
    window,     \* invalidateAt is ahead
    holder,     \* who holds cacheEntry.mu across inner.Resolve
    pc,         \* where each caller is
    answer,     \* the material a foreground conversation has read
    sweeps,     \* entries dropped so far
    served,     \* history: what callers were given
    last        \* history: the material last stored for the key

envVars == <<source, globalGen, sweeps>>
entryVars == <<creds, life, gen, gone, backoff, window>>
callVars == <<holder, pc, answer>>
vars == <<envVars, present, entryVars, refresh, callVars, served, last>>

Refresh == [on : BOOLEAN, moved : BOOLEAN, old : BOOLEAN, mat : Nat \cup {None}]
NoRefresh == [on |-> FALSE, moved |-> FALSE, old |-> FALSE, mat |-> None]

TypeOK ==
    /\ source \in Nat /\ globalGen \in Nat /\ sweeps \in Nat
    /\ present \in BOOLEAN
    /\ creds \in Creds \cup {None}
    /\ life \in {"early", "due", "expired"}
    /\ gen \in Nat
    /\ gone \in Nat \cup {None}
    /\ refresh \in Refresh
    /\ backoff \in BOOLEAN /\ window \in BOOLEAN
    /\ holder \in Caller \cup {None}
    /\ pc \in [Caller -> {"idle", "start", "waiting", "asking", "answering"}]
    /\ answer \in Nat \cup {None}
    /\ served \subseteq [gen : Nat, mat : Nat]
    /\ last \in Nat \cup {None}

Init ==
    /\ source = 0 /\ globalGen = 0 /\ sweeps = 0
    /\ present = FALSE
    /\ creds = None /\ life = "early" /\ gen = 0 /\ gone = None
    /\ refresh = NoRefresh
    /\ backoff = FALSE /\ window = FALSE
    /\ holder = None
    /\ pc = [c \in Caller |-> "idle"]
    /\ answer = None
    /\ served = {} /\ last = None

-----------------------------------------------------------------------------
(* ResolveGen *)

Goes(c, to) == pc' = [pc EXCEPT ![c] = to]

\* The entry is looked up or made; its lock comes next.
Call(c) ==
    /\ pc[c] = "idle"
    /\ Goes(c, "start")
    /\ present' = TRUE
    /\ UNCHANGED <<envVars, entryVars, refresh, holder, answer, served, last>>

Valid == creds # None /\ life # "expired"

Locks(c) == pc[c] = "start" /\ holder = None

\* Served at once; the first caller past refreshAt starts the refresh.
ServeValid(c) ==
    /\ Locks(c) /\ Valid
    /\ refresh' = IF life = "due" /\ ~refresh.on /\ ~backoff
                  THEN [on |-> TRUE, moved |-> FALSE, old |-> FALSE, mat |-> None] ELSE refresh
    /\ served' = served \cup {[gen |-> gen, mat |-> creds.mat]}
    /\ Goes(c, "idle")
    /\ UNCHANGED <<envVars, present, entryVars, holder, answer, last>>

WaitRefresh(c) ==
    /\ Locks(c) /\ ~Valid
    /\ refresh.on
    /\ Goes(c, "waiting")
    /\ UNCHANGED <<envVars, present, entryVars, refresh, holder, answer, served, last>>

\* The memoized failure.
FailFast(c) ==
    /\ Locks(c) /\ ~Valid
    /\ ~refresh.on /\ backoff
    /\ Goes(c, "idle")
    /\ UNCHANGED <<envVars, present, entryVars, refresh, holder, answer, served, last>>

\* Mutant: an expired key is resolved alongside its slow refresh.
Ask_Alongside(c) ==
    /\ Locks(c) /\ ~Valid
    /\ ~backoff
    /\ holder' = c
    /\ Goes(c, "asking")
    /\ UNCHANGED <<envVars, present, entryVars, refresh, answer, served, last>>

\* inner.Resolve, under the entry's lock.
Ask(c) ==
    /\ Locks(c) /\ ~Valid
    /\ ~refresh.on /\ ~backoff
    /\ holder' = c
    /\ Goes(c, "asking")
    /\ UNCHANGED <<envVars, present, entryVars, refresh, answer, served, last>>

SourceReads(c) ==
    /\ pc[c] = "asking"
    /\ answer' = source
    /\ Goes(c, "answering")
    /\ UNCHANGED <<envVars, present, entryVars, refresh, holder, served, last>>

Material == IF creds # None THEN creds.mat ELSE gone

\* Mutant: the generation is the entry's own count.
store_LocalGen(m, o) ==
    LET moved == Material # m IN
    /\ UNCHANGED globalGen
    /\ gen' = IF moved THEN gen + 1 ELSE gen
    /\ window' = IF moved THEN FALSE ELSE creds = None \/ window
    /\ creds' = [mat |-> m, old |-> o]
    /\ gone' = None
    /\ backoff' = FALSE
    /\ last' = m

\* The generation advances when the material did, compared with what the
\* entry last held, what Invalidate dropped included.  A refetch that brings
\* the same material back opens the window in which Invalidate does nothing.
store(m, o) ==
    LET moved == Material # m IN
    /\ globalGen' = IF moved THEN globalGen + 1 ELSE globalGen
    /\ gen' = IF moved THEN globalGen + 1 ELSE gen
    /\ window' = IF moved THEN FALSE ELSE creds = None \/ window
    /\ creds' = [mat |-> m, old |-> o]
    /\ gone' = None
    /\ backoff' = FALSE
    /\ last' = m

\* store takes the time read before the source was asked, so material may
\* have expired on the way.
ResolveOk(c) ==
    /\ pc[c] = "answering"
    /\ store(answer, FALSE)
    /\ life' \in {"early", "expired"}
    /\ served' = served \cup {[gen |-> gen', mat |-> answer]}
    /\ refresh' = [refresh EXCEPT !.moved = refresh.on]
    /\ holder' = None /\ answer' = None
    /\ Goes(c, "idle")
    /\ UNCHANGED <<source, sweeps, present>>

\* An error, or material already expired, is memoized, unless it was the
\* caller that gave up.
ResolveErr(c) ==
    /\ pc[c] \in {"asking", "answering"}
    /\ backoff' \in {TRUE, backoff}
    /\ holder' = None /\ answer' = None
    /\ Goes(c, "idle")
    /\ UNCHANGED <<envVars, present, creds, life, gen, gone, window, refresh, served, last>>

WaitCancelled(c) ==
    /\ pc[c] = "waiting"
    /\ Goes(c, "idle")
    /\ UNCHANGED <<envVars, present, entryVars, refresh, holder, answer, served, last>>

-----------------------------------------------------------------------------
(* refreshAhead *)

RefreshReads ==
    /\ refresh.on /\ refresh.mat = None
    /\ refresh' = [refresh EXCEPT !.mat = source]
    /\ UNCHANGED <<envVars, present, entryVars, callVars, served, last>>

\* close(e.refreshDone)
WakeAll == pc' = [c \in Caller |-> IF pc[c] = "waiting" THEN "start" ELSE pc[c]]

\* Mutant: a superseded refresh returns before it wakes those parked on it.
RefreshSuperseded_Silent ==
    /\ refresh.on /\ holder = None
    /\ refresh.moved
    /\ refresh' = NoRefresh
    /\ UNCHANGED <<envVars, present, entryVars, callVars, served, last>>

RefreshSuperseded ==
    /\ refresh.on /\ holder = None
    /\ refresh.moved
    /\ WakeAll
    /\ refresh' = NoRefresh
    /\ UNCHANGED <<envVars, present, entryVars, holder, answer, served, last>>

\* Mutant: the result is stored whatever happened to the entry meanwhile.
RefreshOk_LastWriter ==
    /\ refresh.on /\ holder = None
    /\ refresh.mat # None
    /\ store(refresh.mat, refresh.old)
    /\ life' = "early"
    /\ WakeAll
    /\ refresh' = NoRefresh
    /\ UNCHANGED <<source, sweeps, present, holder, answer, served>>

RefreshOk ==
    /\ refresh.on /\ holder = None
    /\ ~refresh.moved /\ refresh.mat # None
    /\ store(refresh.mat, refresh.old)
    /\ life' = "early"
    /\ WakeAll
    /\ refresh' = NoRefresh
    /\ UNCHANGED <<source, sweeps, present, holder, answer, served>>

RefreshErr ==
    /\ refresh.on /\ holder = None
    /\ ~refresh.moved
    /\ backoff' = TRUE
    /\ WakeAll
    /\ refresh' = NoRefresh
    /\ UNCHANGED <<envVars, present, creds, life, gen, gone, window, holder, answer, served, last>>

-----------------------------------------------------------------------------
(* Invalidate, the sweep, the source and time *)

\* A backend answered 401.  With nothing cached to drop it only clears the
\* backoff, once per window.
Invalidate ==
    /\ present /\ holder = None
    /\ ~window
    /\ IF creds = None
       THEN window' = TRUE /\ UNCHANGED <<creds, gone>>
       ELSE creds' = None /\ gone' = creds.mat /\ UNCHANGED window
    /\ backoff' = FALSE
    /\ refresh' = IF refresh.on THEN [refresh EXCEPT !.moved = TRUE, !.old = TRUE] ELSE refresh
    /\ UNCHANGED <<envVars, present, life, gen, callVars, served, last>>

\* Another key's lookup drops an entry nobody has used for half an hour: far
\* longer than a refresh or a resolution may take.
Sweep ==
    /\ present /\ sweeps < MaxSweep
    /\ ~refresh.on /\ \A c \in Caller : pc[c] = "idle"
    /\ present' = FALSE /\ sweeps' = sweeps + 1
    /\ creds' = None /\ gone' = None /\ gen' = 0 /\ life' = "early"
    /\ backoff' = FALSE /\ window' = FALSE
    /\ last' = None
    /\ UNCHANGED <<source, globalGen, refresh, callVars, served>>

Rotate ==
    /\ source < MaxMat
    /\ source' = source + 1
    /\ UNCHANGED <<globalGen, sweeps, present, entryVars, refresh, callVars, served, last>>

Age ==
    /\ creds # None /\ life # "expired"
    /\ life' = IF life = "early" THEN "due" ELSE "expired"
    /\ UNCHANGED <<envVars, present, creds, gen, gone, backoff, window, refresh, callVars, served, last>>

BackoffEnds ==
    /\ backoff /\ backoff' = FALSE
    /\ UNCHANGED <<envVars, present, creds, life, gen, gone, window, refresh, callVars, served, last>>

WindowEnds ==
    /\ window /\ window' = FALSE
    /\ UNCHANGED <<envVars, present, creds, life, gen, gone, backoff, refresh, callVars, served, last>>

-----------------------------------------------------------------------------

\* Steps a caller takes on its own once it has been called.
Resolves(c) ==
    \/ ServeValid(c) \/ WaitRefresh(c) \/ FailFast(c) \/ Ask(c)
    \/ SourceReads(c) \/ ResolveOk(c) \/ ResolveErr(c)

refreshAhead == RefreshReads \/ RefreshSuperseded \/ RefreshOk \/ RefreshErr

Next ==
    \/ \E c \in Caller : Call(c) \/ Resolves(c) \/ WaitCancelled(c)
    \/ refreshAhead
    \/ Invalidate \/ Sweep
    \/ Rotate \/ Age \/ BackoffEnds \/ WindowEnds

Spec == Init /\ [][Next]_vars

\* A mutex does not starve, and every conversation with the source ends within
\* its timeout.
FairSpec ==
    /\ Spec
    /\ \A c \in Caller : SF_vars(Resolves(c))
    /\ SF_vars(refreshAhead)

-----------------------------------------------------------------------------
(* Properties *)

\* cached.go:162: one source, one conversation.  A foreground resolve and a
\* refresh never run side by side, so no refresh token is presented twice.
OneConversation ==
    /\ refresh.on => holder = None
    /\ \A c \in Caller : pc[c] \in {"asking", "answering"} => holder = c

\* cached.go:211 and :308: what is cached was asked for after the last
\* Invalidate took effect; a refresh already under way then cannot bring the
\* rejected credential back.
InvalidatedStaysOut == creds # None => ~creds.old

\* cached.go:44 and :268: a generation names one material, whatever sweeps,
\* invalidations and refreshes lie between two answers: a pool key built from
\* it can never alias a backend holding other credentials.
GenNamesMaterial == \A a, b \in served : a.gen = b.gen => a.mat = b.mat

\* cached.go:62 and :98: material that comes back unchanged keeps its
\* generation, through refreshes and through Invalidate, so pooled backends
\* are not churned.
NoChurn == [][gen' # gen /\ creds' # None => creds'.mat # last]_vars

\* cached.go:224: a caller parked on a refresh is woken when it ends, however
\* it ends.
ParkedIsWoken == \A c \in Caller : pc[c] = "waiting" ~> pc[c] # "waiting"
=============================================================================
