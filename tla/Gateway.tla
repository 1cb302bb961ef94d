------------------------------ MODULE Gateway ------------------------------
(***************************************************************************)
(* What cmd/gateway.go puts together: a request is keyed by the credential *)
(* the proxy resolved for it (pkg/proxy), a missing backend is built by a  *)
(* factory that reads the live config and the credential registry once     *)
(* more, and meanwhile applyRevision publishes revisions, binds and stops  *)
(* the wire's services, evicts and prunes.                                 *)
(*                                                                         *)
(* A server's definition is abstracted to how it gets its credentials.     *)
(* The pool is the set of backends it can dispatch to (Pool.tla has the    *)
(* pool itself), a resolver the generation its cache holds for each        *)
(* identity (CredCache.tla has the cache), and a nil config the config     *)
(* that lists nothing.                                                     *)
(***************************************************************************)
EXTENDS Integers, Sequences, FiniteSets

CONSTANTS
    Server,
    Caller,      \* the {user} tokens that name an identity
    UserUnattributed,  \* the one that does not, "_"
    Req,
    Configs,     \* the revisions the source may deliver
    None,
    MaxRes, MaxGen, MaxPool  \* bounds: resolvers built, generations, backends

Kind == {"absent", "static", "shared", "user"}
User == Caller \cup {UserUnattributed}
Empty == [n \in Server |-> "absent"]

ASSUME GatewayAssumption ==
    /\ IsFiniteSet(Server) /\ IsFiniteSet(Req)
    /\ Configs \subseteq [Server -> Kind]
    /\ UserUnattributed \notin Caller
    /\ None \notin Configs /\ None \notin 1..MaxRes /\ None \notin Caller
    /\ MaxRes \in Nat /\ MaxGen \in Nat /\ MaxPool \in Nat

VARIABLES
    cur,       \* Reconciler.cur
    step,      \* where applyRevision is
    rev, prev, \* the revision being applied, and what it found live
    added,     \* the services this apply has started
    toEvict, all, \* the eviction: its servers, and whether since is zero
    failed,    \* Reconciler.failed
    svc,       \* a server's micro service
    entries,   \* the registry: each server's resolver
    resolver,  \* the resolvers built, with the generations they have cached
    globalGen, \* cred.globalGen
    pool,      \* the backends the pool holds
    req        \* the requests

applyVars == <<step, rev, prev, added, toEvict, all, failed, svc>>
credVars == <<entries, resolver, globalGen>>
vars == <<cur, applyVars, credVars, pool, req>>

Key == [server : Server, set : Caller \cup {None}, ver : 0..MaxGen]
\* The credentials a backend was built with: whose resolver, for whom.
Material == [res : 1..MaxRes, user : User, gen : 1..MaxGen]

ASSUME NoneAssumption == None \notin Material

Unsent == [pc |-> "none", server |-> None, user |-> None, snap |-> "absent", res |-> None,
           key |-> None, mat |-> None, stale |-> FALSE, recent |-> FALSE]

TypeOK ==
    /\ cur \in [Server -> Kind]
    /\ step \in {"idle", "publish", "wire", "undo", "rollback", "adopt", "evict", "prune"}
    /\ rev \in Configs \cup {None} /\ prev \in [Server -> Kind] \cup {None}
    /\ added \subseteq Server /\ toEvict \subseteq Server
    /\ all \in BOOLEAN
    /\ failed \in Configs \cup {None}
    /\ svc \in [Server -> {"none", "serving", "kept"}]
    /\ entries \in [Server -> 1..MaxRes \cup {None}]
    /\ resolver \in Seq([kind : {"shared", "user"}, gens : [User -> 0..MaxGen]])
    /\ globalGen \in 0..MaxGen
    /\ \A b \in pool : b.key \in Key /\ b.mat \in Material \cup {None} /\ b.recent \in BOOLEAN
    /\ \A r \in Req : DOMAIN req[r] = DOMAIN Unsent

Init ==
    /\ cur = Empty /\ step = "idle"
    /\ rev = None /\ prev = None /\ failed = None
    /\ added = {} /\ toEvict = {} /\ all = FALSE
    /\ svc = [n \in Server |-> "none"]
    /\ entries = [n \in Server |-> None]
    /\ resolver = <<>> /\ globalGen = 0
    /\ pool = {}
    /\ req = [r \in Req |-> Unsent]

Lists(c) == {n \in Server : c[n] # "absent"}

-----------------------------------------------------------------------------
(* The registry and the resolvers *)

Dynamic(k) == k \in {"shared", "user"}

\* Mutant: what is not registered is built for whoever asks.
lookup_NotLive(n, k) ==
    CASE ~Dynamic(k) -> None
      [] Dynamic(k) /\ entries[n] # None /\ resolver[entries[n]].kind = k -> entries[n]
      [] OTHER -> Len(resolver) + 1

\* The resolver for server n as a caller that read definition k gets it: the
\* registered one if it is k's, else one built from the definition now live.
lookup(n, k) ==
    CASE ~Dynamic(k) -> None
      [] Dynamic(k) /\ entries[n] # None /\ resolver[entries[n]].kind = k -> entries[n]
      [] OTHER -> IF Dynamic(cur[n]) THEN Len(resolver) + 1 ELSE None

\* x is what lookup returned for n; a resolver not yet built is registered.
Registers(n, x) ==
    IF x # None /\ x > Len(resolver)
      THEN /\ x <= MaxRes
           /\ resolver' = Append(resolver, [kind |-> cur[n], gens |-> [u \in User |-> 0]])
           /\ entries' = [entries EXCEPT ![n] = x]
      ELSE UNCHANGED <<resolver, entries>>

\* resolver.ResolveGen for user u: what is cached, or the next generation.
Generation(x, u) == IF resolver[x].gens[u] # 0 THEN resolver[x].gens[u] ELSE globalGen + 1

ResolveGen(x, u) ==
    /\ Generation(x, u) <= MaxGen
    /\ resolver' = [resolver EXCEPT ![x].gens[u] = Generation(x, u)]
    /\ globalGen' = IF Generation(x, u) > globalGen THEN Generation(x, u) ELSE globalGen

\* The cached credential has expired, or an HTTP backend's 401 has invalidated
\* it, and its source has another by now (the same one keeps its generation).
Rotate(x, u) ==
    /\ resolver[x].gens[u] # 0
    /\ resolver' = [resolver EXCEPT ![x].gens[u] = 0]
    /\ UNCHANGED <<cur, applyVars, entries, globalGen, pool, req>>

-----------------------------------------------------------------------------
(* The proxy *)

At(r, pc) == req[r].pc = pc
\* It is answered, with a backend or an error.
Ends(r) == req' = [req EXCEPT ![r] = Unsent]

Arrive(r, n, u) ==
    /\ At(r, "none") /\ svc[n] # "none"
    /\ req' = [req EXCEPT ![r].pc = "creds", ![r].server = n, ![r].user = u]
    /\ UNCHANGED <<cur, applyVars, credVars, pool>>

\* px.Creds reads the live config.
ReadCurrent(r) ==
    /\ At(r, "creds")
    /\ req' = [req EXCEPT ![r].pc = "lookup", ![r].snap = cur[req[r].server]]
    /\ UNCHANGED <<cur, applyVars, credVars, pool>>

Keyed(n, set) ==
    [Unsent EXCEPT !.server = n, !.key = [server |-> n, set |-> set, ver |-> 0]]

\* It asks the registry, and the handler decides on the identity.
Lookup(r) ==
    LET n == req[r].server  x == lookup(n, req[r].snap)
        perUser == resolver'[x].kind = "user"
    IN
    /\ At(r, "lookup")
    /\ Registers(n, x)
    /\ CASE x = None ->
              req' = [req EXCEPT ![r] = [Keyed(n, None) EXCEPT !.pc = "get"]]
         [] x # None /\ perUser /\ req[r].user = UserUnattributed -> Ends(r)
         [] OTHER ->
              req' = [req EXCEPT ![r] = [Keyed(n, IF perUser THEN req[r].user ELSE None)
                                         EXCEPT !.pc = "resolve", !.res = x]]
    /\ UNCHANGED <<cur, applyVars, globalGen, pool>>

Identity(key) == IF key.set = None THEN UserUnattributed ELSE key.set

Resolve(r) ==
    LET x == req[r].res  u == Identity(req[r].key) IN
    /\ At(r, "resolve")
    /\ ResolveGen(x, u)
    /\ req' = [req EXCEPT ![r].pc = "get", ![r].res = None, ![r].key.ver = Generation(x, u)]
    /\ UNCHANGED <<cur, applyVars, entries, pool>>

ResolveFails(r) ==
    /\ At(r, "resolve") \/ At(r, "build")
    /\ req[r].res # None
    /\ Ends(r)
    /\ UNCHANGED <<cur, applyVars, credVars, pool>>

-----------------------------------------------------------------------------
(* Get, and the factory *)

Pooled(key) == {b \in pool : b.key = key}

Get(r) ==
    /\ At(r, "get")
    /\ IF Pooled(req[r].key) # {}
         THEN Ends(r)
         ELSE req' = [req EXCEPT ![r].pc = "factory", ![r].stale = FALSE, ![r].recent = TRUE]
    /\ UNCHANGED <<cur, applyVars, credVars, pool>>

\* The factory reads the live config.
FactoryReads(r) ==
    /\ At(r, "factory")
    /\ IF cur[req[r].server] = "absent"
         THEN Ends(r)
         ELSE req' = [req EXCEPT ![r].pc = "registry", ![r].snap = cur[req[r].server]]
    /\ UNCHANGED <<cur, applyVars, credVars, pool>>

FactoryLooksUp(r) ==
    LET n == req[r].server  x == lookup(n, req[r].snap) IN
    /\ At(r, "registry")
    /\ Registers(n, x)
    /\ req' = [req EXCEPT ![r].pc = "build", ![r].res = x]
    /\ UNCHANGED <<cur, applyVars, globalGen, pool>>

\* Mutant: the generation of what was resolved is not compared with the key's.
buildBackend_AnyGen(r) ==
    LET x == req[r].res  key == req[r].key  u == Identity(key) IN
    /\ At(r, "build")
    /\ IF key.set = None /\ req[r].snap = "user"
         THEN Ends(r) /\ UNCHANGED credVars
         ELSE /\ IF x = None THEN UNCHANGED <<resolver, globalGen>> ELSE ResolveGen(x, u)
              /\ UNCHANGED entries
              /\ req' = [req EXCEPT ![r].pc = "connect", ![r].res = None, ![r].recent = step # "idle",
                         ![r].mat = IF x = None THEN None
                                    ELSE [res |-> x, user |-> u, gen |-> Generation(x, u)]]
    /\ UNCHANGED <<cur, applyVars, pool>>

\* A per-user server is not built for a key without an identity, and nothing
\* is built from another generation than the key's.  The spawn is dated then.
buildBackend(r) ==
    LET x == req[r].res  key == req[r].key  u == Identity(key) IN
    /\ At(r, "build")
    /\ IF key.set = None /\ req[r].snap = "user"
         THEN Ends(r) /\ UNCHANGED credVars
         ELSE /\ IF x = None THEN UNCHANGED <<resolver, globalGen>> ELSE ResolveGen(x, u)
              /\ UNCHANGED entries
              /\ IF x # None /\ Generation(x, u) # key.ver
                   THEN Ends(r)
                   ELSE req' = [req EXCEPT ![r].pc = "connect", ![r].res = None, ![r].recent = step # "idle",
                                ![r].mat = IF x = None THEN None
                                           ELSE [res |-> x, user |-> u, gen |-> key.ver]]
    /\ UNCHANGED <<cur, applyVars, pool>>

\* Connected.  A spawn an eviction reached is dropped and its Get starts over;
\* one that finds another entry under its key adopts that.
Install(r) ==
    /\ At(r, "connect")
    /\ Cardinality(pool) < MaxPool \/ Pooled(req[r].key) # {} \/ req[r].stale
    /\ IF req[r].stale
         THEN /\ req' = [req EXCEPT ![r].pc = "get", ![r].snap = "absent",
                         ![r].mat = None, ![r].recent = FALSE]
              /\ UNCHANGED pool
         ELSE /\ Ends(r)
              /\ pool' = IF Pooled(req[r].key) # {} THEN pool
                         ELSE pool \cup {[key |-> req[r].key, mat |-> req[r].mat,
                                          kind |-> req[r].snap, recent |-> req[r].recent]}
    /\ UNCHANGED <<cur, applyVars, credVars>>

\* Reaped, retired or dead.
Leaves(b) ==
    /\ pool' = pool \ {b}
    /\ UNCHANGED <<cur, applyVars, credVars, req>>

-----------------------------------------------------------------------------
(* applyRevision: Apply, SetServers, prune *)

Changed(old, new) == {n \in Lists(old) \cap Lists(new) : old[n] # new[n]}

\* Adopted at once, which counts as an apply: prune follows.
ApplyUnchanged(c) ==
    /\ step = "idle" /\ c = cur
    /\ failed' = None
    /\ step' = "prune"
    /\ UNCHANGED <<cur, rev, prev, added, toEvict, all, svc, credVars, pool, req>>

\* The window opens: what is built from here on is recent.  A revision that
\* failed last time is not published.
ApplyBegin(c) ==
    /\ step = "idle" /\ c # cur
    /\ rev' = c /\ prev' = cur
    /\ step' = IF failed = c THEN "wire" ELSE "publish"
    /\ pool' = {[b EXCEPT !.recent = FALSE] : b \in pool}
    /\ req' = [r \in Req |-> IF At(r, "connect") THEN [req[r] EXCEPT !.recent = FALSE] ELSE req[r]]
    /\ UNCHANGED <<cur, added, toEvict, all, failed, svc, credVars>>

Publish ==
    /\ step = "publish"
    /\ cur' = rev
    /\ step' = "wire"
    /\ UNCHANGED <<rev, prev, added, toEvict, all, failed, svc, credVars, pool, req>>

AddService(n) ==
    /\ step = "wire"
    /\ n \in Lists(rev) /\ svc[n] = "none"
    /\ svc' = [svc EXCEPT ![n] = "serving"]
    /\ added' = added \cup {n}
    /\ UNCHANGED <<cur, step, rev, prev, toEvict, all, failed, credVars, pool, req>>

AddServiceFails(n) ==
    /\ step = "wire"
    /\ n \in Lists(rev) /\ svc[n] = "none"
    /\ step' = "undo"
    /\ UNCHANGED <<cur, rev, prev, added, toEvict, all, failed, svc, credVars, pool, req>>

\* Each of names is stopped and forgotten, or would not stop and is kept, in
\* which case it may still be answering.
stopLocked(names) ==
    \E keep \in SUBSET names :
        svc' = [n \in Server |-> IF n \in keep THEN "kept"
                                 ELSE IF n \in names THEN "none" ELSE svc[n]]

\* Mutant: what was added before the failure stays bound.
UndoAdds_Keeps ==
    /\ step = "undo"
    /\ failed' = rev
    /\ added' = {}
    /\ step' = IF failed = rev THEN "evict" ELSE "rollback"
    /\ UNCHANGED <<cur, rev, prev, toEvict, all, svc, credVars, pool, req>>

\* SetServers' rollback.  A revision that was never published leaves no more
\* to undo, and a refused one is not pruned for.
UndoAdds ==
    /\ step = "undo"
    /\ stopLocked(added)
    /\ failed' = rev
    /\ added' = {}
    /\ step' = IF failed = rev THEN "evict" ELSE "rollback"
    /\ UNCHANGED <<cur, rev, prev, toEvict, all, credVars, pool, req>>

Rollback ==
    /\ step = "rollback"
    /\ cur' = prev
    /\ toEvict' = Changed(prev, rev) \cup (Lists(rev) \ Lists(prev))
    /\ all' = FALSE
    /\ step' = "evict"
    /\ UNCHANGED <<rev, prev, added, failed, svc, credVars, pool, req>>

\* Every service is there: the stale ones are stopped, and what would not stop
\* is only reported.
StopStale ==
    /\ step = "wire"
    /\ \A n \in Lists(rev) : svc[n] # "none"
    /\ stopLocked({n \in Server : svc[n] # "none"} \ Lists(rev))
    /\ step' = "adopt" /\ added' = {}
    /\ UNCHANGED <<cur, rev, prev, toEvict, all, failed, credVars, pool, req>>

Adopt ==
    /\ step = "adopt"
    /\ cur' = rev /\ failed' = None
    /\ toEvict' = (Lists(prev) \ Lists(rev)) \cup Changed(prev, rev)
    /\ all' = TRUE
    /\ step' = "evict"
    /\ UNCHANGED <<rev, prev, added, svc, credVars, pool, req>>

Spawning(r) == req[r].pc \in {"factory", "registry", "build", "connect"}

\* Mutant: spawns under way are left to finish.
Evict_PoolOnly(n) ==
    /\ step = "evict" /\ n \in toEvict
    /\ toEvict' = toEvict \ {n}
    /\ pool' = {b \in pool : ~(b.key.server = n /\ (all \/ b.recent))}
    /\ UNCHANGED <<cur, step, rev, prev, added, all, failed, svc, credVars, req>>

\* EvictServer, or EvictServerSince the window opened.  A spawn that is not
\* dated yet counts as recent.
Evict(n) ==
    /\ step = "evict" /\ n \in toEvict
    /\ toEvict' = toEvict \ {n}
    /\ pool' = {b \in pool : ~(b.key.server = n /\ (all \/ b.recent))}
    /\ req' = [r \in Req |->
                 IF Spawning(r) /\ req[r].server = n /\ (all \/ req[r].recent)
                 THEN [req[r] EXCEPT !.stale = TRUE] ELSE req[r]]
    /\ UNCHANGED <<cur, step, rev, prev, added, all, failed, svc, credVars>>

\* Only after an apply that took.
EvictDone ==
    /\ step = "evict" /\ toEvict = {}
    /\ step' = IF all THEN "prune" ELSE "idle"
    /\ rev' = None /\ prev' = None /\ all' = FALSE
    /\ UNCHANGED <<cur, added, toEvict, failed, svc, credVars, pool, req>>

prune ==
    /\ step = "prune"
    /\ entries' = [n \in Server |-> IF n \in Lists(cur) THEN entries[n] ELSE None]
    /\ step' = "idle"
    /\ UNCHANGED <<cur, rev, prev, added, toEvict, all, failed, svc, resolver, globalGen, pool, req>>

-----------------------------------------------------------------------------

Proxy(r) ==
    \/ \E n \in Server, u \in User : Arrive(r, n, u)
    \/ ReadCurrent(r) \/ Lookup(r) \/ Resolve(r) \/ ResolveFails(r)
    \/ Get(r) \/ FactoryReads(r) \/ FactoryLooksUp(r) \/ buildBackend(r) \/ Install(r)

Apply ==
    \/ \E c \in Configs : ApplyUnchanged(c) \/ ApplyBegin(c)
    \/ Publish \/ UndoAdds \/ Rollback \/ StopStale \/ Adopt \/ EvictDone \/ prune
    \/ \E n \in Server : AddService(n) \/ AddServiceFails(n) \/ Evict(n)

Next ==
    \/ \E r \in Req : Proxy(r)
    \/ \E x \in DOMAIN resolver, u \in User : Rotate(x, u)
    \/ \E b \in pool : Leaves(b)
    \/ Apply

Spec == Init /\ [][Next]_vars

-----------------------------------------------------------------------------
(* Properties *)

\* proxy.go:127 and gateway.go:829: whatever was reloaded or rotated between
\* the proxy's resolve and the factory's, a backend holds the credential its
\* key names: the key's generation, resolved for the key's identity, by a
\* per-user resolver exactly if the key has an identity.
KeyedRight ==
    \A b \in pool : b.mat # None =>
        /\ b.mat.gen = b.key.ver
        /\ b.mat.user = Identity(b.key)
        /\ (resolver[b.mat.res].kind = "user") = (b.key.set # None)

\* A key as a request arriving now may come to have it: its generation is the
\* one its server's resolver has cached.
Current(key) ==
    /\ Dynamic(cur[key.server]) /\ lookup(key.server, cur[key.server]) \in DOMAIN resolver
    /\ key.ver = resolver[entries[key.server]].gens[Identity(key)]
    /\ key.ver # 0

\* gateway.go:1055: once an apply is over, a backend that can be dispatched to
\* gets its credentials the way its server is now configured to, so none serves
\* a server without the credentials, or with ones, that the config withdrew.
GrainFollowsConfig ==
    step = "idle" => \A b \in pool :
        /\ b.kind = cur[b.key.server]
        /\ Current(b.key) => b.mat # None

\* gateway.go:1121: once a revision has been adopted, the registry holds no
\* resolver, with the credentials in its cache, of a server it removed, and no
\* request that read an earlier config puts one back.
RegistryPruned ==
    step = "idle" /\ failed = None => \A n \in Server : entries[n] # None => n \in Lists(cur)

\* server.go:248: once an apply is over, adopted or refused, each server of the
\* live config has its service, and a service of another server is there only
\* because it would not stop.
Served ==
    step = "idle" => \A n \in Server :
        /\ n \in Lists(cur) => svc[n] # "none"
        /\ n \notin Lists(cur) => svc[n] # "serving"

\* gateway.go:800 ("the resolver is never asked for ""_"""): a per-user
\* resolver resolves nothing for a caller without an identity.
NeverAskedForUnattributed ==
    \A x \in DOMAIN resolver :
        resolver[x].kind = "user" => resolver[x].gens[UserUnattributed] = 0
=============================================================================
