--------------------------- MODULE GatewayProofs ---------------------------
(***************************************************************************)
(* The safety of the gateway's wiring, for every set of servers, callers,  *)
(* requests and revisions and every bound, and of the source of its        *)
(* configuration.                                                          *)
(*                                                                         *)
(* The argument about credentials rests on generations being issued once:  *)
(* what a generation was issued for decides the grain of every key that    *)
(* carries it (Issued), so a backend whose generation is its key's was     *)
(* resolved by the resolver the key was made from.  A backend built        *)
(* without credentials, because the config it was built for had gone       *)
(* already, can serve no request made under a config that wants some: the  *)
(* resolver such a request asks never issued its key's generation (Missed).*)
(*                                                                         *)
(* The argument about a reload follows every backend, and every spawn that *)
(* has read the config and has not been evicted, through the steps of an   *)
(* apply (Fits): it was built for what is live, or will be evicted.        *)
(*                                                                         *)
(* The last section is about the source those revisions come from, for any *)
(* number of Watches and contents.  TriggerHonoured rests on two facts.    *)
(* Baseline: while a filter holds a baseline, that revision is on its way  *)
(* to Run, being applied, about to be cleared by Run's Retry, or live.     *)
(* Owing: a Watch at rest that owes a revision has it as its baseline and  *)
(* has recorded that it was swallowed, or a reload is on its way.          *)
(***************************************************************************)
EXTENDS Gateway, ConfigFeed, SequenceTheorems, TLAPS

-----------------------------------------------------------------------------
(* Types *)

PCs == {"none", "creds", "lookup", "resolve", "get", "factory", "registry", "build", "connect"}

\* Where a request has a key; where it has settled on one.
Settled == {"get", "factory", "registry", "build", "connect"}

ReqType ==
    [pc : PCs, server : Server \cup {None}, user : User \cup {None}, snap : Kind,
     res : 1..MaxRes \cup {None}, key : Key \cup {None}, mat : Material \cup {None},
     stale : BOOLEAN, recent : BOOLEAN]

BackendType == [key : Key, mat : Material \cup {None}, kind : Kind, recent : BOOLEAN]

Cached == [kind : {"shared", "user"}, gens : [User -> 0..MaxGen]]

\* What is filled in of a request by where it is.
Filled(q) ==
    /\ q.pc \in {"creds", "lookup"} => q.server \in Server /\ q.user \in User
    /\ q.pc \in Settled \cup {"resolve"} =>
           q.server \in Server /\ q.key \in Key /\ q.key.server = q.server

Types ==
    /\ cur \in [Server -> Kind]
    /\ added \subseteq Server /\ toEvict \subseteq Server /\ all \in BOOLEAN
    /\ failed \in Configs \cup {None}
    /\ svc \in [Server -> {"none", "serving", "kept"}]
    /\ entries \in [Server -> 1..MaxRes \cup {None}]
    /\ resolver \in Seq(Cached) /\ Len(resolver) <= MaxRes
    /\ globalGen \in 0..MaxGen
    /\ pool \subseteq BackendType
    /\ req \in [Req -> ReqType]
    /\ \A r \in Req : Filled(req[r])

-----------------------------------------------------------------------------
(* Credentials *)

Built(x) == x \in 1..Len(resolver)

\* No generation is cached twice, or above the counter; entries are of built
\* resolvers.
Generations ==
    /\ \A x \in 1..Len(resolver), u \in User : resolver[x].gens[u] <= globalGen
    /\ \A x, y \in 1..Len(resolver), u, v \in User :
           resolver[x].gens[u] # 0 /\ resolver[x].gens[u] = resolver[y].gens[v] => x = y
    /\ \A n \in Server : entries[n] # None => Built(entries[n])

PerUser(x) == resolver[x].kind = "user"

\* A key's generation, as long as a resolver has it cached, is of one of the
\* key's grain.
Issued(key) ==
    /\ key.ver <= globalGen
    /\ \A x \in 1..Len(resolver), u \in User :
           key.ver # 0 /\ resolver[x].gens[u] = key.ver => (PerUser(x) <=> key.set # None)

\* No resolver registered for kind k can have issued the key.
Missed(k, key) ==
    LET x == entries[key.server] IN
    Dynamic(k) /\ x # None /\ key.ver # 0 =>
        ~(resolver[x].kind = k /\ resolver[x].gens[Identity(key)] = key.ver)

\* What a backend or a spawn for kind k, under the key, carries.
Carries(k, key, mat) ==
    IF mat = None THEN Missed(k, key)
    ELSE /\ mat.gen = key.ver /\ mat.user = Identity(key)
         /\ Built(mat.res) /\ (PerUser(mat.res) <=> key.set # None)

Credited(q) ==
    /\ q.pc = "resolve" => /\ q.res # None /\ Built(q.res)
                           /\ PerUser(q.res) <=> q.key.set # None
    /\ q.pc \in Settled => Issued(q.key)
    /\ q.pc = "build" => IF q.res = None THEN Missed(q.snap, q.key) ELSE Built(q.res)
    /\ q.pc = "connect" => Carries(q.snap, q.key, q.mat)

Credentials ==
    /\ \A r \in Req : Credited(req[r])
    /\ \A b \in pool : Issued(b.key) /\ Carries(b.kind, b.key, b.mat)

-----------------------------------------------------------------------------
(* A reload *)

\* A revision being applied, published unless it is the one that failed.
Applying == /\ rev \in Configs /\ prev \in [Server -> Kind]
            /\ cur = (IF failed = rev THEN prev ELSE rev)

Phases ==
    /\ step \in {"idle", "publish", "wire", "undo", "rollback", "adopt", "evict", "prune"}
    /\ step \in {"idle", "prune"} => rev = None /\ prev = None
    /\ step = "publish" => rev \in Configs /\ prev = cur /\ failed # rev
    /\ step \in {"wire", "undo", "adopt"} => Applying
    /\ step = "rollback" => /\ rev \in Configs /\ prev \in [Server -> Kind]
                            /\ cur = rev /\ failed = rev
    /\ step = "evict" => /\ rev \in Configs /\ prev \in [Server -> Kind]
                         /\ IF all THEN cur = rev /\ failed = None
                            ELSE cur = prev /\ failed = rev
    /\ step # "evict" => toEvict = {} /\ ~all
    /\ step = "prune" => failed = None
    /\ step \notin {"wire", "undo"} => added = {}

\* The services are those of config c, and what would not stop.
ServedBy(c) ==
    \A n \in Server : /\ n \in Lists(c) => svc[n] # "none"
                      /\ n \notin Lists(c) => svc[n] # "serving"

Services ==
    /\ step \in {"idle", "publish", "evict", "prune"} => ServedBy(cur)
    /\ step \in {"wire", "undo"} =>
           \A n \in Server : /\ n \in Lists(prev) => svc[n] # "none" /\ n \notin added
                             /\ n \notin Lists(prev) \cup added => svc[n] # "serving"
    /\ step = "rollback" => ServedBy(prev)
    /\ step = "adopt" => ServedBy(rev)

Registry ==
    step \in {"idle", "publish"} /\ failed = None =>
        \A n \in Server : entries[n] # None => n \in Lists(cur)

\* What was built for kind k of server n, since the window opened or before it.
Fits(n, k, recent) ==
    /\ k # "absent"
    /\ step \in {"idle", "publish", "prune"} => k = cur[n]
    /\ step \in {"wire", "undo", "rollback", "adopt"} =>
           k \in {prev[n], cur[n]} /\ (k # prev[n] => recent)
    /\ step = "evict" => k = cur[n] \/ (n \in toEvict /\ (all \/ recent))

\* A spawn that has read the config and that no eviction has reached.
Underway(q) == q.pc \in {"registry", "build", "connect"} /\ ~q.stale

Dated(q) ==
    /\ q.pc \in {"factory", "registry", "build"} => q.recent
    /\ Underway(q) => Fits(q.server, q.snap, q.recent)

Backends ==
    /\ \A r \in Req : Dated(req[r])
    /\ \A b \in pool : Fits(b.key.server, b.kind, b.recent)

GatewayInv == Types /\ Generations /\ Credentials /\ Phases /\ Services /\ Registry /\ Backends

-----------------------------------------------------------------------------
(* The resolvers: what a step may do to the credentials, and what that keeps *)

\* Resolvers are built and registered, cache generations not issued before, and
\* lose what they have cached or their place in the registry.
Grows ==
    /\ resolver' \in Seq(Cached) /\ Len(resolver') \in Len(resolver)..MaxRes
    /\ \A x \in 1..Len(resolver) : resolver'[x].kind = resolver[x].kind
    /\ globalGen' \in globalGen..MaxGen
    /\ entries' \in [Server -> 1..MaxRes \cup {None}]
    /\ Generations'
    /\ \A x \in 1..Len(resolver'), u \in User :
           \/ resolver'[x].gens[u] = 0
           \/ resolver'[x].gens[u] > globalGen
           \/ Built(x) /\ resolver'[x].gens[u] = resolver[x].gens[u]
    /\ \A n \in Server : \/ entries'[n] = None \/ entries'[n] = entries[n]
                         \/ entries'[n] > Len(resolver)

LEMMA ResolverType ==
    ASSUME Types
    PROVE  /\ Len(resolver) \in Nat
           /\ \A x \in 1..Len(resolver) :
                  /\ resolver[x] \in Cached
                  /\ resolver[x].kind \in {"shared", "user"}
                  /\ resolver[x].gens \in [User -> 0..MaxGen]
                  /\ \A u \in User : resolver[x].gens[u] \in 0..MaxGen
           /\ MaxRes \in Nat /\ MaxGen \in Nat /\ globalGen \in Nat
  <1>1. resolver \in Seq(Cached) /\ globalGen \in 0..MaxGen
    BY DEF Types
  <1>2. MaxRes \in Nat /\ MaxGen \in Nat
    BY GatewayAssumption
  <1>3. \A x \in 1..Len(resolver) : resolver[x] \in Cached
    BY <1>1, ElementOfSeq
  <1> QED
    BY <1>1, <1>2, <1>3 DEF Cached

\* Asking the registry: what is built for the asker holds nothing yet.
LEMMA Registering ==
    ASSUME Types, Generations, NEW n \in Server, NEW k \in Kind, NEW x,
           x = lookup(n, k), Registers(n, x), UNCHANGED globalGen
    PROVE  /\ Grows
           /\ x # None => x \in 1..Len(resolver')
           /\ Dynamic(k) /\ x = None => /\ entries' = entries /\ resolver' = resolver
                                        /\ entries[n] # None => resolver[entries[n]].kind # k
           /\ ~Dynamic(k) => x = None
           /\ \A m \in Server : entries'[m] = entries[m] \/ m \in Lists(cur)
  <1>1. /\ Len(resolver) \in Nat /\ MaxRes \in Nat /\ MaxGen \in Nat /\ globalGen \in Nat
        /\ \A y \in 1..Len(resolver) :
               /\ resolver[y] \in Cached
               /\ resolver[y].kind \in {"shared", "user"}
               /\ \A u \in User : resolver[y].gens[u] \in 0..MaxGen
    BY ResolverType
  <1>2. /\ resolver \in Seq(Cached) /\ Len(resolver) <= MaxRes /\ globalGen \in 0..MaxGen
        /\ entries \in [Server -> 1..MaxRes \cup {None}] /\ cur \in [Server -> Kind]
    BY DEF Types
  <1>3. \A m \in Server : entries[m] # None => entries[m] \in 1..Len(resolver)
    BY DEF Generations, Built
  <1>4. None \notin 1..MaxRes
    BY GatewayAssumption
  <1>5. x # None => \/ x \in 1..Len(resolver)
                    \/ x = Len(resolver) + 1 /\ Dynamic(cur[n])
    BY <1>3 DEF lookup
  <1>6. CASE x # None /\ x > Len(resolver)
    <2> DEFINE new == [kind |-> cur[n], gens |-> [u \in User |-> 0]]
    <2>1. /\ x = Len(resolver) + 1 /\ x <= MaxRes /\ Dynamic(cur[n])
          /\ resolver' = Append(resolver, new) /\ entries' = [entries EXCEPT ![n] = x]
      BY <1>1, <1>5, <1>6 DEF Registers
    <2>2. new \in Cached
      <3>1. cur[n] \in {"shared", "user"}
        BY <2>1 DEF Dynamic
      <3>2. [u \in User |-> 0] \in [User -> 0..MaxGen]
        BY <1>1
      <3> QED
        BY <3>1, <3>2 DEF Cached
    <2>3. \A u \in User : new.gens[u] = 0
      OBVIOUS
    <2> HIDE DEF new
    <2>4. /\ resolver' \in Seq(Cached) /\ Len(resolver') = Len(resolver) + 1
          /\ \A y \in 1..Len(resolver) : resolver'[y] = resolver[y]
          /\ resolver'[Len(resolver) + 1] = new
      BY <2>1, <2>2, <1>2, AppendProperties
    <2>5. /\ x \in 1..MaxRes /\ entries' \in [Server -> 1..MaxRes \cup {None}] /\ entries'[n] = x
          /\ \A m \in Server : m # n => entries'[m] = entries[m]
      BY <2>1, <1>1, <1>2
    <2>6. \A y \in 1..Len(resolver'), u \in User :
              \/ resolver'[y].gens[u] = 0
              \/ Built(y) /\ resolver'[y].gens[u] = resolver[y].gens[u]
      BY <1>1, <2>3, <2>4 DEF Built
    <2>7. Generations'
      <3>1. \A y \in 1..Len(resolver'), u \in User : resolver'[y].gens[u] <= globalGen
        BY <2>6, <1>1 DEF Generations, Built
      <3>2. \A y, z \in 1..Len(resolver'), u, v \in User :
              resolver'[y].gens[u] # 0 /\ resolver'[y].gens[u] = resolver'[z].gens[v] => y = z
        BY <2>6, <1>1 DEF Generations, Built
      <3>3. \A m \in Server : entries'[m] # None => entries'[m] \in 1..Len(resolver')
        BY <1>1, <1>3, <2>1, <2>4, <2>5
      <3> QED
        BY <3>1, <3>2, <3>3 DEF Generations, Built
    <2>8. Grows
      BY <1>1, <1>2, <2>1, <2>4, <2>5, <2>6, <2>7 DEF Grows
    <2>9. \A m \in Server : entries'[m] = entries[m] \/ m \in Lists(cur)
      BY <2>1, <2>5 DEF Lists, Dynamic
    <2> QED
      BY <1>1, <1>6, <2>1, <2>4, <2>8, <2>9 DEF lookup
  <1>7. CASE ~(x # None /\ x > Len(resolver))
    <2>1. UNCHANGED <<resolver, entries>>
      BY <1>7 DEF Registers
    <2>2. Grows
      <3>1. Generations'
        BY <2>1 DEF Generations, Built
      <3> QED
        BY <2>1, <3>1, <1>1, <1>2 DEF Grows, Built
    <2>3. x # None => x \in 1..Len(resolver')
      BY <1>1, <1>5, <1>7, <2>1
    <2> QED
      BY <2>1, <2>2, <2>3, <1>1 DEF lookup
  <1> QED
    BY <1>6, <1>7

\* Caching a generation, or none, for one identity.
LEMMA Caching ==
    ASSUME Types, NEW x \in 1..Len(resolver), NEW u \in User, NEW g \in 0..MaxGen,
           resolver' = [resolver EXCEPT ![x].gens[u] = g]
    PROVE  /\ resolver' \in Seq(Cached) /\ Len(resolver') = Len(resolver)
           /\ \A y \in 1..Len(resolver) :
                  /\ resolver'[y].kind = resolver[y].kind
                  /\ \A v \in User : resolver'[y].gens[v]
                                         = IF y = x /\ v = u THEN g ELSE resolver[y].gens[v]
  <1> DEFINE new == [resolver[x] EXCEPT !.gens = [resolver[x].gens EXCEPT ![u] = g]]
  <1>1. resolver \in Seq(Cached)
    BY DEF Types
  <1>2. resolver[x] \in Cached /\ resolver[x].gens \in [User -> 0..MaxGen]
    BY ResolverType
  <1>3. [resolver[x].gens EXCEPT ![u] = g] \in [User -> 0..MaxGen]
    BY <1>2
  <1>4. /\ new \in Cached /\ new.kind = resolver[x].kind
        /\ new.gens = [resolver[x].gens EXCEPT ![u] = g]
    BY <1>2, <1>3 DEF Cached
  <1>5. \A v \in User : new.gens[v] = IF v = u THEN g ELSE resolver[x].gens[v]
    BY <1>2, <1>4
  <1>6. resolver' = [resolver EXCEPT ![x] = new]
    OBVIOUS
  <1> HIDE DEF new
  <1>7. /\ resolver' \in Seq(Cached) /\ Len(resolver') = Len(resolver)
        /\ \A y \in 1..Len(resolver) : resolver'[y] = IF y = x THEN new ELSE resolver[y]
    BY <1>1, <1>4, <1>6, ExceptSeq
  <1> QED
    BY <1>4, <1>5, <1>7

LEMMA Resolving ==
    ASSUME Types, Generations, NEW x \in 1..Len(resolver), NEW u \in User,
           ResolveGen(x, u), UNCHANGED entries
    PROVE  /\ Grows
           /\ Generation(x, u) \in 1..MaxGen /\ Generation(x, u) <= globalGen'
           /\ Len(resolver') = Len(resolver) /\ resolver'[x].kind = resolver[x].kind
           /\ resolver'[x].gens[u] = Generation(x, u)
           /\ \A y \in 1..Len(resolver'), v \in User :
                  resolver'[y].gens[v] = Generation(x, u) => y = x
  <1> DEFINE g == Generation(x, u)
  <1>1. /\ Len(resolver) \in Nat /\ MaxRes \in Nat /\ MaxGen \in Nat /\ globalGen \in Nat
        /\ \A y \in 1..Len(resolver), v \in User : resolver[y].gens[v] \in 0..MaxGen
    BY ResolverType
  <1>2. /\ Len(resolver) <= MaxRes /\ globalGen \in 0..MaxGen
        /\ entries \in [Server -> 1..MaxRes \cup {None}]
    BY DEF Types
  <1>3. g <= MaxGen /\ resolver' = [resolver EXCEPT ![x].gens[u] = g]
        /\ globalGen' = IF g > globalGen THEN g ELSE globalGen
    BY DEF ResolveGen
  <1>4. \/ g = resolver[x].gens[u] /\ g # 0 /\ g <= globalGen
        \/ g = globalGen + 1
    BY DEF Generation, Generations
  <1>5. g \in 1..MaxGen
    BY <1>1, <1>3, <1>4
  <1> HIDE DEF g
  <1>6. /\ resolver' \in Seq(Cached) /\ Len(resolver') = Len(resolver)
        /\ \A y \in 1..Len(resolver) :
               /\ resolver'[y].kind = resolver[y].kind
               /\ \A v \in User : resolver'[y].gens[v]
                                      = IF y = x /\ v = u THEN g ELSE resolver[y].gens[v]
    <2>1. g \in 0..MaxGen
      BY <1>5
    <2> QED
      BY <1>3, <2>1, Caching
  <1>7. globalGen' \in globalGen..MaxGen /\ g <= globalGen'
    BY <1>1, <1>2, <1>3, <1>5
  <1>8. \A y \in 1..Len(resolver), v \in User : resolver[y].gens[v] <= globalGen
    BY DEF Generations
  <1>9. \A y, z \in 1..Len(resolver), v, w \in User :
            resolver[y].gens[v] # 0 /\ resolver[y].gens[v] = resolver[z].gens[w] => y = z
    BY DEF Generations
  <1>10. \A y \in 1..Len(resolver), v \in User : resolver[y].gens[v] = g => y = x
    BY <1>1, <1>4, <1>5, <1>8, <1>9
  <1>11. Generations'
    <2>1. \A y \in 1..Len(resolver'), v \in User : resolver'[y].gens[v] <= globalGen'
      BY <1>1, <1>5, <1>6, <1>7, <1>8
    <2>2. \A y, z \in 1..Len(resolver'), v, w \in User :
            resolver'[y].gens[v] # 0 /\ resolver'[y].gens[v] = resolver'[z].gens[w] => y = z
      BY <1>6, <1>9, <1>10
    <2>3. \A n \in Server : entries'[n] # None => entries'[n] \in 1..Len(resolver')
      BY <1>6 DEF Generations, Built
    <2> QED
      BY <2>1, <2>2, <2>3 DEF Generations, Built
  <1>12. \A y \in 1..Len(resolver'), v \in User :
           \/ resolver'[y].gens[v] = 0
           \/ resolver'[y].gens[v] > globalGen
           \/ Built(y) /\ resolver'[y].gens[v] = resolver[y].gens[v]
    BY <1>1, <1>4, <1>6 DEF Built
  <1>13. Grows
    BY <1>1, <1>2, <1>6, <1>7, <1>11, <1>12 DEF Grows
  <1> QED
    BY <1>5, <1>6, <1>7, <1>10, <1>13 DEF g

\* A rotation forgets a generation, a prune resolvers.
LEMMA Forgetting ==
    ASSUME Types, Generations, UNCHANGED globalGen,
           resolver' \in Seq(Cached), Len(resolver') = Len(resolver),
           \A y \in 1..Len(resolver) :
               /\ resolver'[y].kind = resolver[y].kind
               /\ \A v \in User : resolver'[y].gens[v] \in {0, resolver[y].gens[v]},
           entries' \in [Server -> 1..MaxRes \cup {None}],
           \A n \in Server : entries'[n] \in {None, entries[n]}
    PROVE  Grows
  <1>1. /\ Len(resolver) \in Nat /\ MaxRes \in Nat /\ MaxGen \in Nat /\ globalGen \in Nat
        /\ \A y \in 1..Len(resolver), v \in User : resolver[y].gens[v] \in 0..MaxGen
    BY ResolverType
  <1>2. Len(resolver) <= MaxRes /\ globalGen \in 0..MaxGen
    BY DEF Types
  <1>3. Generations'
    <2>1. \A y \in 1..Len(resolver'), v \in User : resolver'[y].gens[v] <= globalGen'
      BY <1>1 DEF Generations
    <2>2. \A y, z \in 1..Len(resolver'), v, w \in User :
            resolver'[y].gens[v] # 0 /\ resolver'[y].gens[v] = resolver'[z].gens[w] => y = z
      BY DEF Generations
    <2>3. \A n \in Server : entries'[n] # None => entries'[n] \in 1..Len(resolver')
      BY DEF Generations, Built
    <2> QED
      BY <2>1, <2>2, <2>3 DEF Generations, Built
  <1>4. \A y \in 1..Len(resolver'), v \in User :
           \/ resolver'[y].gens[v] = 0
           \/ Built(y) /\ resolver'[y].gens[v] = resolver[y].gens[v]
    BY DEF Built
  <1> QED
    BY <1>1, <1>2, <1>3, <1>4 DEF Grows

LEMMA Rotating ==
    ASSUME Types, Generations, NEW x \in 1..Len(resolver), NEW u \in User, Rotate(x, u)
    PROVE  Grows /\ Len(resolver') = Len(resolver)
  <1>1. PICK g \in 0..MaxGen : g = 0
    BY ResolverType
  <1>2. resolver' = [resolver EXCEPT ![x].gens[u] = g] /\ UNCHANGED <<globalGen, entries>>
    BY <1>1 DEF Rotate
  <1>3. /\ resolver' \in Seq(Cached) /\ Len(resolver') = Len(resolver)
        /\ \A y \in 1..Len(resolver) :
               /\ resolver'[y].kind = resolver[y].kind
               /\ \A v \in User : resolver'[y].gens[v]
                                      = IF y = x /\ v = u THEN g ELSE resolver[y].gens[v]
    BY <1>1, <1>2, Caching
  <1>4. \A y \in 1..Len(resolver), v \in User : resolver'[y].gens[v] \in {0, resolver[y].gens[v]}
    BY <1>1, <1>3
  <1>5. entries' \in [Server -> 1..MaxRes \cup {None}] /\ \A n \in Server : entries'[n] \in {None, entries[n]}
    BY <1>2 DEF Types
  <1> QED
    BY <1>2, <1>3, <1>4, <1>5, Forgetting

LEMMA Pruning ==
    ASSUME Types, Generations, UNCHANGED <<resolver, globalGen>>,
           \/ UNCHANGED entries
           \/ entries' = [n \in Server |-> IF n \in Lists(cur) THEN entries[n] ELSE None]
    PROVE  Grows
  <1>1. resolver' \in Seq(Cached) /\ Len(resolver') = Len(resolver)
    BY DEF Types
  <1>2. \A y \in 1..Len(resolver) :
            /\ resolver'[y].kind = resolver[y].kind
            /\ \A v \in User : resolver'[y].gens[v] \in {0, resolver[y].gens[v]}
    OBVIOUS
  <1>3. entries' \in [Server -> 1..MaxRes \cup {None}]
    BY DEF Types
  <1>4. \A n \in Server : entries'[n] \in {None, entries[n]}
    OBVIOUS
  <1> QED
    BY <1>1, <1>2, <1>3, <1>4, Forgetting

LEMMA Identities ==
    ASSUME NEW key \in Key
    PROVE  /\ Identity(key) \in User /\ key.server \in Server /\ key.ver \in Nat
           /\ Identity(key) = UserUnattributed <=> key.set = None
  BY GatewayAssumption DEF Key, Identity, User

\* What is said of a key and of what carries it outlives every such step.
LEMMA Keeping ==
    ASSUME Types, Generations, Grows, NEW key \in Key, Issued(key)
    PROVE  /\ Issued(key)'
           /\ \A k \in Kind : Missed(k, key) => Missed(k, key)'
           /\ \A k \in Kind, mat \in Material \cup {None} :
                  Carries(k, key, mat) => Carries(k, key, mat)'
           /\ \A x : Built(x) => Built(x)' /\ (PerUser(x)' <=> PerUser(x))
  <1>1. /\ Len(resolver) \in Nat /\ MaxGen \in Nat /\ MaxRes \in Nat /\ globalGen \in Nat
        /\ \A y \in 1..Len(resolver), v \in User : resolver[y].gens[v] \in 0..MaxGen
    BY ResolverType
  <1>2. /\ Len(resolver') \in Len(resolver)..MaxRes
        /\ \A x \in 1..Len(resolver) : resolver'[x].kind = resolver[x].kind
        /\ globalGen' \in globalGen..MaxGen
        /\ \A x \in 1..Len(resolver'), u \in User :
               \/ resolver'[x].gens[u] = 0
               \/ resolver'[x].gens[u] > globalGen
               \/ x \in 1..Len(resolver) /\ resolver'[x].gens[u] = resolver[x].gens[u]
        /\ \A n \in Server : \/ entries'[n] = None \/ entries'[n] = entries[n]
                             \/ entries'[n] > Len(resolver)
        /\ \A n \in Server : entries'[n] # None => entries'[n] \in 1..Len(resolver')
    BY DEF Grows, Generations, Built
  <1>3. /\ Identity(key) \in User /\ key.server \in Server /\ key.ver \in Nat
    BY Identities
  <1>4. key.ver <= globalGen
    BY DEF Issued
  <1>5. \A x \in 1..Len(resolver'), u \in User :
            key.ver # 0 /\ resolver'[x].gens[u] = key.ver =>
                x \in 1..Len(resolver) /\ resolver[x].gens[u] = key.ver
    BY <1>1, <1>2, <1>3, <1>4
  <1>6. \A x : Built(x) => Built(x)' /\ (PerUser(x)' <=> PerUser(x))
    BY <1>1, <1>2 DEF Built, PerUser
  <1>7. Issued(key)'
    <2>1. key.ver <= globalGen'
      BY <1>1, <1>2, <1>3, <1>4
    <2>2. \A x \in 1..Len(resolver'), u \in User :
              key.ver # 0 /\ resolver'[x].gens[u] = key.ver =>
                  (resolver'[x].kind = "user" <=> key.set # None)
      BY <1>2, <1>5 DEF Issued, PerUser
    <2> QED
      BY <2>1, <2>2 DEF Issued, PerUser
  <1>8. ASSUME NEW k \in Kind, Missed(k, key)
        PROVE  Missed(k, key)'
    <2>1. SUFFICES ASSUME Dynamic(k), entries'[key.server] # None, key.ver # 0,
                          resolver'[entries'[key.server]].kind = k,
                          resolver'[entries'[key.server]].gens[Identity(key)] = key.ver
                   PROVE  FALSE
      BY DEF Missed
    <2>2. entries'[key.server] \in 1..Len(resolver)
      BY <1>2, <1>3, <1>5, <2>1
    <2>3. entries'[key.server] = entries[key.server]
      BY <1>1, <1>2, <1>3, <2>1, <2>2
    <2> QED
      BY <1>2, <1>3, <1>5, <1>8, <2>1, <2>2, <2>3 DEF Missed
  <1>9. ASSUME NEW k \in Kind, NEW mat \in Material \cup {None}, Carries(k, key, mat)
        PROVE  Carries(k, key, mat)'
    BY <1>6, <1>8, <1>9 DEF Carries
  <1> QED
    BY <1>6, <1>7, <1>8, <1>9

\* The two things said of a request's fields follow those fields.
LEMMA SameRequest ==
    ASSUME Types, Generations, Grows, NEW r \in Req, Credited(req[r]), Filled(req[r]),
           req'[r].pc = req[r].pc, req'[r].server = req[r].server, req'[r].user = req[r].user,
           req'[r].snap = req[r].snap, req'[r].res = req[r].res, req'[r].key = req[r].key,
           req'[r].mat = req[r].mat
    PROVE  Filled(req[r])' /\ Credited(req[r])'
  <1>1. Filled(req[r])'
    BY DEF Filled
  <1>2. req[r] \in ReqType
    BY DEF Types
  <1>3. req[r].snap \in Kind /\ req[r].mat \in Material \cup {None}
    BY <1>2 DEF ReqType
  <1>4. CASE req[r].pc \in Settled
    <2>1. req[r].key \in Key /\ Issued(req[r].key)
      BY <1>4 DEF Filled, Credited
    <2>2. /\ Issued(req[r].key)'
          /\ Missed(req[r].snap, req[r].key) => Missed(req[r].snap, req[r].key)'
          /\ Carries(req[r].snap, req[r].key, req[r].mat)
                 => Carries(req[r].snap, req[r].key, req[r].mat)'
          /\ Built(req[r].res) => Built(req[r].res)'
      BY <1>3, <2>1, Keeping
    <2> QED
      BY <1>1, <1>4, <2>2 DEF Credited, Settled
  <1>5. CASE req[r].pc = "resolve"
    <2>1. req[r].res # None /\ req[r].res \in 1..Len(resolver)
          /\ (resolver[req[r].res].kind = "user" <=> req[r].key.set # None)
      BY <1>5 DEF Credited, Built, PerUser
    <2>2. req[r].res \in 1..Len(resolver') /\ resolver'[req[r].res].kind = resolver[req[r].res].kind
      BY <2>1, ResolverType DEF Grows
    <2> QED
      BY <1>1, <1>5, <2>1, <2>2 DEF Credited, Settled, Built, PerUser
  <1>6. CASE req[r].pc \notin Settled \cup {"resolve"}
    BY <1>1, <1>6 DEF Credited, Settled
  <1> QED
    BY <1>4, <1>5, <1>6

LEMMA SamePool ==
    ASSUME Types, Generations, Grows, NEW b \in BackendType,
           Issued(b.key), Carries(b.kind, b.key, b.mat)
    PROVE  Issued(b.key)' /\ Carries(b.kind, b.key, b.mat)'
  <1>1. b.key \in Key /\ b.kind \in Kind /\ b.mat \in Material \cup {None}
    BY DEF BackendType
  <1> QED
    BY <1>1, Keeping

-----------------------------------------------------------------------------
(* The proxy's steps, all but for the request that takes one *)

\* What is in the pool, and what may come into it.
Fit(b) ==
    Issued(b.key) /\ Carries(b.kind, b.key, b.mat) /\ Fits(b.key.server, b.kind, b.recent)

LEMMA Proxied ==
    ASSUME GatewayInv, Grows, UNCHANGED <<cur, applyVars>>, req' \in [Req -> ReqType],
           \A s \in Req : \/ req'[s] = req[s]
                          \/ Filled(req[s])' /\ Credited(req[s])' /\ Dated(req[s])',
           \A n \in Server : \/ entries'[n] = None \/ entries'[n] = entries[n]
                             \/ n \in Lists(cur),
           pool' \subseteq BackendType,
           \A b \in pool' : b \in pool \/ Fit(b)
    PROVE  GatewayInv'
  <1>0. Types /\ Generations /\ Credentials /\ Phases /\ Services /\ Registry /\ Backends
    BY DEF GatewayInv
  <1>1. ASSUME NEW s \in Req
        PROVE  Filled(req[s])' /\ Credited(req[s])' /\ Dated(req[s])'
    <2>1. CASE req'[s] = req[s]
      <3>1. Filled(req[s]) /\ Credited(req[s]) /\ Dated(req[s])
        BY <1>0 DEF Types, Credentials, Backends
      <3>2. Filled(req[s])' /\ Credited(req[s])'
        BY <1>0, <2>1, <3>1, SameRequest
      <3>3. Dated(req[s])'
        BY <2>1, <3>1 DEF Dated, Underway, Fits, applyVars
      <3> QED
        BY <3>2, <3>3
    <2> QED
      BY <1>1, <2>1
  <1>2. ASSUME NEW b \in pool'
        PROVE  /\ Issued(b.key)' /\ Carries(b.kind, b.key, b.mat)'
               /\ Fits(b.key.server, b.kind, b.recent)'
    <2>1. Fit(b) /\ b \in BackendType
      BY <1>0 DEF Credentials, Backends, Fit
    <2>2. Issued(b.key)' /\ Carries(b.kind, b.key, b.mat)'
      BY <1>0, <2>1, SamePool DEF Fit
    <2>3. Fits(b.key.server, b.kind, b.recent)'
      BY <2>1 DEF Fit, Fits, applyVars
    <2> QED
      BY <2>2, <2>3
  <1>3. Types'
    <2>1. Len(resolver') <= MaxRes /\ globalGen' \in 0..MaxGen
      BY <1>0, ResolverType DEF Grows
    <2> QED
      BY <1>0, <1>1, <2>1 DEF Types, Grows, applyVars
  <1>4. Credentials'
    BY <1>1, <1>2 DEF Credentials
  <1>5. Phases'
    BY <1>0 DEF Phases, Applying, applyVars
  <1>6. Services'
    BY <1>0 DEF Services, ServedBy, Lists, applyVars
  <1>7. Registry'
    BY <1>0 DEF Registry, Lists, applyVars
  <1>8. Backends'
    BY <1>1, <1>2 DEF Backends
  <1> QED
    BY <1>3, <1>4, <1>5, <1>6, <1>7, <1>8 DEF GatewayInv, Grows

LEMMA OneRequest ==
    ASSUME GatewayInv, Grows, UNCHANGED <<cur, applyVars>>, NEW r \in Req, NEW q \in ReqType,
           req' = [req EXCEPT ![r] = q], Filled(q), Credited(q)', Dated(q),
           \A n \in Server : entries'[n] = entries[n] \/ n \in Lists(cur),
           pool' \subseteq BackendType,
           \A b \in pool' : b \in pool \/ Fit(b)
    PROVE  GatewayInv'
  <1>1. req \in [Req -> ReqType]
    BY DEF GatewayInv, Types
  <1>2. req' \in [Req -> ReqType] /\ req'[r] = q /\ \A s \in Req : s # r => req'[s] = req[s]
    BY <1>1
  <1>3. Filled(req[r])' /\ Credited(req[r])'
    BY <1>2 DEF Filled, Credited
  <1>4. Dated(req[r])'
    BY <1>2 DEF Dated, Underway, Fits, applyVars
  <1>5. \A s \in Req : \/ req'[s] = req[s]
                       \/ Filled(req[s])' /\ Credited(req[s])' /\ Dated(req[s])'
    BY <1>2, <1>3, <1>4
  <1> QED
    BY <1>2, <1>5, Proxied

LEMMA SameCredentials ==
    ASSUME GatewayInv, UNCHANGED credVars
    PROVE  /\ Grows /\ \A n \in Server : entries'[n] = entries[n]
           /\ \A q \in ReqType : Credited(q) => Credited(q)'
  <1>1. Types /\ Generations
    BY DEF GatewayInv
  <1>2. UNCHANGED <<entries, resolver, globalGen>>
    BY DEF credVars
  <1>3. Grows
    BY <1>1, <1>2, Pruning
  <1>4. \A q \in ReqType : Credited(q) => Credited(q)'
    BY <1>2 DEF Credited, Issued, Missed, Carries, Built, PerUser
  <1> QED
    BY <1>2, <1>3, <1>4

-----------------------------------------------------------------------------
(* The steps of a request *)

LEMMA Blank ==
    /\ Unsent \in ReqType
    /\ Filled(Unsent) /\ Credited(Unsent) /\ Dated(Unsent)
    /\ Credited(Unsent)'
  <1>1. Unsent \in ReqType
    <2>1. "none" \in PCs /\ "absent" \in Kind /\ FALSE \in BOOLEAN
      BY DEF PCs, Kind
    <2>2. None \in Server \cup {None} /\ None \in User \cup {None} /\ None \in 1..MaxRes \cup {None}
          /\ None \in Key \cup {None} /\ None \in Material \cup {None}
      OBVIOUS
    <2> QED
      BY <2>1, <2>2, Zenon DEF Unsent, ReqType
  <1>2. Unsent.pc = "none"
    BY DEF Unsent
  <1> QED
    BY <1>1, <1>2 DEF Filled, Credited, Dated, Underway, Settled

\* The request is answered, whatever became of the credentials.
LEMMA Answered ==
    ASSUME GatewayInv, Grows, UNCHANGED <<cur, applyVars>>, NEW r \in Req, Ends(r),
           \A n \in Server : entries'[n] = entries[n] \/ n \in Lists(cur),
           pool' \subseteq BackendType,
           \A b \in pool' : b \in pool \/ Fit(b)
    PROVE  GatewayInv'
  <1>1. PICK q \in ReqType : q = Unsent
    BY Blank
  <1>2. Filled(q) /\ Credited(q)' /\ Dated(q)
    BY <1>1, Blank
  <1>3. req' = [req EXCEPT ![r] = q]
    BY <1>1 DEF Ends
  <1> QED
    BY <1>1, <1>2, <1>3, OneRequest

LEMMA RequestType ==
    ASSUME GatewayInv, NEW r \in Req
    PROVE  /\ req[r] \in ReqType /\ Filled(req[r]) /\ Credited(req[r]) /\ Dated(req[r])
           /\ req[r].pc \in PCs /\ req[r].snap \in Kind
           /\ req[r].mat \in Material \cup {None} /\ req[r].res \in 1..MaxRes \cup {None}
           /\ cur \in [Server -> Kind]
           /\ pool \subseteq BackendType
  <1>1. req[r] \in ReqType /\ Filled(req[r]) /\ Credited(req[r]) /\ Dated(req[r])
    BY DEF GatewayInv, Types, Credentials, Backends
  <1>2. /\ req[r].pc \in PCs /\ req[r].snap \in Kind
        /\ req[r].mat \in Material \cup {None} /\ req[r].res \in 1..MaxRes \cup {None}
    BY <1>1 DEF ReqType
  <1> QED
    BY <1>1, <1>2 DEF GatewayInv, Types

LEMMA ArriveKeeps ==
    ASSUME GatewayInv, NEW r \in Req, NEW n \in Server, NEW u \in User, Arrive(r, n, u)
    PROVE  GatewayInv'
  <1>1. req[r] \in ReqType /\ pool \subseteq BackendType
    BY RequestType
  <1>2. PICK q : q = [req[r] EXCEPT !.pc = "creds", !.server = n, !.user = u]
    OBVIOUS
  <1>3. q \in ReqType /\ q.pc = "creds" /\ q.server = n /\ q.user = u
    <2>1. "creds" \in PCs /\ n \in Server \cup {None} /\ u \in User \cup {None}
      BY DEF PCs
    <2> QED
      BY <1>1, <1>2, <2>1 DEF ReqType
  <1>4. Filled(q) /\ Credited(q)' /\ Dated(q)
    BY <1>3 DEF Filled, Credited, Dated, Underway, Settled
  <1>5. req' = [req EXCEPT ![r] = q]
    BY <1>2 DEF Arrive
  <1>6. UNCHANGED <<cur, applyVars, credVars, pool>>
    BY DEF Arrive
  <1>7. Grows /\ \A m \in Server : entries'[m] = entries[m]
    BY <1>6, SameCredentials
  <1>8. pool' \subseteq BackendType /\ \A b \in pool' : b \in pool \/ Fit(b)
    BY <1>1, <1>6
  <1> QED
    BY <1>3, <1>4, <1>5, <1>6, <1>7, <1>8, OneRequest

LEMMA ReadCurrentKeeps ==
    ASSUME GatewayInv, NEW r \in Req, ReadCurrent(r)
    PROVE  GatewayInv'
  <1>1. /\ req[r] \in ReqType /\ pool \subseteq BackendType /\ Filled(req[r])
        /\ cur \in [Server -> Kind]
    BY RequestType
  <1>2. req[r].pc = "creds" /\ req[r].server \in Server /\ req[r].user \in User
    BY <1>1 DEF ReadCurrent, At, Filled
  <1>3. PICK q : q = [req[r] EXCEPT !.pc = "lookup", !.snap = cur[req[r].server]]
    OBVIOUS
  <1>4. q \in ReqType /\ q.pc = "lookup" /\ q.server \in Server /\ q.user \in User
    <2>1. "lookup" \in PCs /\ cur[req[r].server] \in Kind
      BY <1>1, <1>2 DEF PCs
    <2> QED
      BY <1>1, <1>2, <1>3, <2>1 DEF ReqType
  <1>5. Filled(q) /\ Credited(q)' /\ Dated(q)
    BY <1>4 DEF Filled, Credited, Dated, Underway, Settled
  <1>6. req' = [req EXCEPT ![r] = q] /\ UNCHANGED <<cur, applyVars, credVars, pool>>
    BY <1>3 DEF ReadCurrent
  <1>7. Grows /\ \A m \in Server : entries'[m] = entries[m]
    BY <1>6, SameCredentials
  <1>8. pool' \subseteq BackendType /\ \A b \in pool' : b \in pool \/ Fit(b)
    BY <1>1, <1>6
  <1> QED
    BY <1>4, <1>5, <1>6, <1>7, <1>8, OneRequest

LEMMA LookupKeeps ==
    ASSUME GatewayInv, NEW r \in Req, Lookup(r)
    PROVE  GatewayInv'
  <1>1. /\ req[r] \in ReqType /\ pool \subseteq BackendType /\ Filled(req[r])
        /\ req[r].snap \in Kind
    BY RequestType
  <1>2. req[r].pc = "lookup" /\ req[r].server \in Server /\ req[r].user \in User
    BY <1>1 DEF Lookup, At, Filled
  <1>3. PICK n \in Server : n = req[r].server
    BY <1>2
  <1>4. PICK x : x = lookup(n, req[r].snap)
    OBVIOUS
  <1>5. /\ Registers(n, x) /\ UNCHANGED <<cur, applyVars>>
        /\ UNCHANGED <<globalGen, pool>>
    BY <1>3, <1>4 DEF Lookup
  <1>6. Types /\ Generations
    BY DEF GatewayInv
  <1>7. /\ Grows
        /\ x # None => x \in 1..Len(resolver')
        /\ \A m \in Server : entries'[m] = entries[m] \/ m \in Lists(cur)
    BY <1>1, <1>4, <1>5, <1>6, Registering
  <1>8. Len(resolver') \in Nat /\ Len(resolver') <= MaxRes /\ globalGen' \in Nat /\ 0 \in 0..MaxGen
    <2>1. Len(resolver) \in Nat /\ MaxRes \in Nat /\ MaxGen \in Nat /\ globalGen \in Nat
      BY <1>6, ResolverType
    <2>2. Len(resolver') \in Len(resolver)..MaxRes /\ globalGen' \in globalGen..MaxGen
      BY <1>7 DEF Grows
    <2> QED
      BY <2>1, <2>2
  <1>9. pool' \subseteq BackendType /\ \A b \in pool' : b \in pool \/ Fit(b)
    BY <1>1, <1>5
  <1> DEFINE perUser == resolver'[x].kind = "user"
  <1>10. \/ x = None /\ req' = [req EXCEPT ![r] = [Keyed(n, None) EXCEPT !.pc = "get"]]
         \/ Ends(r)
         \/ /\ x # None /\ ~(perUser /\ req[r].user = UserUnattributed)
            /\ req' = [req EXCEPT ![r] = [Keyed(n, IF perUser THEN req[r].user ELSE None)
                                          EXCEPT !.pc = "resolve", !.res = x]]
    BY <1>3, <1>4 DEF Lookup
  <1>11. ASSUME NEW set \in Caller \cup {None}
         PROVE  /\ Keyed(n, set) \in ReqType
                /\ Keyed(n, set).server = n /\ Keyed(n, set).key \in Key
                /\ Keyed(n, set).key = [server |-> n, set |-> set, ver |-> 0]
    <2>1. PICK key : key = [server |-> n, set |-> set, ver |-> 0]
      OBVIOUS
    <2>2. key \in Key /\ key \in Key \cup {None} /\ n \in Server \cup {None}
      BY <1>8, <2>1 DEF Key
    <2>3. Keyed(n, set) = [Unsent EXCEPT !.server = n, !.key = key]
      BY <2>1 DEF Keyed
    <2>4. [Unsent EXCEPT !.server = n, !.key = key] \in ReqType
      BY <2>2, Blank DEF ReqType
    <2>5. /\ [Unsent EXCEPT !.server = n, !.key = key].server = n
          /\ [Unsent EXCEPT !.server = n, !.key = key].key = key
      BY DEF Unsent
    <2> QED
      BY <2>1, <2>2, <2>3, <2>4, <2>5
  <1>12. CASE x = None /\ req' = [req EXCEPT ![r] = [Keyed(n, None) EXCEPT !.pc = "get"]]
    <2>1. PICK q : q = [Keyed(n, None) EXCEPT !.pc = "get"]
      OBVIOUS
    <2>2. /\ Keyed(n, None) \in ReqType
          /\ Keyed(n, None).server = n /\ Keyed(n, None).key \in Key
          /\ Keyed(n, None).key = [server |-> n, set |-> None, ver |-> 0]
      BY <1>11
    <2>3. /\ q \in ReqType /\ q.pc = "get" /\ q.server = n /\ q.key \in Key
          /\ q.key.server = n /\ q.key.ver = 0
      <3>1. "get" \in PCs
        BY DEF PCs
      <3> QED
        BY <2>1, <2>2, <3>1 DEF ReqType
    <2>4. Filled(q) /\ Dated(q)
      BY <2>3 DEF Filled, Dated, Underway, Settled
    <2>5. Credited(q)'
      BY <1>8, <2>3 DEF Credited, Issued, Settled
    <2>6. req' = [req EXCEPT ![r] = q]
      BY <1>12, <2>1
    <2> QED
      BY <1>7, <1>5, <1>9, <2>3, <2>4, <2>5, <2>6, OneRequest
  <1>13. CASE Ends(r)
    BY <1>7, <1>5, <1>9, <1>13, Answered
  <1>14. CASE /\ x # None /\ ~(perUser /\ req[r].user = UserUnattributed)
              /\ req' = [req EXCEPT ![r] = [Keyed(n, IF perUser THEN req[r].user ELSE None)
                                            EXCEPT !.pc = "resolve", !.res = x]]
    <2>1. PICK set : set = IF perUser THEN req[r].user ELSE None
      OBVIOUS
    <2>2. set \in Caller \cup {None} /\ (perUser <=> set # None)
      BY <1>2, <1>14, <2>1, GatewayAssumption DEF User
    <2>3. PICK q : q = [Keyed(n, set) EXCEPT !.pc = "resolve", !.res = x]
      OBVIOUS
    <2>4. /\ Keyed(n, set) \in ReqType
          /\ Keyed(n, set).server = n /\ Keyed(n, set).key \in Key
          /\ Keyed(n, set).key = [server |-> n, set |-> set, ver |-> 0]
      BY <1>11, <2>2
    <2>5. /\ q \in ReqType /\ q.pc = "resolve" /\ q.server = n /\ q.key \in Key /\ q.res = x
          /\ q.key.server = n /\ q.key.set = set
      <3>1. "resolve" \in PCs
        BY DEF PCs
      <3>2. x \in 1..MaxRes \cup {None}
        <4>1. x # None
          BY <1>14
        <4> QED
          BY <1>7, <1>8, <4>1, GatewayAssumption
      <3>3. q \in ReqType
        BY <2>3, <2>4, <3>1, <3>2 DEF ReqType
      <3>4. q.pc = "resolve" /\ q.server = n /\ q.res = x /\ q.key = Keyed(n, set).key
        BY <2>3, <2>4 DEF ReqType
      <3> QED
        BY <2>4, <3>3, <3>4
    <2>6. Filled(q) /\ Dated(q)
      BY <2>5 DEF Filled, Dated, Underway, Settled
    <2>7. Credited(q)'
      BY <1>7, <1>14, <2>2, <2>5 DEF Credited, Built, PerUser, Settled
    <2>8. req' = [req EXCEPT ![r] = q]
      BY <1>14, <2>1, <2>3
    <2> QED
      BY <1>7, <1>5, <1>9, <2>5, <2>6, <2>7, <2>8, OneRequest
  <1> QED
    BY <1>10, <1>12, <1>13, <1>14

LEMMA ResolveKeeps ==
    ASSUME GatewayInv, NEW r \in Req, Resolve(r)
    PROVE  GatewayInv'
  <1>1. /\ req[r] \in ReqType /\ pool \subseteq BackendType /\ Filled(req[r])
        /\ Credited(req[r])
    BY RequestType
  <1>2. PICK key : key = req[r].key
    OBVIOUS
  <1>3. PICK x : x = req[r].res
    OBVIOUS
  <1>4. req[r].pc = "resolve"
    BY DEF Resolve, At
  <1>5. /\ req[r].server \in Server /\ key \in Key /\ key.server = req[r].server
        /\ x \in 1..Len(resolver) /\ (resolver[x].kind = "user" <=> key.set # None)
    BY <1>1, <1>2, <1>3, <1>4 DEF Filled, Credited, Built, PerUser
  <1>6. PICK u : u = Identity(key)
    OBVIOUS
  <1>7. u \in User
    BY <1>5, <1>6, Identities
  <1>8. PICK g : g = Generation(x, u)
    OBVIOUS
  <1>9. /\ ResolveGen(x, u)
        /\ req' = [req EXCEPT ![r].pc = "get", ![r].res = None, ![r].key.ver = g]
        /\ UNCHANGED <<cur, applyVars>> /\ UNCHANGED <<entries, pool>>
    BY <1>2, <1>3, <1>6, <1>8 DEF Resolve
  <1>10. Types /\ Generations
    BY DEF GatewayInv
  <1>11. /\ Grows /\ g \in 1..MaxGen /\ g <= globalGen'
         /\ Len(resolver') = Len(resolver) /\ resolver'[x].kind = resolver[x].kind
         /\ \A y \in 1..Len(resolver'), v \in User : resolver'[y].gens[v] = g => y = x
    <2>1. UNCHANGED entries
      BY <1>9
    <2>2. /\ Grows /\ Generation(x, u) \in 1..MaxGen /\ Generation(x, u) <= globalGen'
          /\ Len(resolver') = Len(resolver) /\ resolver'[x].kind = resolver[x].kind
          /\ \A y \in 1..Len(resolver'), v \in User :
                 resolver'[y].gens[v] = Generation(x, u) => y = x
      BY <1>5, <1>7, <1>9, <1>10, <2>1, Resolving
    <2> QED
      BY <1>8, <2>2
  <1>12. PICK k : k = [key EXCEPT !.ver = g]
    OBVIOUS
  <1>13. k \in Key /\ k.server = key.server /\ k.set = key.set /\ k.ver = g
    <2>1. g \in 0..MaxGen
      BY <1>10, <1>11, ResolverType
    <2> QED
      BY <1>5, <1>12, <2>1 DEF Key
  <1>14. PICK q : q = [req[r] EXCEPT !.pc = "get", !.res = None, !.key = k]
    OBVIOUS
  <1>15. q \in ReqType /\ q.pc = "get" /\ q.server = req[r].server /\ q.key = k
    <2>1. "get" \in PCs /\ None \in 1..MaxRes \cup {None} /\ k \in Key \cup {None}
      BY <1>13 DEF PCs
    <2> QED
      BY <1>1, <1>14, <2>1 DEF ReqType
  <1>16. Filled(q) /\ Dated(q)
    BY <1>5, <1>13, <1>15 DEF Filled, Dated, Underway, Settled
  <1>17. Credited(q)'
    <2>1. \A y \in 1..Len(resolver'), v \in User :
              resolver'[y].gens[v] = k.ver => (resolver'[y].kind = "user" <=> k.set # None)
      BY <1>5, <1>11, <1>13
    <2>2. Issued(k)'
      BY <1>11, <1>13, <2>1 DEF Issued, PerUser
    <2> QED
      BY <1>15, <2>2 DEF Credited, Settled
  <1>18. req' = [req EXCEPT ![r] = q]
    BY <1>2, <1>9, <1>12, <1>14
  <1>19. \A n \in Server : entries'[n] = entries[n] \/ n \in Lists(cur)
    BY <1>9
  <1>20. pool' \subseteq BackendType /\ \A b \in pool' : b \in pool \/ Fit(b)
    BY <1>1, <1>9
  <1> QED
    BY <1>9, <1>11, <1>15, <1>16, <1>17, <1>18, <1>19, <1>20, OneRequest

LEMMA ResolveFailsKeeps ==
    ASSUME GatewayInv, NEW r \in Req, ResolveFails(r)
    PROVE  GatewayInv'
  <1>1. pool \subseteq BackendType
    BY RequestType
  <1>2. Ends(r) /\ UNCHANGED <<cur, applyVars>> /\ UNCHANGED credVars /\ UNCHANGED pool
    BY DEF ResolveFails
  <1>3. Grows /\ \A m \in Server : entries'[m] = entries[m]
    BY <1>2, SameCredentials
  <1>4. pool' \subseteq BackendType /\ \A b \in pool' : b \in pool \/ Fit(b)
    BY <1>1, <1>2
  <1> QED
    BY <1>2, <1>3, <1>4, Answered

LEMMA GetKeeps ==
    ASSUME GatewayInv, NEW r \in Req, Get(r)
    PROVE  GatewayInv'
  <1>1. /\ req[r] \in ReqType /\ pool \subseteq BackendType /\ Filled(req[r])
        /\ Credited(req[r])
    BY RequestType
  <1>2. req[r].pc = "get" /\ UNCHANGED <<cur, applyVars>> /\ UNCHANGED credVars /\ UNCHANGED pool
    BY DEF Get, At
  <1>3. Grows /\ \A m \in Server : entries'[m] = entries[m]
    BY <1>2, SameCredentials
  <1>4. pool' \subseteq BackendType /\ \A b \in pool' : b \in pool \/ Fit(b)
    BY <1>1, <1>2
  <1>5. CASE Ends(r)
    BY <1>2, <1>3, <1>4, <1>5, Answered
  <1>6. CASE req' = [req EXCEPT ![r].pc = "factory", ![r].stale = FALSE, ![r].recent = TRUE]
    <2>1. PICK q : q = [req[r] EXCEPT !.pc = "factory", !.stale = FALSE, !.recent = TRUE]
      OBVIOUS
    <2>2. q \in ReqType
      <3>1. "factory" \in PCs /\ FALSE \in BOOLEAN /\ TRUE \in BOOLEAN
        BY DEF PCs
      <3> QED
        BY <1>1, <2>1, <3>1, Zenon DEF ReqType
    <2>3. /\ q.pc = "factory" /\ q.server = req[r].server /\ q.key = req[r].key
          /\ q.recent
      BY <1>1, <2>1, Zenon DEF ReqType
    <2>4. Filled(q) /\ Dated(q) /\ Credited(q)
      BY <1>1, <1>2, <2>3 DEF Filled, Dated, Credited, Underway, Settled
    <2>5. Credited(q)'
      BY <1>2, <2>2, <2>4, SameCredentials
    <2>6. req' = [req EXCEPT ![r] = q]
      BY <1>6, <2>1
    <2> QED
      BY <1>2, <1>3, <1>4, <2>2, <2>4, <2>5, <2>6, OneRequest
  <1> QED
    BY <1>5, <1>6 DEF Get

LEMMA FactoryReadsKeeps ==
    ASSUME GatewayInv, NEW r \in Req, FactoryReads(r)
    PROVE  GatewayInv'
  <1>1. /\ req[r] \in ReqType /\ pool \subseteq BackendType /\ Filled(req[r])
        /\ Credited(req[r]) /\ Dated(req[r]) /\ cur \in [Server -> Kind]
    BY RequestType
  <1>2. /\ req[r].pc = "factory"
        /\ UNCHANGED <<cur, applyVars>> /\ UNCHANGED credVars /\ UNCHANGED pool
    BY DEF FactoryReads, At
  <1>3. Grows /\ \A m \in Server : entries'[m] = entries[m]
    BY <1>2, SameCredentials
  <1>4. pool' \subseteq BackendType /\ \A b \in pool' : b \in pool \/ Fit(b)
    BY <1>1, <1>2
  <1>5. CASE Ends(r)
    BY <1>2, <1>3, <1>4, <1>5, Answered
  <1>6. CASE /\ cur[req[r].server] # "absent"
             /\ req' = [req EXCEPT ![r].pc = "registry", ![r].snap = cur[req[r].server]]
    <2>1. PICK q : q = [req[r] EXCEPT !.pc = "registry", !.snap = cur[req[r].server]]
      OBVIOUS
    <2>2. req[r].server \in Server /\ cur[req[r].server] \in Kind
      BY <1>1, <1>2 DEF Filled, Settled
    <2>3. q \in ReqType
      <3>1. "registry" \in PCs
        BY DEF PCs
      <3> QED
        BY <1>1, <2>1, <2>2, <3>1 DEF ReqType
    <2>4. /\ q.pc = "registry" /\ q.server = req[r].server /\ q.key = req[r].key
          /\ q.snap = cur[req[r].server]
      BY <1>1, <2>1 DEF ReqType
    <2>5. q.recent = req[r].recent
      BY <1>1, <2>1, Zenon DEF ReqType
    <2>6. Filled(q) /\ Credited(q)
      BY <1>1, <1>2, <2>4 DEF Filled, Credited, Settled
    <2>7. q.recent
      BY <1>1, <1>2, <2>5 DEF Dated
    <2>8. Fits(q.server, q.snap, q.recent)
      BY <1>6, <2>4, <2>7 DEF Fits
    <2>9. Dated(q)
      BY <2>7, <2>8 DEF Dated
    <2>10. Credited(q)'
      BY <1>2, <2>3, <2>6, SameCredentials
    <2>11. req' = [req EXCEPT ![r] = q]
      BY <1>6, <2>1
    <2> QED
      BY <1>2, <1>3, <1>4, <2>3, <2>6, <2>9, <2>10, <2>11, OneRequest
  <1> QED
    BY <1>5, <1>6 DEF FactoryReads

LEMMA FactoryLooksUpKeeps ==
    ASSUME GatewayInv, NEW r \in Req, FactoryLooksUp(r)
    PROVE  GatewayInv'
  <1>1. /\ req[r] \in ReqType /\ pool \subseteq BackendType /\ Filled(req[r])
        /\ Credited(req[r]) /\ Dated(req[r]) /\ req[r].snap \in Kind
    BY RequestType
  <1>2. req[r].pc = "registry"
    BY DEF FactoryLooksUp, At
  <1>3. req[r].server \in Server /\ req[r].key \in Key /\ req[r].key.server = req[r].server
        /\ Issued(req[r].key)
    BY <1>1, <1>2 DEF Filled, Credited, Settled
  <1>4. PICK n \in Server : n = req[r].server
    BY <1>3
  <1>5. PICK k \in Kind : k = req[r].snap
    BY <1>1
  <1>6. PICK key \in Key : key = req[r].key
    BY <1>3
  <1>7. PICK x : x = lookup(n, k)
    OBVIOUS
  <1>8. /\ Registers(n, x) /\ req' = [req EXCEPT ![r].pc = "build", ![r].res = x]
        /\ UNCHANGED <<cur, applyVars>> /\ UNCHANGED globalGen /\ UNCHANGED pool
    BY <1>4, <1>5, <1>7 DEF FactoryLooksUp
  <1>9. Types /\ Generations
    BY DEF GatewayInv
  <1>10. /\ Grows
         /\ x # None => x \in 1..Len(resolver')
         /\ Dynamic(k) /\ x = None => /\ entries' = entries /\ resolver' = resolver
                                      /\ entries[n] # None => resolver[entries[n]].kind # k
         /\ \A m \in Server : entries'[m] = entries[m] \/ m \in Lists(cur)
    BY <1>5, <1>7, <1>8, <1>9, Registering
  <1>11. x \in 1..MaxRes \cup {None}
    <2>1. Len(resolver') \in Len(resolver)..MaxRes
      BY <1>10 DEF Grows
    <2> QED
      BY <1>9, <1>10, <2>1, ResolverType
  <1>12. PICK q : q = [req[r] EXCEPT !.pc = "build", !.res = x]
    OBVIOUS
  <1>13. q \in ReqType
    <2>1. "build" \in PCs
      BY DEF PCs
    <2> QED
      BY <1>1, <1>11, <1>12, <2>1 DEF ReqType
  <1>14. /\ q.pc = "build" /\ q.server = n /\ q.key = key /\ q.snap = k /\ q.res = x
    BY <1>1, <1>4, <1>5, <1>6, <1>12 DEF ReqType
  <1>15. q.recent = req[r].recent /\ q.stale = req[r].stale
    BY <1>1, <1>12, Zenon DEF ReqType
  <1>16. Filled(q)
    BY <1>3, <1>4, <1>6, <1>14 DEF Filled, Settled
  <1>17. Dated(q)
    BY <1>1, <1>2, <1>4, <1>5, <1>14, <1>15 DEF Dated, Underway
  <1>18. Credited(q)'
    <2>1. Issued(key)'
      BY <1>3, <1>6, <1>9, <1>10, Keeping
    <2>2. x = None => Missed(k, key)'
      BY <1>3, <1>4, <1>6, <1>10 DEF Missed
    <2>3. x # None => Built(x)'
      BY <1>10 DEF Built
    <2> QED
      BY <1>14, <2>1, <2>2, <2>3 DEF Credited, Settled
  <1>19. req' = [req EXCEPT ![r] = q]
    BY <1>8, <1>12
  <1>20. pool' \subseteq BackendType /\ \A b \in pool' : b \in pool \/ Fit(b)
    BY <1>1, <1>8
  <1> QED
    BY <1>8, <1>10, <1>13, <1>16, <1>17, <1>18, <1>19, <1>20, OneRequest

LEMMA BuildKeeps ==
    ASSUME GatewayInv, NEW r \in Req, buildBackend(r)
    PROVE  GatewayInv'
  <1>1. /\ req[r] \in ReqType /\ pool \subseteq BackendType /\ Filled(req[r])
        /\ Credited(req[r]) /\ Dated(req[r]) /\ req[r].snap \in Kind
    BY RequestType
  <1>2. req[r].pc = "build" /\ UNCHANGED <<cur, applyVars>> /\ UNCHANGED pool
    BY DEF buildBackend, At
  <1>3. PICK key \in Key : key = req[r].key
    BY <1>1, <1>2 DEF Filled, Settled
  <1>4. PICK k \in Kind : k = req[r].snap
    BY <1>1
  <1>5. PICK x : x = req[r].res
    OBVIOUS
  <1>6. /\ Issued(key) /\ IF x = None THEN Missed(k, key) ELSE x \in 1..Len(resolver)
        /\ req[r].server \in Server /\ key.server = req[r].server
    BY <1>1, <1>2, <1>3, <1>4, <1>5 DEF Credited, Filled, Built, Settled
  <1>7. PICK u \in User : u = Identity(key)
    BY Identities
  <1>8. Types /\ Generations
    BY DEF GatewayInv
  <1>9. pool' \subseteq BackendType /\ \A b \in pool' : b \in pool \/ Fit(b)
    BY <1>1, <1>2
  <1>10. CASE Ends(r) /\ UNCHANGED credVars
    <2>1. Grows /\ \A m \in Server : entries'[m] = entries[m]
      BY <1>10, SameCredentials
    <2> QED
      BY <1>2, <1>9, <1>10, <2>1, Answered
  <1>11. CASE x # None /\ ResolveGen(x, u) /\ UNCHANGED entries /\ Ends(r)
    <2>1. Grows /\ \A m \in Server : entries'[m] = entries[m]
      BY <1>6, <1>8, <1>11, Resolving
    <2> QED
      BY <1>2, <1>9, <1>11, <2>1, Answered
  \* What it goes on with, given what it was built from.
  <1>12. ASSUME NEW mat \in Material \cup {None}, Grows, Carries(k, key, mat)', UNCHANGED entries,
                req' = [req EXCEPT ![r].pc = "connect", ![r].res = None,
                                   ![r].recent = step # "idle", ![r].mat = mat]
         PROVE  GatewayInv'
    <2>1. PICK recent \in BOOLEAN : recent = (step # "idle")
      OBVIOUS
    <2>2. PICK q : q = [req[r] EXCEPT !.pc = "connect", !.res = None, !.recent = recent, !.mat = mat]
      OBVIOUS
    <2>3. q \in ReqType
      <3>1. "connect" \in PCs /\ None \in 1..MaxRes \cup {None} /\ recent \in BOOLEAN
            /\ mat \in Material \cup {None}
        BY <1>12, <2>1 DEF PCs
      <3> QED
        BY <1>1, <2>2, <3>1, Zenon DEF ReqType
    <2>4. /\ q.pc = "connect" /\ q.server = req[r].server /\ q.key = key /\ q.snap = k
          /\ q.mat = mat
      BY <1>1, <1>3, <1>4, <2>2 DEF ReqType
    <2>5. q.recent = recent /\ q.stale = req[r].stale
      BY <1>1, <2>2, Zenon DEF ReqType
    <2>6. Filled(q)
      BY <1>6, <2>4 DEF Filled, Settled
    <2>7. Dated(q)
      <3>1. SUFFICES ASSUME Underway(q)
                     PROVE  Fits(q.server, q.snap, q.recent)
        BY <2>4 DEF Dated
      <3>2. Fits(req[r].server, req[r].snap, req[r].recent)
        BY <1>1, <1>2, <2>5, <3>1 DEF Dated, Underway
      <3>3. recent <=> step # "idle"
        BY <2>1
      <3> QED
        BY <1>4, <2>4, <2>5, <3>2, <3>3 DEF Fits
    <2>8. Credited(q)'
      <3>1. Issued(key)'
        BY <1>6, <1>8, <1>12, Keeping
      <3> QED
        BY <1>12, <2>4, <3>1 DEF Credited, Settled
    <2>9. req' = [req EXCEPT ![r] = q]
      BY <1>12, <2>1, <2>2
    <2>10. \A m \in Server : entries'[m] = entries[m] \/ m \in Lists(cur)
      BY <1>12
    <2> QED
      BY <1>2, <1>9, <1>12, <2>3, <2>6, <2>7, <2>8, <2>9, <2>10, OneRequest
  <1>13. CASE /\ x = None /\ UNCHANGED credVars
              /\ req' = [req EXCEPT ![r].pc = "connect", ![r].res = None,
                                    ![r].recent = step # "idle", ![r].mat = None]
    <2>1. Grows /\ UNCHANGED entries
      BY <1>13, SameCredentials DEF credVars
    <2>2. Missed(k, key)'
      BY <1>6, <1>8, <1>13, <2>1, Keeping
    <2>3. Carries(k, key, None)'
      BY <2>2 DEF Carries
    <2> QED
      BY <1>12, <1>13, <2>1, <2>3
  <1>14. CASE /\ x # None /\ ResolveGen(x, u) /\ UNCHANGED entries /\ Generation(x, u) = key.ver
              /\ req' = [req EXCEPT ![r].pc = "connect", ![r].res = None, ![r].recent = step # "idle",
                                    ![r].mat = [res |-> x, user |-> u, gen |-> key.ver]]
    <2>1. /\ Grows /\ Generation(x, u) \in 1..MaxGen
          /\ Len(resolver') = Len(resolver) /\ resolver'[x].gens[u] = Generation(x, u)
      BY <1>6, <1>8, <1>14, Resolving
    <2>2. PICK mat : mat = [res |-> x, user |-> u, gen |-> key.ver]
      OBVIOUS
    <2>3. x \in 1..MaxRes
      BY <1>6, <1>8, <1>14, ResolverType DEF Types
    <2>4. /\ mat \in Material /\ mat.res = x /\ mat.user = u /\ mat.gen = key.ver
      BY <1>14, <2>1, <2>2, <2>3 DEF Material
    <2>5. Issued(key)'
      BY <1>6, <1>8, <2>1, Keeping
    <2>6. x \in 1..Len(resolver') /\ key.ver # 0
      BY <1>6, <1>14, <2>1, <1>8, ResolverType
    <2>7. resolver'[x].kind = "user" <=> key.set # None
      BY <1>14, <2>1, <2>5, <2>6 DEF Issued, PerUser
    <2>8. Carries(k, key, mat)'
      BY <1>7, <2>4, <2>6, <2>7, NoneAssumption DEF Carries, Built, PerUser
    <2> QED
      BY <1>12, <1>14, <2>1, <2>2, <2>4, <2>8
  <1>15. \/ Ends(r) /\ UNCHANGED credVars
         \/ x # None /\ ResolveGen(x, u) /\ UNCHANGED entries /\ Ends(r)
         \/ /\ x = None /\ UNCHANGED credVars
            /\ req' = [req EXCEPT ![r].pc = "connect", ![r].res = None,
                                  ![r].recent = step # "idle", ![r].mat = None]
         \/ /\ x # None /\ ResolveGen(x, u) /\ UNCHANGED entries /\ Generation(x, u) = key.ver
            /\ req' = [req EXCEPT ![r].pc = "connect", ![r].res = None, ![r].recent = step # "idle",
                                  ![r].mat = [res |-> x, user |-> u, gen |-> key.ver]]
    BY <1>3, <1>5, <1>7 DEF buildBackend, credVars
  <1> QED
    BY <1>10, <1>11, <1>13, <1>14, <1>15

LEMMA InstallKeeps ==
    ASSUME GatewayInv, NEW r \in Req, Install(r)
    PROVE  GatewayInv'
  <1>1. /\ req[r] \in ReqType /\ pool \subseteq BackendType /\ Filled(req[r])
        /\ Credited(req[r]) /\ Dated(req[r]) /\ req[r].snap \in Kind
    BY RequestType
  <1>2. req[r].pc = "connect" /\ UNCHANGED <<cur, applyVars>> /\ UNCHANGED credVars
    BY DEF Install, At
  <1>3. Grows /\ \A m \in Server : entries'[m] = entries[m]
    BY <1>2, SameCredentials
  <1>4. /\ req[r].server \in Server /\ req[r].key \in Key /\ req[r].key.server = req[r].server
    BY <1>1, <1>2 DEF Filled, Settled
  <1>5. CASE req[r].stale
    <2>1. UNCHANGED pool /\ req' = [req EXCEPT ![r].pc = "get", ![r].snap = "absent",
                                    ![r].mat = None, ![r].recent = FALSE]
      BY <1>5 DEF Install
    <2>2. PICK q : q = [req[r] EXCEPT !.pc = "get", !.snap = "absent", !.mat = None, !.recent = FALSE]
      OBVIOUS
    <2>3. q \in ReqType
      <3>1. "get" \in PCs /\ "absent" \in Kind /\ None \in Material \cup {None} /\ FALSE \in BOOLEAN
        BY DEF PCs, Kind
      <3> QED
        BY <1>1, <2>2, <3>1, Zenon DEF ReqType
    <2>4. q.pc = "get" /\ q.server = req[r].server /\ q.key = req[r].key
      BY <1>1, <2>2 DEF ReqType
    <2>5. Filled(q) /\ Dated(q) /\ Credited(q)
      BY <1>1, <1>2, <1>4, <2>4 DEF Filled, Dated, Credited, Underway, Settled
    <2>6. Credited(q)'
      BY <1>2, <2>3, <2>5, SameCredentials
    <2>7. req' = [req EXCEPT ![r] = q]
      BY <2>1, <2>2
    <2>8. pool' \subseteq BackendType /\ \A b \in pool' : b \in pool \/ Fit(b)
      BY <1>1, <2>1
    <2> QED
      BY <1>2, <1>3, <2>3, <2>5, <2>6, <2>7, <2>8, OneRequest
  <1>6. CASE ~req[r].stale
    <2>1. PICK b : b = [key |-> req[r].key, mat |-> req[r].mat, kind |-> req[r].snap,
                        recent |-> req[r].recent]
      OBVIOUS
    <2>2. Ends(r) /\ (pool' = pool \/ pool' = pool \cup {b})
      BY <1>6, <2>1 DEF Install
    <2>3. b \in BackendType
      <3>1. req[r].mat \in Material \cup {None} /\ req[r].recent \in BOOLEAN
        BY <1>1, Zenon DEF ReqType
      <3> QED
        BY <1>1, <1>4, <2>1, <3>1, Zenon DEF BackendType
    <2>4. b.key = req[r].key /\ b.mat = req[r].mat /\ b.kind = req[r].snap
      BY <2>1
    <2>5. b.recent = req[r].recent
      BY <2>1, Zenon
    <2>6. Issued(req[r].key) /\ Carries(req[r].snap, req[r].key, req[r].mat)
      BY <1>1, <1>2 DEF Credited, Settled
    <2>7. Fits(req[r].server, req[r].snap, req[r].recent)
      BY <1>1, <1>2, <1>6 DEF Dated, Underway
    <2>8. Fit(b)
      BY <1>4, <2>4, <2>5, <2>6, <2>7 DEF Fit
    <2>9. pool' \subseteq BackendType /\ \A c \in pool' : c \in pool \/ Fit(c)
      BY <1>1, <2>2, <2>3, <2>8
    <2> QED
      BY <1>2, <1>3, <2>2, <2>9, Answered
  <1> QED
    BY <1>5, <1>6

LEMMA RotateKeeps ==
    ASSUME GatewayInv, NEW x \in DOMAIN resolver, NEW u \in User, Rotate(x, u)
    PROVE  GatewayInv'
  <1>1. Types /\ Generations
    BY DEF GatewayInv
  <1>2. x \in 1..Len(resolver)
    <2>1. resolver \in Seq(Cached)
      BY <1>1 DEF Types
    <2> QED
      BY <2>1, LenProperties
  <1>3. Grows
    BY <1>1, <1>2, Rotating
  <1>4. UNCHANGED <<cur, applyVars>> /\ UNCHANGED entries /\ UNCHANGED pool /\ UNCHANGED req
    BY DEF Rotate
  <1>5. req' \in [Req -> ReqType] /\ pool' \subseteq BackendType
    BY <1>1, <1>4 DEF Types
  <1> QED
    BY <1>3, <1>4, <1>5, Proxied

LEMMA LeavesKeeps ==
    ASSUME GatewayInv, NEW b \in pool, Leaves(b)
    PROVE  GatewayInv'
  <1>1. /\ UNCHANGED <<cur, applyVars>> /\ UNCHANGED credVars /\ UNCHANGED req
        /\ pool' = pool \ {b}
    BY DEF Leaves
  <1>2. Grows /\ \A n \in Server : entries'[n] = entries[n]
    BY <1>1, SameCredentials
  <1>3. req' \in [Req -> ReqType] /\ pool' \subseteq BackendType
    BY <1>1 DEF GatewayInv, Types
  <1> QED
    BY <1>1, <1>2, <1>3, Proxied

-----------------------------------------------------------------------------
(* The steps of an apply *)

\* An apply builds and resolves nothing: it changes neither what requests are
\* keyed by nor what is in the pool, but for what it evicts and dates.
LEMMA Applied ==
    ASSUME GatewayInv, Grows, UNCHANGED globalGen, req' \in [Req -> ReqType],
           \A r \in Req :
               /\ req'[r].pc = req[r].pc /\ req'[r].server = req[r].server
               /\ req'[r].user = req[r].user /\ req'[r].snap = req[r].snap
               /\ req'[r].res = req[r].res /\ req'[r].key = req[r].key
               /\ req'[r].mat = req[r].mat,
           pool' \subseteq BackendType,
           \A b \in pool' : \E c \in pool : b.key = c.key /\ b.mat = c.mat /\ b.kind = c.kind
    PROVE  /\ Generations' /\ Credentials'
           /\ \A r \in Req : Filled(req[r])'
           /\ entries' \in [Server -> 1..MaxRes \cup {None}]
           /\ resolver' \in Seq(Cached) /\ Len(resolver') <= MaxRes /\ globalGen' \in 0..MaxGen
  <1>0. Types /\ Generations /\ Credentials
    BY DEF GatewayInv
  <1>1. ASSUME NEW r \in Req
        PROVE  Filled(req[r])' /\ Credited(req[r])'
    <2>1. Filled(req[r]) /\ Credited(req[r])
      BY <1>0 DEF Types, Credentials
    <2> QED
      BY <1>0, <2>1, SameRequest
  <1>2. ASSUME NEW b \in pool'
        PROVE  Issued(b.key)' /\ Carries(b.kind, b.key, b.mat)'
    <2>1. PICK c \in pool : b.key = c.key /\ b.mat = c.mat /\ b.kind = c.kind
      BY <1>2
    <2>2. c \in BackendType /\ Issued(c.key) /\ Carries(c.kind, c.key, c.mat)
      BY <1>0, <2>1 DEF Types, Credentials
    <2>3. Issued(c.key)' /\ Carries(c.kind, c.key, c.mat)'
      BY <1>0, <2>2, SamePool
    <2> QED
      BY <2>1, <2>3
  <1>3. Credentials'
    BY <1>1, <1>2 DEF Credentials
  <1>4. Len(resolver') <= MaxRes /\ globalGen' \in 0..MaxGen
    <2>1. Len(resolver') \in Len(resolver)..MaxRes
      BY DEF Grows
    <2> QED
      BY <1>0, <2>1, ResolverType DEF Types
  <1> QED
    BY <1>1, <1>3, <1>4 DEF Grows

\* The same, when all it changes is the apply's own state and the registry.
LEMMA AppliedQuietly ==
    ASSUME GatewayInv, UNCHANGED <<req, pool>>, UNCHANGED <<resolver, globalGen>>,
           \/ UNCHANGED entries
           \/ entries' = [n \in Server |-> IF n \in Lists(cur) THEN entries[n] ELSE None],
           cur' \in [Server -> Kind], added' \subseteq Server, toEvict' \subseteq Server,
           all' \in BOOLEAN, failed' \in Configs \cup {None},
           svc' \in [Server -> {"none", "serving", "kept"}]
    PROVE  Types' /\ Generations' /\ Credentials'
  <1>1. Types /\ Generations
    BY DEF GatewayInv
  <1>2. Grows
    BY <1>1, Pruning
  <1>3. req' \in [Req -> ReqType] /\ pool' \subseteq BackendType
    BY <1>1 DEF Types
  <1>4. \A r \in Req :
            /\ req'[r].pc = req[r].pc /\ req'[r].server = req[r].server
            /\ req'[r].user = req[r].user /\ req'[r].snap = req[r].snap
            /\ req'[r].res = req[r].res /\ req'[r].key = req[r].key
            /\ req'[r].mat = req[r].mat
    OBVIOUS
  <1>5. \A b \in pool' : \E c \in pool : b.key = c.key /\ b.mat = c.mat /\ b.kind = c.kind
    OBVIOUS
  <1>6. /\ Generations' /\ Credentials'
        /\ \A r \in Req : Filled(req[r])'
        /\ entries' \in [Server -> 1..MaxRes \cup {None}]
        /\ resolver' \in Seq(Cached) /\ Len(resolver') <= MaxRes /\ globalGen' \in 0..MaxGen
    BY <1>2, <1>3, <1>4, <1>5, Applied
  <1> QED
    BY <1>3, <1>6 DEF Types

\* What fitted still does.
LEMMA Refitted ==
    ASSUME GatewayInv, UNCHANGED <<req, pool>>,
           \A n \in Server, k \in Kind : \A recent : Fits(n, k, recent) => Fits(n, k, recent)'
    PROVE  Backends'
  <1>1. Types /\ Backends
    BY DEF GatewayInv
  <1>2. ASSUME NEW r \in Req
        PROVE  Dated(req[r])'
    <2>1. Dated(req[r]) /\ Filled(req[r]) /\ req[r].snap \in Kind
      BY RequestType
    <2>2. CASE Underway(req[r])
      <3>1. req[r].server \in Server /\ Fits(req[r].server, req[r].snap, req[r].recent)
        BY <2>1, <2>2 DEF Dated, Underway, Filled, Settled
      <3>2. PICK n, k, recent :
                n = req[r].server /\ k = req[r].snap /\ recent = req[r].recent
        BY <2>1, <3>1
      <3>3. Fits(n, k, recent)'
        BY <2>1, <3>1, <3>2
      <3> QED
        BY <2>1, <3>2, <3>3 DEF Dated
    <2>3. CASE ~Underway(req[r])
      BY <2>1, <2>3 DEF Dated, Underway
    <2> QED
      BY <2>2, <2>3
  <1>3. ASSUME NEW b \in pool
        PROVE  Fits(b.key.server, b.kind, b.recent)'
    <2>1. b \in BackendType /\ Fits(b.key.server, b.kind, b.recent)
      BY <1>1 DEF Types, Backends
    <2>2. b.key.server \in Server /\ b.kind \in Kind
      BY <2>1 DEF BackendType, Key
    <2> QED
      BY <2>1, <2>2
  <1> QED
    BY <1>2, <1>3 DEF Backends

LEMMA ApplyType ==
    ASSUME GatewayInv
    PROVE  /\ Types /\ Phases /\ Services /\ Registry
           /\ cur \in [Server -> Kind] /\ added \subseteq Server /\ toEvict \subseteq Server
           /\ all \in BOOLEAN /\ failed \in Configs \cup {None}
           /\ svc \in [Server -> {"none", "serving", "kept"}]
           /\ \A c \in Configs : c \in [Server -> Kind] /\ c # None
  BY GatewayAssumption DEF GatewayInv, Types

LEMMA ApplyUnchangedKeeps ==
    ASSUME GatewayInv, NEW c \in Configs, ApplyUnchanged(c)
    PROVE  GatewayInv'
  <1>1. /\ step = "idle" /\ step' = "prune" /\ failed' = None
        /\ UNCHANGED <<cur, rev, prev, added, toEvict, all, svc>>
        /\ UNCHANGED entries /\ UNCHANGED <<resolver, globalGen>> /\ UNCHANGED <<req, pool>>
    BY DEF ApplyUnchanged, credVars
  <1>2. /\ Phases /\ Services
        /\ cur \in [Server -> Kind] /\ added \subseteq Server /\ toEvict \subseteq Server
        /\ all \in BOOLEAN /\ svc \in [Server -> {"none", "serving", "kept"}]
    BY ApplyType
  <1>3. Types' /\ Generations' /\ Credentials'
    <2>1. all' \in BOOLEAN /\ failed' \in Configs \cup {None}
      BY <1>1, <1>2
    <2> QED
      BY <1>1, <1>2, <2>1, AppliedQuietly
  <1>4. Phases'
    BY <1>1, <1>2 DEF Phases, Applying
  <1>5. Services'
    BY <1>1, <1>2 DEF Services, ServedBy, Lists
  <1>6. Registry'
    BY <1>1 DEF Registry
  <1>7. Backends'
    <2>1. \A n \in Server, k \in Kind : \A recent : Fits(n, k, recent) => Fits(n, k, recent)'
      BY <1>1 DEF Fits
    <2> QED
      BY <1>1, <2>1, Refitted
  <1> QED
    BY <1>3, <1>4, <1>5, <1>6, <1>7 DEF GatewayInv

LEMMA PublishKeeps ==
    ASSUME GatewayInv, Publish
    PROVE  GatewayInv'
  <1>1. /\ step = "publish" /\ step' = "wire" /\ cur' = rev
        /\ UNCHANGED <<rev, prev, added, toEvict, all, failed, svc>>
        /\ UNCHANGED entries /\ UNCHANGED <<resolver, globalGen>> /\ UNCHANGED <<req, pool>>
    BY DEF Publish, credVars
  <1>2. /\ Phases /\ Services
        /\ cur \in [Server -> Kind] /\ added \subseteq Server /\ toEvict \subseteq Server
        /\ all \in BOOLEAN /\ failed \in Configs \cup {None}
        /\ svc \in [Server -> {"none", "serving", "kept"}]
        /\ \A c \in Configs : c \in [Server -> Kind] /\ c # None
    BY ApplyType
  <1>3. rev \in Configs /\ prev = cur /\ failed # rev /\ toEvict = {} /\ added = {} /\ ~all
    BY <1>1, <1>2 DEF Phases
  <1>4. Types' /\ Generations' /\ Credentials'
    <2>1. cur' \in [Server -> Kind] /\ all' \in BOOLEAN
      BY <1>1, <1>2, <1>3
    <2> QED
      BY <1>1, <1>2, <2>1, AppliedQuietly
  <1>5. Phases'
    BY <1>1, <1>2, <1>3 DEF Phases, Applying
  <1>6. Services'
    BY <1>1, <1>2, <1>3 DEF Services, ServedBy, Lists
  <1>7. Registry'
    BY <1>1 DEF Registry
  <1>8. Backends'
    <2>1. \A n \in Server, k \in Kind : \A recent : Fits(n, k, recent) => Fits(n, k, recent)'
      BY <1>1, <1>3 DEF Fits
    <2> QED
      BY <1>1, <2>1, Refitted
  <1> QED
    BY <1>4, <1>5, <1>6, <1>7, <1>8 DEF GatewayInv

LEMMA AddServiceKeeps ==
    ASSUME GatewayInv, NEW n \in Server, AddService(n)
    PROVE  GatewayInv'
  <1>1. /\ step = "wire" /\ n \in Lists(rev) /\ svc[n] = "none"
        /\ svc' = [svc EXCEPT ![n] = "serving"] /\ added' = added \cup {n}
        /\ UNCHANGED <<cur, step, rev, prev, toEvict, all, failed>>
        /\ UNCHANGED entries /\ UNCHANGED <<resolver, globalGen>> /\ UNCHANGED <<req, pool>>
    BY DEF AddService, credVars
  <1>2. /\ Phases /\ Services
        /\ cur \in [Server -> Kind] /\ added \subseteq Server /\ toEvict \subseteq Server
        /\ all \in BOOLEAN /\ failed \in Configs \cup {None}
        /\ svc \in [Server -> {"none", "serving", "kept"}]
    BY ApplyType
  <1>3. Types' /\ Generations' /\ Credentials'
    <2>1. /\ svc' \in [Server -> {"none", "serving", "kept"}] /\ added' \subseteq Server
          /\ all' \in BOOLEAN
      BY <1>1, <1>2
    <2> QED
      BY <1>1, <1>2, <2>1, AppliedQuietly
  <1>4. Phases'
    BY <1>1, <1>2 DEF Phases, Applying
  <1>5. Services'
    BY <1>1, <1>2 DEF Services, ServedBy, Lists
  <1>6. Registry'
    BY <1>1 DEF Registry
  <1>7. Backends'
    <2>1. \A m \in Server, k \in Kind : \A recent : Fits(m, k, recent) => Fits(m, k, recent)'
      BY <1>1 DEF Fits
    <2> QED
      BY <1>1, <2>1, Refitted
  <1> QED
    BY <1>3, <1>4, <1>5, <1>6, <1>7 DEF GatewayInv

LEMMA AddServiceFailsKeeps ==
    ASSUME GatewayInv, NEW n \in Server, AddServiceFails(n)
    PROVE  GatewayInv'
  <1>1. /\ step = "wire" /\ step' = "undo"
        /\ UNCHANGED <<cur, rev, prev, added, toEvict, all, failed, svc>>
        /\ UNCHANGED entries /\ UNCHANGED <<resolver, globalGen>> /\ UNCHANGED <<req, pool>>
    BY DEF AddServiceFails, credVars
  <1>2. /\ Phases /\ Services
        /\ cur \in [Server -> Kind] /\ added \subseteq Server /\ toEvict \subseteq Server
        /\ all \in BOOLEAN /\ failed \in Configs \cup {None}
        /\ svc \in [Server -> {"none", "serving", "kept"}]
    BY ApplyType
  <1>3. Types' /\ Generations' /\ Credentials'
    <2>1. all' \in BOOLEAN
      BY <1>1, <1>2
    <2> QED
      BY <1>1, <1>2, <2>1, AppliedQuietly
  <1>4. Phases'
    BY <1>1, <1>2 DEF Phases, Applying
  <1>5. Services'
    BY <1>1, <1>2 DEF Services, ServedBy, Lists
  <1>6. Registry'
    BY <1>1 DEF Registry
  <1>7. Backends'
    <2>1. \A m \in Server, k \in Kind : \A recent : Fits(m, k, recent) => Fits(m, k, recent)'
      BY <1>1 DEF Fits
    <2> QED
      BY <1>1, <2>1, Refitted
  <1> QED
    BY <1>3, <1>4, <1>5, <1>6, <1>7 DEF GatewayInv

\* What stopLocked leaves of the services it is to stop, and of the others.
LEMMA Stopping ==
    ASSUME NEW names, stopLocked(names), svc \in [Server -> {"none", "serving", "kept"}]
    PROVE  /\ svc' \in [Server -> {"none", "serving", "kept"}]
           /\ \A n \in Server : IF n \in names THEN svc'[n] # "serving" ELSE svc'[n] = svc[n]
  BY DEF stopLocked

LEMMA UndoAddsKeeps ==
    ASSUME GatewayInv, UndoAdds
    PROVE  GatewayInv'
  <1>1. /\ step = "undo" /\ stopLocked(added) /\ failed' = rev /\ added' = {}
        /\ step' = IF failed = rev THEN "evict" ELSE "rollback"
        /\ UNCHANGED <<cur, rev, prev, toEvict, all>>
        /\ UNCHANGED entries /\ UNCHANGED <<resolver, globalGen>> /\ UNCHANGED <<req, pool>>
    BY DEF UndoAdds, credVars
  <1>2. /\ Phases /\ Services
        /\ cur \in [Server -> Kind] /\ added \subseteq Server /\ toEvict \subseteq Server
        /\ all \in BOOLEAN /\ svc \in [Server -> {"none", "serving", "kept"}]
    BY ApplyType
  <1>3. /\ rev \in Configs /\ prev \in [Server -> Kind] /\ toEvict = {} /\ ~all
        /\ cur = IF failed = rev THEN prev ELSE rev
    BY <1>1, <1>2 DEF Phases, Applying
  <1>4. /\ svc' \in [Server -> {"none", "serving", "kept"}]
        /\ \A n \in Server : IF n \in added THEN svc'[n] # "serving" ELSE svc'[n] = svc[n]
    BY <1>1, <1>2, Stopping
  <1>5. Types' /\ Generations' /\ Credentials'
    <2>1. all' \in BOOLEAN /\ failed' \in Configs \cup {None} /\ added' \subseteq Server
      BY <1>1, <1>2, <1>3
    <2> QED
      BY <1>1, <1>2, <1>4, <2>1, AppliedQuietly
  <1>6. Phases'
    BY <1>1, <1>2, <1>3 DEF Phases
  <1>7. Services'
    <2>1. ServedBy(prev)'
      BY <1>1, <1>2, <1>4 DEF Services, ServedBy, Lists
    <2> QED
      BY <1>1, <1>3, <2>1 DEF Services, ServedBy, Lists
  <1>8. Registry'
    BY <1>1 DEF Registry
  <1>9. Backends'
    <2>1. \A m \in Server, k \in Kind : \A recent : Fits(m, k, recent) => Fits(m, k, recent)'
      BY <1>1, <1>3 DEF Fits
    <2> QED
      BY <1>1, <2>1, Refitted
  <1> QED
    BY <1>5, <1>6, <1>7, <1>8, <1>9 DEF GatewayInv

LEMMA RollbackKeeps ==
    ASSUME GatewayInv, Rollback
    PROVE  GatewayInv'
  <1>1. /\ step = "rollback" /\ step' = "evict" /\ cur' = prev /\ all' = FALSE
        /\ toEvict' = Changed(prev, rev) \cup (Lists(rev) \ Lists(prev))
        /\ UNCHANGED <<rev, prev, added, failed, svc>>
        /\ UNCHANGED entries /\ UNCHANGED <<resolver, globalGen>> /\ UNCHANGED <<req, pool>>
    BY DEF Rollback, credVars
  <1>2. /\ Phases /\ Services
        /\ cur \in [Server -> Kind] /\ added \subseteq Server /\ toEvict \subseteq Server
        /\ all \in BOOLEAN /\ failed \in Configs \cup {None}
        /\ svc \in [Server -> {"none", "serving", "kept"}]
        /\ \A c \in Configs : c \in [Server -> Kind] /\ c # None
    BY ApplyType
  <1>3. /\ rev \in Configs /\ prev \in [Server -> Kind] /\ cur = rev /\ failed = rev
        /\ added = {}
    BY <1>1, <1>2 DEF Phases
  <1>4. Types' /\ Generations' /\ Credentials'
    <2>1. cur' \in [Server -> Kind] /\ toEvict' \subseteq Server
      BY <1>1, <1>3 DEF Changed, Lists
    <2>2. all' \in BOOLEAN
      BY <1>1
    <2> QED
      BY <1>1, <1>2, <2>1, <2>2, AppliedQuietly
  <1>5. Phases'
    BY <1>1, <1>2, <1>3 DEF Phases
  <1>6. Services'
    BY <1>1, <1>2, <1>3 DEF Services, ServedBy, Lists
  <1>7. Registry'
    BY <1>1 DEF Registry
  <1>8. Backends'
    <2>1. \A n \in Server, k \in Kind : \A recent : Fits(n, k, recent) => Fits(n, k, recent)'
      BY <1>1, <1>3 DEF Fits, Changed, Lists
    <2> QED
      BY <1>1, <2>1, Refitted
  <1> QED
    BY <1>4, <1>5, <1>6, <1>7, <1>8 DEF GatewayInv

LEMMA StopStaleKeeps ==
    ASSUME GatewayInv, StopStale
    PROVE  GatewayInv'
  <1>1. /\ step = "wire" /\ step' = "adopt" /\ added' = {}
        /\ \A n \in Lists(rev) : svc[n] # "none"
        /\ stopLocked({n \in Server : svc[n] # "none"} \ Lists(rev))
        /\ UNCHANGED <<cur, rev, prev, toEvict, all, failed>>
        /\ UNCHANGED entries /\ UNCHANGED <<resolver, globalGen>> /\ UNCHANGED <<req, pool>>
    BY DEF StopStale, credVars
  <1>2. /\ Phases /\ Services
        /\ cur \in [Server -> Kind] /\ added \subseteq Server /\ toEvict \subseteq Server
        /\ all \in BOOLEAN /\ failed \in Configs \cup {None}
        /\ svc \in [Server -> {"none", "serving", "kept"}]
        /\ \A c \in Configs : c \in [Server -> Kind] /\ c # None
    BY ApplyType
  <1>3. PICK names : names = {n \in Server : svc[n] # "none"} \ Lists(rev)
    OBVIOUS
  <1>4. /\ svc' \in [Server -> {"none", "serving", "kept"}]
        /\ \A n \in Server : IF n \in names THEN svc'[n] # "serving" ELSE svc'[n] = svc[n]
    BY <1>1, <1>2, <1>3, Stopping
  <1>5. Types' /\ Generations' /\ Credentials'
    <2>1. all' \in BOOLEAN /\ added' \subseteq Server
      BY <1>1, <1>2
    <2> QED
      BY <1>1, <1>2, <1>4, <2>1, AppliedQuietly
  <1>6. Phases'
    BY <1>1, <1>2 DEF Phases, Applying
  <1>7. Services'
    <2>1. ServedBy(rev)'
      BY <1>1, <1>3, <1>4 DEF ServedBy, Lists
    <2> QED
      BY <1>1, <2>1 DEF Services
  <1>8. Registry'
    BY <1>1 DEF Registry
  <1>9. Backends'
    <2>1. \A n \in Server, k \in Kind : \A recent : Fits(n, k, recent) => Fits(n, k, recent)'
      BY <1>1 DEF Fits
    <2> QED
      BY <1>1, <2>1, Refitted
  <1> QED
    BY <1>5, <1>6, <1>7, <1>8, <1>9 DEF GatewayInv

LEMMA AdoptKeeps ==
    ASSUME GatewayInv, Adopt
    PROVE  GatewayInv'
  <1>1. /\ step = "adopt" /\ step' = "evict" /\ cur' = rev /\ failed' = None
        /\ toEvict' = (Lists(prev) \ Lists(rev)) \cup Changed(prev, rev) /\ all' = TRUE
        /\ UNCHANGED <<rev, prev, added, svc>>
        /\ UNCHANGED entries /\ UNCHANGED <<resolver, globalGen>> /\ UNCHANGED <<req, pool>>
    BY DEF Adopt, credVars
  <1>2. /\ Phases /\ Services
        /\ cur \in [Server -> Kind] /\ added \subseteq Server /\ toEvict \subseteq Server
        /\ all \in BOOLEAN /\ failed \in Configs \cup {None}
        /\ svc \in [Server -> {"none", "serving", "kept"}]
        /\ \A c \in Configs : c \in [Server -> Kind] /\ c # None
    BY ApplyType
  <1>3. /\ rev \in Configs /\ prev \in [Server -> Kind] /\ added = {}
        /\ cur = IF failed = rev THEN prev ELSE rev
    BY <1>1, <1>2 DEF Phases, Applying
  <1>4. Types' /\ Generations' /\ Credentials'
    <2>1. cur' \in [Server -> Kind] /\ toEvict' \subseteq Server /\ failed' \in Configs \cup {None}
      BY <1>1, <1>2, <1>3 DEF Changed, Lists
    <2>2. all' \in BOOLEAN
      BY <1>1
    <2> QED
      BY <1>1, <1>2, <2>1, <2>2, AppliedQuietly
  <1>5. Phases'
    BY <1>1, <1>2, <1>3 DEF Phases
  <1>6. Services'
    BY <1>1, <1>2, <1>3 DEF Services, ServedBy, Lists
  <1>7. Registry'
    BY <1>1 DEF Registry
  <1>8. Backends'
    <2>1. \A n \in Server, k \in Kind : \A recent : Fits(n, k, recent) => Fits(n, k, recent)'
      BY <1>1, <1>3 DEF Fits, Changed, Lists
    <2> QED
      BY <1>1, <2>1, Refitted
  <1> QED
    BY <1>4, <1>5, <1>6, <1>7, <1>8 DEF GatewayInv

LEMMA EvictDoneKeeps ==
    ASSUME GatewayInv, EvictDone
    PROVE  GatewayInv'
  <1>1. /\ step = "evict" /\ toEvict = {} /\ step' = IF all THEN "prune" ELSE "idle"
        /\ rev' = None /\ prev' = None /\ all' = FALSE
        /\ UNCHANGED <<cur, added, toEvict, failed, svc>>
        /\ UNCHANGED entries /\ UNCHANGED <<resolver, globalGen>> /\ UNCHANGED <<req, pool>>
    BY DEF EvictDone, credVars
  <1>2. /\ Phases /\ Services
        /\ cur \in [Server -> Kind] /\ added \subseteq Server /\ toEvict \subseteq Server
        /\ all \in BOOLEAN /\ failed \in Configs \cup {None}
        /\ svc \in [Server -> {"none", "serving", "kept"}]
        /\ \A c \in Configs : c \in [Server -> Kind] /\ c # None
    BY ApplyType
  <1>3. /\ rev \in Configs /\ (all => failed = None) /\ (~all => failed = rev) /\ added = {}
    BY <1>1, <1>2 DEF Phases
  <1>4. Types' /\ Generations' /\ Credentials'
    <2>1. all' \in BOOLEAN
      BY <1>1
    <2> QED
      BY <1>1, <1>2, <2>1, AppliedQuietly
  <1>5. Phases'
    BY <1>1, <1>2, <1>3 DEF Phases
  <1>6. Services'
    BY <1>1, <1>2 DEF Services, ServedBy, Lists
  <1>7. Registry'
    BY <1>1, <1>2, <1>3 DEF Registry
  <1>8. Backends'
    <2>1. \A n \in Server, k \in Kind : \A recent : Fits(n, k, recent) => Fits(n, k, recent)'
      BY <1>1 DEF Fits
    <2> QED
      BY <1>1, <2>1, Refitted
  <1> QED
    BY <1>4, <1>5, <1>6, <1>7, <1>8 DEF GatewayInv

LEMMA PruneKeeps ==
    ASSUME GatewayInv, prune
    PROVE  GatewayInv'
  <1>1. /\ step = "prune" /\ step' = "idle"
        /\ entries' = [n \in Server |-> IF n \in Lists(cur) THEN entries[n] ELSE None]
        /\ UNCHANGED <<cur, rev, prev, added, toEvict, all, failed, svc>>
        /\ UNCHANGED <<resolver, globalGen>> /\ UNCHANGED <<req, pool>>
    BY DEF prune
  <1>2. /\ Phases /\ Services
        /\ cur \in [Server -> Kind] /\ added \subseteq Server /\ toEvict \subseteq Server
        /\ all \in BOOLEAN /\ failed \in Configs \cup {None}
        /\ svc \in [Server -> {"none", "serving", "kept"}]
        /\ \A c \in Configs : c \in [Server -> Kind] /\ c # None
    BY ApplyType
  <1>3. Types' /\ Generations' /\ Credentials'
    <2>1. all' \in BOOLEAN
      BY <1>1, <1>2
    <2> QED
      BY <1>1, <1>2, <2>1, AppliedQuietly
  <1>4. Phases'
    BY <1>1, <1>2 DEF Phases
  <1>5. Services'
    BY <1>1, <1>2 DEF Services, ServedBy, Lists
  <1>6. Registry'
    BY <1>1 DEF Registry, Lists
  <1>7. Backends'
    <2>1. \A n \in Server, k \in Kind : \A recent : Fits(n, k, recent) => Fits(n, k, recent)'
      BY <1>1 DEF Fits
    <2> QED
      BY <1>1, <2>1, Refitted
  <1> QED
    BY <1>3, <1>4, <1>5, <1>6, <1>7 DEF GatewayInv

LEMMA ApplyBeginKeeps ==
    ASSUME GatewayInv, NEW c \in Configs, ApplyBegin(c)
    PROVE  GatewayInv'
  <1>1. /\ step = "idle" /\ rev' = c /\ prev' = cur
        /\ step' = IF failed = c THEN "wire" ELSE "publish"
        /\ UNCHANGED <<cur, added, toEvict, all, failed, svc>>
        /\ UNCHANGED credVars
    BY DEF ApplyBegin
  <1>2. /\ pool' = {[b EXCEPT !.recent = FALSE] : b \in pool}
        /\ req' = [r \in Req |-> IF req[r].pc = "connect"
                                 THEN [req[r] EXCEPT !.recent = FALSE] ELSE req[r]]
    BY DEF ApplyBegin, At
  <1>3. /\ Types /\ Phases /\ Services /\ Registry
        /\ cur \in [Server -> Kind] /\ added \subseteq Server /\ toEvict \subseteq Server
        /\ all \in BOOLEAN /\ failed \in Configs \cup {None}
        /\ svc \in [Server -> {"none", "serving", "kept"}]
        /\ \A d \in Configs : d \in [Server -> Kind] /\ d # None
    BY ApplyType
  <1>4. Grows /\ UNCHANGED <<entries, resolver, globalGen>>
    BY <1>1, SameCredentials DEF credVars
  <1>5. ASSUME NEW b \in BackendType
        PROVE  /\ [b EXCEPT !.recent = FALSE] \in BackendType
               /\ [b EXCEPT !.recent = FALSE].key = b.key
               /\ [b EXCEPT !.recent = FALSE].mat = b.mat
               /\ [b EXCEPT !.recent = FALSE].kind = b.kind
    <2>1. FALSE \in BOOLEAN
      OBVIOUS
    <2> QED
      BY <2>1, Zenon DEF BackendType
  <1>6. ASSUME NEW q \in ReqType
        PROVE  /\ [q EXCEPT !.recent = FALSE] \in ReqType
               /\ [q EXCEPT !.recent = FALSE].pc = q.pc
               /\ [q EXCEPT !.recent = FALSE].server = q.server
               /\ [q EXCEPT !.recent = FALSE].user = q.user
               /\ [q EXCEPT !.recent = FALSE].snap = q.snap
               /\ [q EXCEPT !.recent = FALSE].res = q.res
               /\ [q EXCEPT !.recent = FALSE].key = q.key
               /\ [q EXCEPT !.recent = FALSE].mat = q.mat
               /\ [q EXCEPT !.recent = FALSE].stale = q.stale
    <2>1. FALSE \in BOOLEAN
      OBVIOUS
    <2> QED
      BY <2>1, Zenon DEF ReqType
  <1>7. pool \subseteq BackendType /\ req \in [Req -> ReqType]
    BY <1>3 DEF Types
  <1>8. /\ pool' \subseteq BackendType
        /\ \A b \in pool' : \E d \in pool : b.key = d.key /\ b.mat = d.mat /\ b.kind = d.kind
    <2>1. ASSUME NEW b \in pool'
          PROVE  /\ b \in BackendType
                 /\ \E d \in pool : b.key = d.key /\ b.mat = d.mat /\ b.kind = d.kind
      <3>1. PICK d \in pool : b = [d EXCEPT !.recent = FALSE]
        BY <1>2, Zenon
      <3>2. d \in BackendType
        BY <1>7
      <3>3. b \in BackendType /\ b.key = d.key /\ b.mat = d.mat /\ b.kind = d.kind
        BY <1>5, <3>1, <3>2, Zenon
      <3> QED
        BY <3>3
    <2> QED
      BY <2>1
  <1>9. \A r \in Req :
            /\ req'[r] \in ReqType
            /\ req'[r].pc = req[r].pc /\ req'[r].server = req[r].server
            /\ req'[r].user = req[r].user /\ req'[r].snap = req[r].snap
            /\ req'[r].res = req[r].res /\ req'[r].key = req[r].key
            /\ req'[r].mat = req[r].mat /\ req'[r].stale = req[r].stale
            /\ (req[r].pc # "connect" => req'[r] = req[r])
    BY <1>2, <1>6, <1>7
  <1>10. req' \in [Req -> ReqType]
    BY <1>2, <1>9
  <1>11. /\ Generations' /\ Credentials'
         /\ \A r \in Req : Filled(req[r])'
         /\ entries' \in [Server -> 1..MaxRes \cup {None}]
         /\ resolver' \in Seq(Cached) /\ Len(resolver') <= MaxRes /\ globalGen' \in 0..MaxGen
    BY <1>4, <1>8, <1>9, <1>10, Applied
  <1>12. Types'
    BY <1>1, <1>3, <1>8, <1>10, <1>11 DEF Types
  <1>13. added = {} /\ toEvict = {} /\ ~all
    BY <1>1, <1>3 DEF Phases
  <1>14. Phases'
    BY <1>1, <1>3, <1>13 DEF Phases, Applying
  <1>15. Services'
    BY <1>1, <1>3, <1>13 DEF Services, ServedBy, Lists
  <1>16. Registry'
    BY <1>1, <1>3, <1>4 DEF Registry, Lists
  <1>17. \A n \in Server, k \in Kind : \A old, new : Fits(n, k, old) => Fits(n, k, new)'
    BY <1>1 DEF Fits
  <1>18. ASSUME NEW r \in Req
         PROVE  Dated(req[r])'
    <2>1. Dated(req[r]) /\ Filled(req[r]) /\ req[r].snap \in Kind
      BY RequestType
    <2>2. req'[r].pc \in {"factory", "registry", "build"} => req'[r].recent
      BY <1>9, <2>1 DEF Dated
    <2>3. ASSUME Underway(req[r])'
          PROVE  Fits(req[r].server, req[r].snap, req[r].recent)'
      <3>1. Underway(req[r]) /\ req[r].server \in Server
        BY <1>9, <2>1, <2>3 DEF Underway, Filled, Settled
      <3>2. PICK n, k, old :
                n = req[r].server /\ k = req[r].snap /\ old = req[r].recent
        BY <2>1, <3>1
      <3>3. Fits(n, k, old)
        BY <2>1, <3>1, <3>2 DEF Dated
      <3>4. PICK new : new = req'[r].recent
        OBVIOUS
      <3>5. Fits(n, k, new)'
        BY <1>17, <2>1, <3>1, <3>2, <3>3
      <3>6. req'[r].server = n /\ req'[r].snap = k
        BY <1>9, <3>2
      <3> QED
        BY <3>4, <3>5, <3>6 DEF Fits
    <2> QED
      BY <2>2, <2>3 DEF Dated
  <1>19. ASSUME NEW b \in pool'
         PROVE  Fits(b.key.server, b.kind, b.recent)'
    <2>1. PICK d \in pool : b.key = d.key /\ b.kind = d.kind
      BY <1>8
    <2>2. d \in BackendType /\ Fits(d.key.server, d.kind, d.recent)
      BY <1>7 DEF GatewayInv, Backends
    <2>3. d.key.server \in Server /\ d.kind \in Kind
      BY <2>2 DEF BackendType, Key
    <2> QED
      BY <1>17, <2>1, <2>2, <2>3
  <1>20. Backends'
    BY <1>18, <1>19 DEF Backends
  <1> QED
    BY <1>11, <1>12, <1>14, <1>15, <1>16, <1>20 DEF GatewayInv

LEMMA EvictKeeps ==
    ASSUME GatewayInv, NEW n \in Server, Evict(n)
    PROVE  GatewayInv'
  <1>1. /\ step = "evict" /\ n \in toEvict /\ toEvict' = toEvict \ {n}
        /\ UNCHANGED <<cur, step, rev, prev, added, all, failed, svc>>
        /\ UNCHANGED credVars
    BY DEF Evict
  <1>2. /\ pool' = {b \in pool : ~(b.key.server = n /\ (all \/ b.recent))}
        /\ req' = [r \in Req |->
                     IF Spawning(r) /\ req[r].server = n /\ (all \/ req[r].recent)
                     THEN [req[r] EXCEPT !.stale = TRUE] ELSE req[r]]
    BY DEF Evict
  <1>3. /\ Types /\ Phases /\ Services /\ Registry
        /\ cur \in [Server -> Kind] /\ added \subseteq Server /\ toEvict \subseteq Server
        /\ all \in BOOLEAN /\ failed \in Configs \cup {None}
        /\ svc \in [Server -> {"none", "serving", "kept"}]
    BY ApplyType
  <1>4. Grows /\ UNCHANGED <<entries, resolver, globalGen>>
    BY <1>1, SameCredentials DEF credVars
  <1>5. ASSUME NEW q \in ReqType
        PROVE  /\ [q EXCEPT !.stale = TRUE] \in ReqType
               /\ [q EXCEPT !.stale = TRUE].pc = q.pc
               /\ [q EXCEPT !.stale = TRUE].server = q.server
               /\ [q EXCEPT !.stale = TRUE].user = q.user
               /\ [q EXCEPT !.stale = TRUE].snap = q.snap
               /\ [q EXCEPT !.stale = TRUE].res = q.res
               /\ [q EXCEPT !.stale = TRUE].key = q.key
               /\ [q EXCEPT !.stale = TRUE].mat = q.mat
               /\ [q EXCEPT !.stale = TRUE].recent = q.recent
               /\ [q EXCEPT !.stale = TRUE].stale
    <2>1. TRUE \in BOOLEAN
      OBVIOUS
    <2> QED
      BY <2>1, Zenon DEF ReqType
  <1>6. pool \subseteq BackendType /\ req \in [Req -> ReqType]
    BY <1>3 DEF Types
  <1>7. /\ pool' \subseteq BackendType
        /\ \A b \in pool' : b \in pool /\ ~(b.key.server = n /\ (all \/ b.recent))
    BY <1>2, <1>6
  <1>8. ASSUME NEW r \in Req
        PROVE  /\ req'[r] \in ReqType
               /\ req'[r].pc = req[r].pc /\ req'[r].server = req[r].server
               /\ req'[r].user = req[r].user /\ req'[r].snap = req[r].snap
               /\ req'[r].res = req[r].res /\ req'[r].key = req[r].key
               /\ req'[r].mat = req[r].mat /\ req'[r].recent = req[r].recent
               /\ \/ req'[r].stale
                  \/ /\ req'[r] = req[r]
                     /\ ~(Spawning(r) /\ req[r].server = n /\ (all \/ req[r].recent))
    <2>1. CASE Spawning(r) /\ req[r].server = n /\ (all \/ req[r].recent)
      <3>1. req'[r] = [req[r] EXCEPT !.stale = TRUE] /\ req[r] \in ReqType
        BY <1>2, <1>6, <2>1
      <3> QED
        BY <1>5, <3>1
    <2>2. CASE ~(Spawning(r) /\ req[r].server = n /\ (all \/ req[r].recent))
      <3>1. req'[r] = req[r] /\ req[r] \in ReqType
        BY <1>2, <1>6, <2>2
      <3> QED
        BY <2>2, <3>1
    <2> QED
      BY <2>1, <2>2
  <1>9. req' \in [Req -> ReqType]
    BY <1>2, <1>8
  <1>10. /\ Generations' /\ Credentials'
         /\ \A r \in Req : Filled(req[r])'
         /\ entries' \in [Server -> 1..MaxRes \cup {None}]
         /\ resolver' \in Seq(Cached) /\ Len(resolver') <= MaxRes /\ globalGen' \in 0..MaxGen
    <2>1. UNCHANGED globalGen
      BY <1>4
    <2>2. \A b \in pool' : \E d \in pool : b.key = d.key /\ b.mat = d.mat /\ b.kind = d.kind
      BY <1>7
    <2>3. \A r \in Req :
              /\ req'[r].pc = req[r].pc /\ req'[r].server = req[r].server
              /\ req'[r].user = req[r].user /\ req'[r].snap = req[r].snap
              /\ req'[r].res = req[r].res /\ req'[r].key = req[r].key
              /\ req'[r].mat = req[r].mat
      BY <1>8
    <2> QED
      BY <1>4, <1>7, <1>9, <2>1, <2>2, <2>3, Applied
  <1>11. Types'
    BY <1>1, <1>3, <1>7, <1>9, <1>10 DEF Types
  <1>12. Phases'
    BY <1>1, <1>3 DEF Phases
  <1>13. Services'
    BY <1>1, <1>3 DEF Services, ServedBy, Lists
  <1>14. Registry'
    BY <1>1 DEF Registry
  \* What the eviction did not reach was not of n, or was n's as it is now.
  <1>15. \A m \in Server, k \in Kind : \A recent :
             Fits(m, k, recent) /\ ~(m = n /\ (all \/ recent)) => Fits(m, k, recent)'
    BY <1>1 DEF Fits
  <1>16. ASSUME NEW r \in Req
         PROVE  Dated(req[r])'
    <2>1. Dated(req[r]) /\ Filled(req[r]) /\ req[r].snap \in Kind
      BY RequestType
    <2>2. req'[r].pc \in {"factory", "registry", "build"} => req'[r].recent
      BY <1>8, <2>1 DEF Dated
    <2>3. ASSUME Underway(req[r])'
          PROVE  Fits(req[r].server, req[r].snap, req[r].recent)'
      <3>1. /\ req'[r] = req[r] /\ Underway(req[r]) /\ req[r].server \in Server
            /\ ~(req[r].server = n /\ (all \/ req[r].recent))
        BY <1>8, <2>1, <2>3 DEF Underway, Filled, Settled, Spawning
      <3>2. PICK m, k, recent :
                m = req[r].server /\ k = req[r].snap /\ recent = req[r].recent
        BY <2>1, <3>1
      <3>3. Fits(m, k, recent)
        BY <2>1, <3>1, <3>2 DEF Dated
      <3>4. ~(m = n /\ (all \/ recent))
        BY <3>1, <3>2
      <3>5. Fits(m, k, recent)'
        BY <1>15, <2>1, <3>1, <3>2, <3>3, <3>4
      <3>6. req'[r].server = m /\ req'[r].snap = k /\ req'[r].recent = recent
        BY <3>1, <3>2
      <3> QED
        BY <3>5, <3>6 DEF Fits
    <2> QED
      BY <2>2, <2>3 DEF Dated
  <1>17. ASSUME NEW b \in pool'
         PROVE  Fits(b.key.server, b.kind, b.recent)'
    <2>1. /\ b \in BackendType /\ Fits(b.key.server, b.kind, b.recent)
          /\ ~(b.key.server = n /\ (all \/ b.recent))
      BY <1>7 DEF GatewayInv, Backends
    <2>2. b.key.server \in Server /\ b.kind \in Kind
      BY <2>1 DEF BackendType, Key
    <2> QED
      BY <1>15, <2>1, <2>2
  <1>18. Backends'
    BY <1>16, <1>17 DEF Backends
  <1> QED
    BY <1>10, <1>11, <1>12, <1>13, <1>14, <1>18 DEF GatewayInv

-----------------------------------------------------------------------------
(* The theorems *)

LEMMA InitGateway == Init => GatewayInv
  <1> SUFFICES ASSUME Init
               PROVE  GatewayInv
    OBVIOUS
  <1>1. \A r \in Req : req[r] = Unsent
    BY DEF Init
  <1>2. /\ resolver = <<>> /\ globalGen = 0 /\ pool = {} /\ entries = [n \in Server |-> None]
        /\ cur = Empty /\ step = "idle" /\ rev = None /\ prev = None /\ failed = None
        /\ added = {} /\ toEvict = {} /\ svc = [n \in Server |-> "none"]
        /\ req = [r \in Req |-> Unsent]
    BY DEF Init
  <1>3. all = FALSE
    BY DEF Init
  <1>4. resolver \in Seq(Cached) /\ Len(resolver) = 0
    BY <1>2, EmptySeq
  <1>5. MaxRes \in Nat /\ MaxGen \in Nat
    BY GatewayAssumption
  <1>6. Types
    <2>1. cur \in [Server -> Kind]
      BY <1>2 DEF Empty, Kind
    <2>2. all \in BOOLEAN
      BY <1>3
    <2>3. req \in [Req -> ReqType] /\ \A r \in Req : Filled(req[r])
      BY <1>1, <1>2, Blank
    <2> QED
      BY <1>2, <1>4, <1>5, <2>1, <2>2, <2>3 DEF Types
  <1>7. Generations
    BY <1>2, <1>4 DEF Generations
  <1>8. Credentials
    BY <1>1, <1>2, Blank DEF Credentials
  <1>9. Phases
    BY <1>2, <1>3 DEF Phases
  <1>10. Services /\ Registry
    BY <1>2 DEF Services, ServedBy, Registry, Lists, Empty
  <1>11. Backends
    BY <1>1, <1>2, Blank DEF Backends
  <1> QED
    BY <1>6, <1>7, <1>8, <1>9, <1>10, <1>11 DEF GatewayInv

LEMMA NextGateway == GatewayInv /\ [Next]_vars => GatewayInv'
  <1> SUFFICES ASSUME GatewayInv, [Next]_vars
               PROVE  GatewayInv'
    OBVIOUS
  <1>1. CASE \E r \in Req : Proxy(r)
    <2>1. PICK r \in Req : Proxy(r)
      BY <1>1
    <2> QED
      BY <2>1, ArriveKeeps, ReadCurrentKeeps, LookupKeeps, ResolveKeeps, ResolveFailsKeeps,
         GetKeeps, FactoryReadsKeeps, FactoryLooksUpKeeps, BuildKeeps, InstallKeeps DEF Proxy
  <1>2. CASE \E x \in DOMAIN resolver, u \in User : Rotate(x, u)
    BY <1>2, RotateKeeps
  <1>3. CASE \E b \in pool : Leaves(b)
    BY <1>3, LeavesKeeps
  <1>4. CASE Apply
    BY <1>4, ApplyUnchangedKeeps, ApplyBeginKeeps, PublishKeeps, UndoAddsKeeps, RollbackKeeps,
       StopStaleKeeps, AdoptKeeps, EvictDoneKeeps, PruneKeeps, AddServiceKeeps,
       AddServiceFailsKeeps, EvictKeeps DEF Apply
  <1>5. CASE UNCHANGED vars
    <2>1. /\ UNCHANGED <<cur, applyVars>> /\ UNCHANGED credVars
          /\ UNCHANGED pool /\ UNCHANGED req
      BY <1>5 DEF vars
    <2>2. Grows /\ \A n \in Server : entries'[n] = entries[n]
      BY <2>1, SameCredentials
    <2>3. req' \in [Req -> ReqType] /\ pool' \subseteq BackendType
      BY <2>1 DEF GatewayInv, Types
    <2> QED
      BY <2>1, <2>2, <2>3, Proxied
  <1> QED
    BY <1>1, <1>2, <1>3, <1>4, <1>5 DEF Next

\* The invariant that all of the following rest on.
THEOREM GatewayInvariant == Spec => []GatewayInv
  BY InitGateway, NextGateway, PTL DEF Spec

\* Types of all that the gateway puts together: each server has one of the
\* kinds, an entry names a resolver, and a backend its key and its credentials.
THEOREM GatewayTypeCorrect == Spec => []TypeOK
  <1>1. GatewayInv => TypeOK
    <2> SUFFICES ASSUME GatewayInv
                 PROVE  TypeOK
      OBVIOUS
    <2>1. Types /\ Phases
      BY DEF GatewayInv
    <2>2. rev \in Configs \cup {None} /\ prev \in [Server -> Kind] \cup {None}
      BY <2>1 DEF Types, Phases, Applying
    <2>3. \A b \in pool : b.key \in Key /\ b.mat \in Material \cup {None} /\ b.recent \in BOOLEAN
      BY <2>1, Zenon DEF Types, BackendType
    <2>4. \A r \in Req : DOMAIN req[r] = DOMAIN Unsent
      BY <2>1 DEF Types, ReqType, Unsent
    <2>5. step \in {"idle", "publish", "wire", "undo", "rollback", "adopt", "evict", "prune"}
      BY <2>1 DEF Phases
    <2> QED
      BY <2>1, <2>2, <2>3, <2>4, <2>5 DEF Types, TypeOK, Cached
  <1> QED
    BY <1>1, GatewayInvariant, PTL

\* proxy.go:127 and gateway.go:829: a backend that can be dispatched to holds
\* the credential its key names, of the key's generation, resolved for the key's
\* identity, by a per-user resolver exactly if the key has an identity, whatever
\* reload and rotation came between the proxy's resolve and the factory's.
THEOREM CredentialsAreTheKeys == Spec => []KeyedRight
  <1>1. GatewayInv => KeyedRight
    BY DEF GatewayInv, Credentials, Carries, PerUser, KeyedRight
  <1> QED
    BY <1>1, GatewayInvariant, PTL

\* gateway.go:1055: once an apply is over, a backend that can be dispatched to
\* gets its credentials the way its server is now configured to.
THEOREM ConfigDecidesCredentials == Spec => []GrainFollowsConfig
  <1>1. GatewayInv => GrainFollowsConfig
    <2> SUFFICES ASSUME GatewayInv, step = "idle", NEW b \in pool
                 PROVE  b.kind = cur[b.key.server] /\ (Current(b.key) => b.mat # None)
      BY DEF GrainFollowsConfig
    <2>1. /\ Types /\ Generations
          /\ Carries(b.kind, b.key, b.mat) /\ Fits(b.key.server, b.kind, b.recent)
      BY DEF GatewayInv, Credentials, Backends
    <2>2. b.kind = cur[b.key.server]
      BY <2>1 DEF Fits
    <2>3. ASSUME Current(b.key), b.mat = None
          PROVE  FALSE
      <3>1. Missed(cur[b.key.server], b.key)
        BY <2>1, <2>2, <2>3 DEF Carries
      <3>2. /\ Dynamic(cur[b.key.server])
            /\ lookup(b.key.server, cur[b.key.server]) \in DOMAIN resolver
            /\ b.key.ver = resolver[entries[b.key.server]].gens[Identity(b.key)]
            /\ b.key.ver # 0
        BY <2>3 DEF Current
      <3>3. DOMAIN resolver = 1..Len(resolver) /\ Len(resolver) \in Nat
        BY <2>1, LenProperties, ResolverType DEF Types
      <3>4. entries[b.key.server] # None /\ resolver[entries[b.key.server]].kind = cur[b.key.server]
        <4>1. Len(resolver) + 1 \notin DOMAIN resolver
          BY <3>3
        <4>2. None \notin DOMAIN resolver
          BY <2>1, <3>3, GatewayAssumption DEF Types
        <4> QED
          BY <3>2, <4>1, <4>2 DEF lookup
      <3> QED
        BY <3>1, <3>2, <3>4 DEF Missed
    <2> QED
      BY <2>2, <2>3
  <1> QED
    BY <1>1, GatewayInvariant, PTL

\* gateway.go:1121: once a revision has been adopted, the registry holds no
\* resolver of a server it removed, and none comes back.
THEOREM PruneLasts == Spec => []RegistryPruned
  <1>1. GatewayInv => RegistryPruned
    BY DEF GatewayInv, Registry, RegistryPruned
  <1> QED
    BY <1>1, GatewayInvariant, PTL

\* server.go:248: once an apply is over, adopted or refused, each server of the
\* live config has its service, and another's is there only if it would not stop.
THEOREM ServicesFollow == Spec => []Served
  <1>1. GatewayInv => Served
    BY DEF GatewayInv, Services, ServedBy, Served
  <1> QED
    BY <1>1, GatewayInvariant, PTL

-----------------------------------------------------------------------------
(* ConfigFeed: the source of the revisions *)

\* FeedTypeOK in two parts: the flags, and the rest.
Flags ==
    /\ polls \in BOOLEAN
    /\ booted \in [Watcher -> BOOLEAN]
    /\ trigger \in [Watcher -> BOOLEAN]
    /\ serving \in [Watcher -> BOOLEAN]
    /\ refire \in [Watcher -> BOOLEAN]
    /\ cancelled \in [Watcher -> BOOLEAN]
    /\ unread \in [Watcher -> BOOLEAN]

Values ==
    /\ kind \in {"file", "nats", "poll", "dedup"}
    /\ content \in Content \cup {Bad}
    /\ watch \in [Watcher -> {"off", "subscribe", "load", "read", "send", "idle", "closed"}]
    /\ update \in [Watcher -> Content \cup {Bad, NoContent}]
    /\ filter \in [Watcher -> Filter]
    /\ run \in [Watcher -> {"wait", "apply", "retry", "done"}]
    /\ applying \in [Watcher -> Revision]
    /\ live \in [Watcher -> Revision]
    /\ todo \in [Watcher -> SUBSET Watcher]
    /\ owed \in [Watcher -> Revision]

\* A Watch that has not booted has emitted no revision; it closes by itself
\* only then.
Booting(w) ==
    /\ watch[w] \in {"off", "subscribe"} => ~booted[w]
    /\ watch[w] = "subscribe" => kind = "nats"
    /\ watch[w] = "idle" => booted[w]
    /\ watch[w] = "read" => update[w] \in Content
    /\ watch[w] = "send" => update[w] \in Content \cup {Bad}
    /\ watch[w] = "send" /\ (update[w] # Bad \/ kind # "nats") => booted[w]
    /\ serving[w] \/ run[w] \in {"apply", "retry"} => booted[w]
    /\ watch[w] = "closed" => cancelled[w] \/ (~serving[w] /\ run[w] = "done")
    /\ serving[w] /\ run[w] = "done" => cancelled[w]

\* A trigger not yet followed by a read is in the channel, or the read comes
\* next, or the Watch is about to give up.
Reading(w) ==
    unread[w] => \/ trigger[w]
                 \/ watch[w] \in {"off", "subscribe", "load", "closed"}
                 \/ watch[w] = "send" /\ update[w] = Bad /\ kind = "nats" /\ ~booted[w]

Baseline(w) ==
    filter[w].seen =>
        /\ watch[w] # "off"
        /\ \/ watch[w] = "closed" \/ run[w] = "done" \/ cancelled[w]
           \/ IF watch[w] = "send" /\ update[w] # Bad THEN filter[w].last = update[w]
              ELSE IF run[w] = "apply" THEN filter[w].last = applying[w]
              ELSE filter[w].last = live[w] \/ (run[w] = "retry" /\ w \in todo[w])

\* What File owes a Watch that has not been cancelled: its Retry reloads.
Owing(w) ==
    /\ watch[w] = "off" => owed[w] = NoContent
    /\ watch[w] = "read" => owed[w] = update[w]
    /\ watch[w] = "send" => owed[w] \in {NoContent, update[w]}
    /\ watch[w] = "idle" /\ owed[w] # NoContent /\ ~cancelled[w] =>
        \/ trigger[w]
        \/ filter[w].seen /\ filter[w].swallowed /\ filter[w].last = owed[w]
        \/ \E v \in Watcher : refire[v]

FeedInv ==
    /\ FeedTypeOK
    /\ \A w \in Watcher : Booting(w) /\ Reading(w) /\ Baseline(w)
    /\ kind = "file" => \A w \in Watcher : Owing(w)

-----------------------------------------------------------------------------

\* ConfigFeed.FeedInit: nothing watched, nothing owed.
LEMMA InitInv == FeedInit => FeedInv
<1> SUFFICES ASSUME FeedInit PROVE FeedInv
  OBVIOUS
<1>1. FeedTypeOK
  BY DEF FeedInit, FeedTypeOK, Revision, Filter, NewFilter
<1>2. \A w \in Watcher : Booting(w) /\ Reading(w) /\ Baseline(w) /\ Owing(w)
  BY DEF FeedInit, Booting, Reading, Baseline, Owing, NewFilter
<1> QED
  BY <1>1, <1>2 DEF FeedInv

\* The source the gateway was started with is the one it runs with.
LEMMA SourceFixed == [FeedNext]_feedVars => UNCHANGED source
BY DEF source, feedVars, FeedNext, Emits, Runs, Watch, Subscribe, SubscribeErr, Load, LoadErr,
       BootTimeout, Suppress, changed, SendAborted, Triggered, Close, Tick, TakeErr, Take, ApplyOk,
       ApplyErr, retry, RetryDone, RunEnds, Cancel, Edit, Hup

\* Every step of ConfigFeed keeps its flags Boolean.
LEMMA FlagsPreserved ==
    ASSUME Flags, [FeedNext]_feedVars
    PROVE  Flags'
<1> USE ContentAssumption DEF Flags
<1> USE DEF GoesTo, RunsTo, AfterSend, Sent, Same, ReloadAll, Registered, Watching,
            source, watchVars, runVars, history
<1>1. ASSUME NEW w \in Watcher, Watch(w) PROVE Flags'
  BY <1>1 DEF Watch
<1>2. ASSUME NEW w \in Watcher, Subscribe(w) PROVE Flags'
  BY <1>2 DEF Subscribe
<1>3. ASSUME NEW w \in Watcher, SubscribeErr(w) PROVE Flags'
  BY <1>3 DEF SubscribeErr
<1>4. ASSUME NEW w \in Watcher, Load(w) PROVE Flags'
  BY <1>4 DEF Load
<1>5. ASSUME NEW w \in Watcher, LoadErr(w) PROVE Flags'
  BY <1>5 DEF LoadErr
<1>6. ASSUME NEW w \in Watcher, BootTimeout(w) PROVE Flags'
  BY <1>6 DEF BootTimeout
<1>7. ASSUME NEW w \in Watcher, Suppress(w) PROVE Flags'
  BY <1>7 DEF Suppress
<1>8. ASSUME NEW w \in Watcher, changed(w) PROVE Flags'
  BY <1>8 DEF changed
<1>9. ASSUME NEW w \in Watcher, Triggered(w) PROVE Flags'
  BY <1>9 DEF Triggered
<1>u. ASSUME NEW w \in Watcher, SendAborted(w) PROVE Flags'
  BY <1>u DEF SendAborted
<1>10. ASSUME NEW w \in Watcher, Close(w) PROVE Flags'
  BY <1>10 DEF Close
<1>11. ASSUME NEW w \in Watcher, Tick(w) PROVE Flags'
  BY <1>11 DEF Tick
<1>12. ASSUME NEW w \in Watcher, TakeErr(w) PROVE Flags'
  BY <1>12 DEF TakeErr
<1>13. ASSUME NEW w \in Watcher, Take(w) PROVE Flags'
  BY <1>13 DEF Take
<1>14. ASSUME NEW w \in Watcher, ApplyOk(w) PROVE Flags'
  BY <1>14 DEF ApplyOk
<1>15. ASSUME NEW w \in Watcher, ApplyErr(w) PROVE Flags'
  BY <1>15 DEF ApplyErr
<1>16. ASSUME NEW w \in Watcher, RetryDone(w) PROVE Flags'
  BY <1>16 DEF RetryDone
<1>17. ASSUME NEW w \in Watcher, RunEnds(w) PROVE Flags'
  BY <1>17 DEF RunEnds
<1>18. ASSUME NEW w \in Watcher, Cancel(w) PROVE Flags'
  BY <1>18 DEF Cancel
<1>19. ASSUME NEW w \in Watcher, NEW v \in Watcher, retry(w, v) PROVE Flags'
  BY <1>19 DEF retry
<1>20. ASSUME NEW c \in Content \cup {Bad}, Edit(c) PROVE Flags'
  BY <1>20 DEF Edit
<1>21. CASE Hup
  BY <1>21 DEF Hup
<1>22. CASE UNCHANGED feedVars
  BY <1>22 DEF feedVars
<1> QED
  BY <1>1, <1>2, <1>3, <1>4, <1>5, <1>6, <1>7, <1>8, <1>u, <1>9, <1>10, <1>11, <1>12,
     <1>13, <1>14, <1>15, <1>16, <1>17, <1>18, <1>19, <1>20, <1>21, <1>22 DEF FeedNext, Emits, Runs

\* Every step keeps revisions, filters and places typed.
LEMMA ValuesPreserved ==
    ASSUME Flags, Values, \A w \in Watcher : Booting(w), [FeedNext]_feedVars
    PROVE  Values'
<1> USE ContentAssumption DEF Values, Filter, Revision, Booting
<1> USE DEF GoesTo, RunsTo, AfterSend, Sent, Same, ReloadAll, Registered, Watching,
            source, watchVars, runVars, history
<1>1. ASSUME NEW w \in Watcher, Watch(w) PROVE Values'
  BY <1>1 DEF Watch
<1>2. ASSUME NEW w \in Watcher, Subscribe(w) PROVE Values'
  BY <1>2 DEF Subscribe
<1>3. ASSUME NEW w \in Watcher, SubscribeErr(w) PROVE Values'
  BY <1>3 DEF SubscribeErr
<1>4. ASSUME NEW w \in Watcher, Load(w) PROVE Values'
  BY <1>4 DEF Load
<1>5. ASSUME NEW w \in Watcher, LoadErr(w) PROVE Values'
  BY <1>5 DEF LoadErr
<1>6. ASSUME NEW w \in Watcher, BootTimeout(w) PROVE Values'
  BY <1>6 DEF BootTimeout
<1>7. ASSUME NEW w \in Watcher, Suppress(w) PROVE Values'
  BY <1>7 DEF Suppress
<1>8. ASSUME NEW w \in Watcher, changed(w) PROVE Values'
  BY <1>8 DEF changed
<1>9. ASSUME NEW w \in Watcher, Triggered(w) PROVE Values'
  BY <1>9 DEF Triggered
<1>u. ASSUME NEW w \in Watcher, SendAborted(w) PROVE Values'
  BY <1>u DEF SendAborted
<1>10. ASSUME NEW w \in Watcher, Close(w) PROVE Values'
  BY <1>10 DEF Close
<1>11. ASSUME NEW w \in Watcher, Tick(w) PROVE Values'
  BY <1>11 DEF Tick
<1>12. ASSUME NEW w \in Watcher, TakeErr(w) PROVE Values'
  BY <1>12 DEF TakeErr
<1>13. ASSUME NEW w \in Watcher, Take(w) PROVE Values'
  BY <1>13 DEF Take
<1>14. ASSUME NEW w \in Watcher, ApplyOk(w) PROVE Values'
  BY <1>14 DEF ApplyOk
<1>15. ASSUME NEW w \in Watcher, ApplyErr(w) PROVE Values'
  BY <1>15 DEF ApplyErr
<1>16. ASSUME NEW w \in Watcher, RetryDone(w) PROVE Values'
  BY <1>16 DEF RetryDone
<1>17. ASSUME NEW w \in Watcher, RunEnds(w) PROVE Values'
  BY <1>17 DEF RunEnds
<1>18. ASSUME NEW w \in Watcher, Cancel(w) PROVE Values'
  BY <1>18 DEF Cancel
<1>19. ASSUME NEW w \in Watcher, NEW v \in Watcher, retry(w, v) PROVE Values'
  BY <1>19 DEF retry
<1>20. ASSUME NEW c \in Content \cup {Bad}, Edit(c) PROVE Values'
  BY <1>20 DEF Edit
<1>21. CASE Hup
  BY <1>21 DEF Hup
<1>22. CASE UNCHANGED feedVars
  BY <1>22 DEF feedVars
<1> QED
  BY <1>1, <1>2, <1>3, <1>4, <1>5, <1>6, <1>7, <1>8, <1>u, <1>9, <1>10, <1>11, <1>12,
     <1>13, <1>14, <1>15, <1>16, <1>17, <1>18, <1>19, <1>20, <1>21, <1>22 DEF FeedNext, Emits, Runs

\* Every step keeps a Watch that gave up apart from one that serves.
LEMMA BootingPreserved ==
    ASSUME FeedTypeOK, \A w \in Watcher : Booting(w), [FeedNext]_feedVars
    PROVE  \A u \in Watcher : Booting(u)'
<1> USE ContentAssumption DEF FeedTypeOK, Booting
<1> USE DEF GoesTo, RunsTo, AfterSend, Sent, Same, ReloadAll, Registered, Watching,
            source, watchVars, runVars, history
<1>1. ASSUME NEW w \in Watcher, Watch(w) PROVE \A u \in Watcher : Booting(u)'
  BY <1>1 DEF Watch
<1>2. ASSUME NEW w \in Watcher, Subscribe(w) PROVE \A u \in Watcher : Booting(u)'
  BY <1>2 DEF Subscribe
<1>3. ASSUME NEW w \in Watcher, SubscribeErr(w) PROVE \A u \in Watcher : Booting(u)'
  BY <1>3 DEF SubscribeErr
<1>4. ASSUME NEW w \in Watcher, Load(w) PROVE \A u \in Watcher : Booting(u)'
  BY <1>4 DEF Load
<1>5. ASSUME NEW w \in Watcher, LoadErr(w) PROVE \A u \in Watcher : Booting(u)'
  BY <1>5 DEF LoadErr
<1>6. ASSUME NEW w \in Watcher, BootTimeout(w) PROVE \A u \in Watcher : Booting(u)'
  BY <1>6 DEF BootTimeout
<1>7. ASSUME NEW w \in Watcher, Suppress(w) PROVE \A u \in Watcher : Booting(u)'
  BY <1>7 DEF Suppress
<1>8. ASSUME NEW w \in Watcher, changed(w) PROVE \A u \in Watcher : Booting(u)'
  BY <1>8 DEF changed
<1>9. ASSUME NEW w \in Watcher, Triggered(w) PROVE \A u \in Watcher : Booting(u)'
  BY <1>9 DEF Triggered
<1>u. ASSUME NEW w \in Watcher, SendAborted(w) PROVE \A u \in Watcher : Booting(u)'
  BY <1>u DEF SendAborted
<1>10. ASSUME NEW w \in Watcher, Close(w) PROVE \A u \in Watcher : Booting(u)'
  BY <1>10 DEF Close
<1>11. ASSUME NEW w \in Watcher, Tick(w) PROVE \A u \in Watcher : Booting(u)'
  BY <1>11 DEF Tick
<1>12. ASSUME NEW w \in Watcher, TakeErr(w) PROVE \A u \in Watcher : Booting(u)'
  BY <1>12 DEF TakeErr
<1>13. ASSUME NEW w \in Watcher, Take(w) PROVE \A u \in Watcher : Booting(u)'
  BY <1>13 DEF Take
<1>14. ASSUME NEW w \in Watcher, ApplyOk(w) PROVE \A u \in Watcher : Booting(u)'
  BY <1>14 DEF ApplyOk
<1>15. ASSUME NEW w \in Watcher, ApplyErr(w) PROVE \A u \in Watcher : Booting(u)'
  BY <1>15 DEF ApplyErr
<1>16. ASSUME NEW w \in Watcher, RetryDone(w) PROVE \A u \in Watcher : Booting(u)'
  BY <1>16 DEF RetryDone
<1>17. ASSUME NEW w \in Watcher, RunEnds(w) PROVE \A u \in Watcher : Booting(u)'
  BY <1>17 DEF RunEnds
<1>18. ASSUME NEW w \in Watcher, Cancel(w) PROVE \A u \in Watcher : Booting(u)'
  BY <1>18 DEF Cancel
<1>19. ASSUME NEW w \in Watcher, NEW v \in Watcher, retry(w, v) PROVE \A u \in Watcher : Booting(u)'
  BY <1>19 DEF retry
<1>20. ASSUME NEW c \in Content \cup {Bad}, Edit(c) PROVE \A u \in Watcher : Booting(u)'
  BY <1>20 DEF Edit
<1>21. CASE Hup
  BY <1>21 DEF Hup
<1>22. CASE UNCHANGED feedVars
  BY <1>22 DEF feedVars
<1> QED
  BY <1>1, <1>2, <1>3, <1>4, <1>5, <1>6, <1>7, <1>8, <1>u, <1>9, <1>10, <1>11, <1>12,
     <1>13, <1>14, <1>15, <1>16, <1>17, <1>18, <1>19, <1>20, <1>21, <1>22 DEF FeedNext, Emits, Runs

\* No step loses a trigger.
LEMMA ReadingPreserved ==
    ASSUME FeedTypeOK, \A w \in Watcher : Booting(w),
           \A w \in Watcher : Reading(w), [FeedNext]_feedVars
    PROVE  \A u \in Watcher : Reading(u)'
<1> USE ContentAssumption DEF FeedTypeOK, Booting, Reading
<1> USE DEF GoesTo, RunsTo, AfterSend, Sent, Same, ReloadAll, Registered, Watching,
            source, watchVars, runVars, history
<1>1. ASSUME NEW w \in Watcher, Watch(w) PROVE \A u \in Watcher : Reading(u)'
  BY <1>1 DEF Watch
<1>2. ASSUME NEW w \in Watcher, Subscribe(w) PROVE \A u \in Watcher : Reading(u)'
  BY <1>2 DEF Subscribe
<1>3. ASSUME NEW w \in Watcher, SubscribeErr(w) PROVE \A u \in Watcher : Reading(u)'
  BY <1>3 DEF SubscribeErr
<1>4. ASSUME NEW w \in Watcher, Load(w) PROVE \A u \in Watcher : Reading(u)'
  BY <1>4 DEF Load
<1>5. ASSUME NEW w \in Watcher, LoadErr(w) PROVE \A u \in Watcher : Reading(u)'
  BY <1>5 DEF LoadErr
<1>6. ASSUME NEW w \in Watcher, BootTimeout(w) PROVE \A u \in Watcher : Reading(u)'
  BY <1>6 DEF BootTimeout
<1>7. ASSUME NEW w \in Watcher, Suppress(w) PROVE \A u \in Watcher : Reading(u)'
  BY <1>7 DEF Suppress
<1>8. ASSUME NEW w \in Watcher, changed(w) PROVE \A u \in Watcher : Reading(u)'
  BY <1>8 DEF changed
<1>9. ASSUME NEW w \in Watcher, Triggered(w) PROVE \A u \in Watcher : Reading(u)'
  BY <1>9 DEF Triggered
<1>u. ASSUME NEW w \in Watcher, SendAborted(w) PROVE \A u \in Watcher : Reading(u)'
  BY <1>u DEF SendAborted
<1>10. ASSUME NEW w \in Watcher, Close(w) PROVE \A u \in Watcher : Reading(u)'
  BY <1>10 DEF Close
<1>11. ASSUME NEW w \in Watcher, Tick(w) PROVE \A u \in Watcher : Reading(u)'
  BY <1>11 DEF Tick
<1>12. ASSUME NEW w \in Watcher, TakeErr(w) PROVE \A u \in Watcher : Reading(u)'
  BY <1>12 DEF TakeErr
<1>13. ASSUME NEW w \in Watcher, Take(w) PROVE \A u \in Watcher : Reading(u)'
  BY <1>13 DEF Take
<1>14. ASSUME NEW w \in Watcher, ApplyOk(w) PROVE \A u \in Watcher : Reading(u)'
  BY <1>14 DEF ApplyOk
<1>15. ASSUME NEW w \in Watcher, ApplyErr(w) PROVE \A u \in Watcher : Reading(u)'
  BY <1>15 DEF ApplyErr
<1>16. ASSUME NEW w \in Watcher, RetryDone(w) PROVE \A u \in Watcher : Reading(u)'
  BY <1>16 DEF RetryDone
<1>17. ASSUME NEW w \in Watcher, RunEnds(w) PROVE \A u \in Watcher : Reading(u)'
  BY <1>17 DEF RunEnds
<1>18. ASSUME NEW w \in Watcher, Cancel(w) PROVE \A u \in Watcher : Reading(u)'
  BY <1>18 DEF Cancel
<1>19. ASSUME NEW w \in Watcher, NEW v \in Watcher, retry(w, v) PROVE \A u \in Watcher : Reading(u)'
  BY <1>19 DEF retry
<1>20. ASSUME NEW c \in Content \cup {Bad}, Edit(c) PROVE \A u \in Watcher : Reading(u)'
  BY <1>20 DEF Edit
<1>21. CASE Hup
  BY <1>21 DEF Hup
<1>22. CASE UNCHANGED feedVars
  BY <1>22 DEF feedVars
<1> QED
  BY <1>1, <1>2, <1>3, <1>4, <1>5, <1>6, <1>7, <1>8, <1>u, <1>9, <1>10, <1>11, <1>12,
     <1>13, <1>14, <1>15, <1>16, <1>17, <1>18, <1>19, <1>20, <1>21, <1>22 DEF FeedNext, Emits, Runs

\* Every step keeps a baseline on its way, in an apply, about to be cleared or live.
LEMMA BaselinePreserved ==
    ASSUME FeedTypeOK, \A w \in Watcher : Booting(w),
           \A w \in Watcher : Baseline(w), [FeedNext]_feedVars
    PROVE  \A u \in Watcher : Baseline(u)'
<1> USE ContentAssumption DEF FeedTypeOK, Booting, Baseline, Filter, Revision
<1> USE DEF GoesTo, RunsTo, AfterSend, Sent, Same, ReloadAll, Registered, Watching,
            source, watchVars, runVars, history
<1>1. ASSUME NEW w \in Watcher, Watch(w) PROVE \A u \in Watcher : Baseline(u)'
  BY <1>1 DEF Watch
<1>2. ASSUME NEW w \in Watcher, Subscribe(w) PROVE \A u \in Watcher : Baseline(u)'
  BY <1>2 DEF Subscribe
<1>3. ASSUME NEW w \in Watcher, SubscribeErr(w) PROVE \A u \in Watcher : Baseline(u)'
  BY <1>3 DEF SubscribeErr
<1>4. ASSUME NEW w \in Watcher, Load(w) PROVE \A u \in Watcher : Baseline(u)'
  BY <1>4 DEF Load
<1>5. ASSUME NEW w \in Watcher, LoadErr(w) PROVE \A u \in Watcher : Baseline(u)'
  BY <1>5 DEF LoadErr
<1>6. ASSUME NEW w \in Watcher, BootTimeout(w) PROVE \A u \in Watcher : Baseline(u)'
  BY <1>6 DEF BootTimeout
<1>7. ASSUME NEW w \in Watcher, Suppress(w) PROVE \A u \in Watcher : Baseline(u)'
  BY <1>7 DEF Suppress
<1>8. ASSUME NEW w \in Watcher, changed(w) PROVE \A u \in Watcher : Baseline(u)'
  BY <1>8 DEF changed
<1>9. ASSUME NEW w \in Watcher, Triggered(w) PROVE \A u \in Watcher : Baseline(u)'
  BY <1>9 DEF Triggered
<1>u. ASSUME NEW w \in Watcher, SendAborted(w) PROVE \A u \in Watcher : Baseline(u)'
  BY <1>u DEF SendAborted
<1>10. ASSUME NEW w \in Watcher, Close(w) PROVE \A u \in Watcher : Baseline(u)'
  BY <1>10 DEF Close
<1>11. ASSUME NEW w \in Watcher, Tick(w) PROVE \A u \in Watcher : Baseline(u)'
  BY <1>11 DEF Tick
<1>12. ASSUME NEW w \in Watcher, TakeErr(w) PROVE \A u \in Watcher : Baseline(u)'
  BY <1>12 DEF TakeErr
<1>13. ASSUME NEW w \in Watcher, Take(w) PROVE \A u \in Watcher : Baseline(u)'
  BY <1>13 DEF Take
<1>14. ASSUME NEW w \in Watcher, ApplyOk(w) PROVE \A u \in Watcher : Baseline(u)'
  BY <1>14 DEF ApplyOk
<1>15. ASSUME NEW w \in Watcher, ApplyErr(w) PROVE \A u \in Watcher : Baseline(u)'
  BY <1>15 DEF ApplyErr
<1>16. ASSUME NEW w \in Watcher, RetryDone(w) PROVE \A u \in Watcher : Baseline(u)'
  BY <1>16 DEF RetryDone
<1>17. ASSUME NEW w \in Watcher, RunEnds(w) PROVE \A u \in Watcher : Baseline(u)'
  BY <1>17 DEF RunEnds
<1>18. ASSUME NEW w \in Watcher, Cancel(w) PROVE \A u \in Watcher : Baseline(u)'
  BY <1>18 DEF Cancel
<1>19. ASSUME NEW w \in Watcher, NEW v \in Watcher, retry(w, v) PROVE \A u \in Watcher : Baseline(u)'
  BY <1>19 DEF retry
<1>20. ASSUME NEW c \in Content \cup {Bad}, Edit(c) PROVE \A u \in Watcher : Baseline(u)'
  BY <1>20 DEF Edit
<1>21. CASE Hup
  BY <1>21 DEF Hup
<1>22. CASE UNCHANGED feedVars
  BY <1>22 DEF feedVars
<1> QED
  BY <1>1, <1>2, <1>3, <1>4, <1>5, <1>6, <1>7, <1>8, <1>u, <1>9, <1>10, <1>11, <1>12,
     <1>13, <1>14, <1>15, <1>16, <1>17, <1>18, <1>19, <1>20, <1>21, <1>22 DEF FeedNext, Emits, Runs

\* Every step of a File keeps what it owes recorded or a reload on its way.
LEMMA OwingPreserved ==
    ASSUME kind = "file", FeedTypeOK, \A w \in Watcher : Booting(w),
           \A w \in Watcher : Owing(w), [FeedNext]_feedVars
    PROVE  \A u \in Watcher : Owing(u)'
<1> USE ContentAssumption DEF FeedTypeOK, Booting, Owing, Filter, Revision
<1> USE DEF GoesTo, RunsTo, AfterSend, Sent, Same, ReloadAll, Registered, Watching,
            source, watchVars, runVars, history
<1>1. ASSUME NEW w \in Watcher, Watch(w) PROVE \A u \in Watcher : Owing(u)'
  BY <1>1 DEF Watch
<1>2. ASSUME NEW w \in Watcher, Subscribe(w) PROVE \A u \in Watcher : Owing(u)'
  BY <1>2 DEF Subscribe
<1>3. ASSUME NEW w \in Watcher, SubscribeErr(w) PROVE \A u \in Watcher : Owing(u)'
  BY <1>3 DEF SubscribeErr
<1>4. ASSUME NEW w \in Watcher, Load(w) PROVE \A u \in Watcher : Owing(u)'
  BY <1>4 DEF Load
<1>5. ASSUME NEW w \in Watcher, LoadErr(w) PROVE \A u \in Watcher : Owing(u)'
  BY <1>5 DEF LoadErr
<1>6. ASSUME NEW w \in Watcher, BootTimeout(w) PROVE \A u \in Watcher : Owing(u)'
  BY <1>6 DEF BootTimeout
<1>7. ASSUME NEW w \in Watcher, Suppress(w) PROVE \A u \in Watcher : Owing(u)'
  BY <1>7 DEF Suppress
<1>8. ASSUME NEW w \in Watcher, changed(w) PROVE \A u \in Watcher : Owing(u)'
  BY <1>8 DEF changed
<1>9. ASSUME NEW w \in Watcher, Triggered(w) PROVE \A u \in Watcher : Owing(u)'
  BY <1>9 DEF Triggered
<1>u. ASSUME NEW w \in Watcher, SendAborted(w) PROVE \A u \in Watcher : Owing(u)'
  BY <1>u DEF SendAborted
<1>10. ASSUME NEW w \in Watcher, Close(w) PROVE \A u \in Watcher : Owing(u)'
  BY <1>10 DEF Close
<1>11. ASSUME NEW w \in Watcher, Tick(w) PROVE \A u \in Watcher : Owing(u)'
  BY <1>11 DEF Tick
<1>12. ASSUME NEW w \in Watcher, TakeErr(w) PROVE \A u \in Watcher : Owing(u)'
  BY <1>12 DEF TakeErr
<1>13. ASSUME NEW w \in Watcher, Take(w) PROVE \A u \in Watcher : Owing(u)'
  BY <1>13 DEF Take
<1>14. ASSUME NEW w \in Watcher, ApplyOk(w) PROVE \A u \in Watcher : Owing(u)'
  BY <1>14 DEF ApplyOk
<1>15. ASSUME NEW w \in Watcher, ApplyErr(w) PROVE \A u \in Watcher : Owing(u)'
  BY <1>15 DEF ApplyErr
<1>16. ASSUME NEW w \in Watcher, RetryDone(w) PROVE \A u \in Watcher : Owing(u)'
  BY <1>16 DEF RetryDone
<1>17. ASSUME NEW w \in Watcher, RunEnds(w) PROVE \A u \in Watcher : Owing(u)'
  BY <1>17 DEF RunEnds
<1>18. ASSUME NEW w \in Watcher, Cancel(w) PROVE \A u \in Watcher : Owing(u)'
  BY <1>18 DEF Cancel
<1>19. ASSUME NEW w \in Watcher, NEW v \in Watcher, retry(w, v) PROVE \A u \in Watcher : Owing(u)'
  BY <1>19 DEF retry
<1>20. ASSUME NEW c \in Content \cup {Bad}, Edit(c) PROVE \A u \in Watcher : Owing(u)'
  BY <1>20 DEF Edit
<1>21. CASE Hup
  BY <1>21 DEF Hup
<1>22. CASE UNCHANGED feedVars
  BY <1>22 DEF feedVars
<1> QED
  BY <1>1, <1>2, <1>3, <1>4, <1>5, <1>6, <1>7, <1>8, <1>u, <1>9, <1>10, <1>11, <1>12,
     <1>13, <1>14, <1>15, <1>16, <1>17, <1>18, <1>19, <1>20, <1>21, <1>22 DEF FeedNext, Emits, Runs

-----------------------------------------------------------------------------

\* The inductive invariant holds in every reachable state.
THEOREM FeedInvariant == FeedSpec => []FeedInv
<1>1. FeedInv /\ [FeedNext]_feedVars => FeedInv'
  <2> SUFFICES ASSUME FeedInv, [FeedNext]_feedVars PROVE FeedInv'
    OBVIOUS
  <2>1. Flags /\ Values
    BY DEF FeedInv, FeedTypeOK, Flags, Values
  <2>2. FeedTypeOK /\ \A w \in Watcher : Booting(w) /\ Reading(w) /\ Baseline(w)
    BY DEF FeedInv
  <2>3. Flags' /\ Values'
    BY <2>1, <2>2, FlagsPreserved, ValuesPreserved
  <2>4. FeedTypeOK'
    BY <2>3 DEF FeedTypeOK, Flags, Values
  <2>5. \A u \in Watcher : Booting(u)' /\ Reading(u)' /\ Baseline(u)'
    BY <2>2, BootingPreserved, ReadingPreserved, BaselinePreserved
  <2>6. kind' = "file" => \A u \in Watcher : Owing(u)'
    BY <2>2, OwingPreserved, SourceFixed DEF FeedInv, source
  <2> QED
    BY <2>4, <2>5, <2>6 DEF FeedInv
<1> QED
  BY InitInv, <1>1, PTL DEF FeedSpec

\* ConfigFeed's state stays typed.
THEOREM FeedTypeCorrect == FeedSpec => []FeedTypeOK
<1>1. FeedInv => FeedTypeOK
  BY DEF FeedInv
<1> QED
  BY FeedInvariant, <1>1, PTL

\* file.go:91: with SIGHUP as its only trigger, File never lets one be eaten by
\* an apply that is failing, however many Watches share the file.
THEOREM HupsAreHonoured == FeedSpec => []TriggerHonoured
<1>1. FeedInv => TriggerHonoured
  <2> SUFFICES ASSUME FeedInv, NEW w \in Watcher, Rests(w), owed[w] # NoContent,
                      kind = "file", \A v \in Watcher : ~refire[v]
               PROVE  owed[w] = live[w]
    BY DEF TriggerHonoured
  <2>1. filter[w].seen /\ filter[w].last = owed[w]
    BY DEF FeedInv, Owing, Rests
  <2> QED
    BY <2>1 DEF FeedInv, Baseline, Rests
<1> QED
  BY FeedInvariant, <1>1, PTL

\* file.go:69 and nats.go:137: a trigger that comes once Watch has been called
\* is followed by a read.
THEOREM TriggersAreRead == FeedSpec => []EveryTriggerRead
<1>1. FeedInv => EveryTriggerRead
  BY DEF FeedInv, Reading, EveryTriggerRead
<1> QED
  BY FeedInvariant, <1>1, PTL

\* run.go:28: once serving, only the context ends Run.
THEOREM ServiceSurvives == FeedSpec => []ServingSurvives
<1>1. FeedInv => ServingSurvives
  BY DEF FeedInv, Booting, ServingSurvives
<1> QED
  BY FeedInvariant, <1>1, PTL
=============================================================================
