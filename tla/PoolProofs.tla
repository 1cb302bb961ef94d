----------------------------- MODULE PoolProofs -----------------------------
(***************************************************************************)
(* Safety of the pool, for every set of keys, callers and spawns and every *)
(* bound.  The invariants of Pool are not inductive by themselves: Refs    *)
(* adds what every reference in the state (a caller to its spawn and to    *)
(* its entry, the maps to theirs) may point at.  With Refs the cap is      *)
(* inductive too: an entry changes sides, from a reservation to the map or *)
(* from the map to the orphans, without being counted twice.               *)
(*                                                                         *)
(* The last part is about Reload: what a backend was built from, against   *)
(* what is live, in each phase of an apply.                                *)
(***************************************************************************)
EXTENDS Reload, FiniteSetTheorems, TLAPS

\* A caller in one of these states has settled on an entry.
Settled == {"spawned", "sem", "slot", "leaving", "backout", "running", "released"}

\* Where a spawn is once its installing section, or its failure, is behind it.
Ended == {"unmap", "signal", "done"}

\* What the caller record r may refer to.
CallerRef(r) ==
    /\ r.pc # "idle" => r.key \in Keys
    /\ r.pc = "spawn" => /\ r.sp \in Id
                         /\ spawn[r.sp].pc # "free"
                         /\ spawn[r.sp].key = r.key
    /\ r.pc \in Settled => /\ r.e \in Id
                           /\ spawn[r.e].pc \in Ended
                           /\ spawn[r.e].key = r.key
                           /\ spawn[r.e].e = r.e
    /\ r.pc \notin Settled => r.e = None

CallerRefs == \A c \in Caller : CallerRef(caller[c])

\* An installed entry is its own spawn's, kept under its own key.
Installed(i) == spawn[i].pc \in Ended /\ spawn[i].e = i

PoolRefs ==
    /\ \A k \in Keys : entries[k] # None =>
          Installed(entries[k]) /\ spawn[entries[k]].key = k
    /\ \A i \in orphans : Installed(i)
    /\ \A k \in Keys : spawning[k] # None =>
          /\ spawn[spawning[k]].key = k
          /\ spawn[spawning[k]].pc \in Reserving \cup {"unmap"}

SpawnRefs ==
    \A i \in Id :
        /\ spawn[i].pc # "free" => spawn[i].key \in Keys
        /\ spawn[i].pc \in Reserving \cup {"unmap"} => spawning[spawn[i].key] = i
        /\ spawn[i].pc \in Reserving => entries[spawn[i].key] = None
        /\ spawn[i].pc \in {"failed", "unreserve"} => spawn[i].err # "none"
        /\ spawn[i].pc \in Ended /\ spawn[i].err = "none" => spawn[i].e = i
        /\ spawn[i].e \in {None, i}
        /\ spawn[i].e = i => spawn[i].pc \in Ended

ConnRefs ==
    \A i \in Id :
        /\ spawn[i].pc = "install" => conn[i] = "live"
        /\ conn[i] = "live" => spawn[i].pc = "install" \/ i \in Pooled

Refs == CallerRefs /\ PoolRefs /\ SpawnRefs /\ ConnRefs

IInv == TypeOK /\ Refs /\ CountersExact

-----------------------------------------------------------------------------
(* Counting callers *)

\* What one caller contributes to each counter of entry i.
WaitsOn(r, i) == IF r.e = i /\ r.pc \in {"sem", "slot", "leaving"} THEN 1 ELSE 0
RunsOn(r, i) == IF r.e = i /\ r.pc \in {"running", "released"} THEN 1 ELSE 0
HoldsOn(r, i) == IF r.e = i /\ r.pc \in {"slot", "backout", "running"} THEN 1 ELSE 0

\* Adding an element to, or removing one from, a finite set changes its
\* cardinality by whether the element was there.
LEMMA MemberCount ==
    ASSUME NEW S, IsFiniteSet(S), NEW T, NEW x,
           \A y : y # x => (y \in S <=> y \in T)
    PROVE  /\ IsFiniteSet(T)
           /\ Cardinality(S) \in Nat
           /\ Cardinality(T) = Cardinality(S) + (IF x \in T THEN 1 ELSE 0)
                                             - (IF x \in S THEN 1 ELSE 0)
<1>0. Cardinality(S) \in Nat
  BY FS_CardinalityType
<1>1. CASE x \in T
  <2>1. T = S \cup {x}
    BY <1>1
  <2>2. /\ IsFiniteSet(S \cup {x})
        /\ Cardinality(S \cup {x}) = IF x \in S THEN Cardinality(S) ELSE Cardinality(S) + 1
    BY FS_AddElement
  <2>3. IsFiniteSet(T) /\ Cardinality(T) = IF x \in S THEN Cardinality(S) ELSE Cardinality(S) + 1
    BY <2>1, <2>2
  <2>4. QED
    BY <1>0, <1>1, <2>3
<1>2. CASE x \notin T
  <2>1. T = S \ {x}
    BY <1>2
  <2>2. /\ IsFiniteSet(S \ {x})
        /\ Cardinality(S \ {x}) = IF x \in S THEN Cardinality(S) - 1 ELSE Cardinality(S)
    BY FS_RemoveElement
  <2>3. IsFiniteSet(T) /\ Cardinality(T) = IF x \in S THEN Cardinality(S) - 1 ELSE Cardinality(S)
    BY <2>1, <2>2
  <2>4. QED
    BY <1>0, <1>2, <2>3
<1>3. QED
  BY <1>1, <1>2

\* A step of one caller moves each entry's three sets by that caller alone.
LEMMA OneCallerMoves ==
    ASSUME TypeOK, NEW c \in Caller, NEW r, caller' = [caller EXCEPT ![c] = r],
           NEW i \in Id
    PROVE  /\ Cardinality(Waiting(i))' =
                Cardinality(Waiting(i)) + WaitsOn(r, i) - WaitsOn(caller[c], i)
           /\ Cardinality(InFlight(i))' =
                Cardinality(InFlight(i)) + RunsOn(r, i) - RunsOn(caller[c], i)
           /\ Cardinality(Holding(i))' =
                Cardinality(Holding(i)) + HoldsOn(r, i) - HoldsOn(caller[c], i)
           /\ Cardinality(Waiting(i)) \in Nat
           /\ Cardinality(InFlight(i)) \in Nat
           /\ Cardinality(Holding(i)) \in Nat
<1>0. \A d \in Caller : caller'[d] = IF d = c THEN r ELSE caller[d]
  BY DEF TypeOK
<1>f. IsFiniteSet(Waiting(i)) /\ IsFiniteSet(InFlight(i)) /\ IsFiniteSet(Holding(i))
  BY FiniteAssumption, FS_Subset DEF Waiting, InFlight, Holding
<1>1. /\ Cardinality(Waiting(i))' =
           Cardinality(Waiting(i)) + WaitsOn(r, i) - WaitsOn(caller[c], i)
      /\ Cardinality(Waiting(i)) \in Nat
  <2>1. \A d : d # c => (d \in Waiting(i) <=> d \in Waiting(i)')
    BY <1>0 DEF Waiting
  <2>2. c \in Waiting(i)' <=> (r.e = i /\ r.pc \in {"sem", "slot", "leaving"})
    BY <1>0 DEF Waiting
  <2>3. c \in Waiting(i) <=> (caller[c].e = i /\ caller[c].pc \in {"sem", "slot", "leaving"})
    BY DEF Waiting
  <2>4. QED
    BY <1>f, <2>1, <2>2, <2>3, MemberCount DEF WaitsOn
<1>2. /\ Cardinality(InFlight(i))' =
           Cardinality(InFlight(i)) + RunsOn(r, i) - RunsOn(caller[c], i)
      /\ Cardinality(InFlight(i)) \in Nat
  <2>1. \A d : d # c => (d \in InFlight(i) <=> d \in InFlight(i)')
    BY <1>0 DEF InFlight
  <2>2. c \in InFlight(i)' <=> (r.e = i /\ r.pc \in {"running", "released"})
    BY <1>0 DEF InFlight
  <2>3. c \in InFlight(i) <=> (caller[c].e = i /\ caller[c].pc \in {"running", "released"})
    BY DEF InFlight
  <2>4. QED
    BY <1>f, <2>1, <2>2, <2>3, MemberCount DEF RunsOn
<1>3. /\ Cardinality(Holding(i))' =
           Cardinality(Holding(i)) + HoldsOn(r, i) - HoldsOn(caller[c], i)
      /\ Cardinality(Holding(i)) \in Nat
  <2>1. \A d : d # c => (d \in Holding(i) <=> d \in Holding(i)')
    BY <1>0 DEF Holding
  <2>2. c \in Holding(i)' <=> (r.e = i /\ r.pc \in {"slot", "backout", "running"})
    BY <1>0 DEF Holding
  <2>3. c \in Holding(i) <=> (caller[c].e = i /\ caller[c].pc \in {"slot", "backout", "running"})
    BY DEF Holding
  <2>4. QED
    BY <1>f, <2>1, <2>2, <2>3, MemberCount DEF HoldsOn
<1>4. QED
  BY <1>1, <1>2, <1>3

\* Steps that leave the callers and the counters alone keep CountersExact.
LEMMA CountersFrame ==
    ASSUME CountersExact, UNCHANGED <<entry, caller>>
    PROVE  CountersExact'
<1>1. \A i \in Id : Waiting(i)' = Waiting(i) /\ InFlight(i)' = InFlight(i) /\ Holding(i)' = Holding(i)
  BY DEF Waiting, InFlight, Holding
<1>2. QED
  BY <1>1 DEF CountersExact

-----------------------------------------------------------------------------
(* Types *)

\* Entries before their counters are known not to be negative.
EntryRaw == [inflight : Int, waiters : Int, slots : Int, expired : BOOLEAN, idle : BOOLEAN]

\* The initial records have their types, and count nothing.
LEMMA BlankTypes ==
    /\ BlankSpawn \in SpawnType /\ BlankEntry \in EntryType /\ IdleCaller \in CallerType
    /\ IdleCaller.pc = "idle" /\ IdleCaller.e = None /\ IdleCaller.sp = None
    /\ BlankEntry.waiters = 0 /\ BlankEntry.inflight = 0 /\ BlankEntry.slots = 0
BY DEF BlankSpawn, BlankEntry, IdleCaller, SpawnType, EntryType, CallerType, SpawnPC, SpawnErr, CallerPC

\* What the actions write to an entry is an entry record.
LEMMA EntryFields ==
    ASSUME NEW r \in EntryType, NEW f \in Int, NEW w \in Int, NEW s \in Int, NEW b \in BOOLEAN
    PROVE  /\ [r EXCEPT !.slots = s] \in EntryRaw
           /\ [r EXCEPT !.waiters = w] \in EntryRaw
           /\ [r EXCEPT !.idle = b, !.waiters = w] \in EntryRaw
           /\ [r EXCEPT !.inflight = f, !.idle = b] \in EntryRaw
           /\ [r EXCEPT !.waiters = w, !.inflight = f] \in EntryRaw
           /\ r \in EntryRaw
<1>1. r \in EntryRaw
  BY DEF EntryType, EntryRaw
<1>2. QED
  BY <1>1, Zenon DEF EntryRaw

\* Updating one entry to r.
LEMMA EntryUpdate ==
    ASSUME TypeOK, NEW i \in Id, NEW r \in EntryRaw, entry' = [entry EXCEPT ![i] = r]
    PROVE  /\ entry' \in [Id -> EntryRaw]
           /\ entry'[i] = r
           /\ \A j \in Id \ {i} : entry'[j] = entry[j]
<1>1. entry \in [Id -> EntryType]
  BY DEF TypeOK
<1>2. EntryType \subseteq EntryRaw
  BY DEF EntryType, EntryRaw
<1>3. QED
  BY <1>1, <1>2

-----------------------------------------------------------------------------
(* Steps of one caller *)

\* The counters follow the caller: everything CountersExact needs, and with
\* it that no counter goes below zero.
LEMMA MoveCounters ==
    ASSUME TypeOK, CountersExact,
           NEW c \in Caller, NEW r \in CallerType, caller' = [caller EXCEPT ![c] = r],
           entry' \in [Id -> EntryRaw],
           \A i \in Id :
               /\ entry'[i].waiters = entry[i].waiters + WaitsOn(r, i) - WaitsOn(caller[c], i)
               /\ entry'[i].inflight = entry[i].inflight + RunsOn(r, i) - RunsOn(caller[c], i)
               /\ entry'[i].slots = entry[i].slots + HoldsOn(r, i) - HoldsOn(caller[c], i)
               /\ entry'[i].slots <= MaxConcurrent
    PROVE  /\ CountersExact'
           /\ entry' \in [Id -> EntryType]
           /\ caller' \in [Caller -> CallerType]
<1>1. ASSUME NEW i \in Id
      PROVE  /\ entry'[i].waiters = Cardinality(Waiting(i))'
             /\ entry'[i].inflight = Cardinality(InFlight(i))'
             /\ entry'[i].slots = Cardinality(Holding(i))'
  <2>1. /\ Cardinality(Waiting(i))' =
             Cardinality(Waiting(i)) + WaitsOn(r, i) - WaitsOn(caller[c], i)
        /\ Cardinality(InFlight(i))' =
             Cardinality(InFlight(i)) + RunsOn(r, i) - RunsOn(caller[c], i)
        /\ Cardinality(Holding(i))' =
             Cardinality(Holding(i)) + HoldsOn(r, i) - HoldsOn(caller[c], i)
    BY OneCallerMoves
  <2>2. QED
    BY <2>1 DEF CountersExact
<1>2. CountersExact'
  BY <1>1 DEF CountersExact
<1>3. caller' \in [Caller -> CallerType]
  BY DEF TypeOK
<1>4. ASSUME NEW i \in Id PROVE entry'[i] \in EntryType
  <2>1. IsFiniteSet(Waiting(i)') /\ IsFiniteSet(InFlight(i)') /\ IsFiniteSet(Holding(i)')
    BY FiniteAssumption, FS_Subset DEF Waiting, InFlight, Holding
  <2>2. entry'[i].waiters \in Nat /\ entry'[i].inflight \in Nat /\ entry'[i].slots \in Nat
    BY <1>1, <2>1, FS_CardinalityType
  <2>3. entry'[i] \in EntryRaw
    OBVIOUS
  <2>4. QED
    BY <2>2, <2>3 DEF EntryRaw, EntryType
<1>5. QED
  BY <1>2, <1>3, <1>4

\* A caller's own step that leaves the pool's maps alone.
LEMMA CallerMove ==
    ASSUME IInv,
           NEW c \in Caller, NEW r \in CallerType, caller' = [caller EXCEPT ![c] = r],
           CallerRef(r),
           UNCHANGED <<poolVars, spawn, conn, def, now>>,
           entry' \in [Id -> EntryRaw],
           \A i \in Id :
               /\ entry'[i].waiters = entry[i].waiters + WaitsOn(r, i) - WaitsOn(caller[c], i)
               /\ entry'[i].inflight = entry[i].inflight + RunsOn(r, i) - RunsOn(caller[c], i)
               /\ entry'[i].slots = entry[i].slots + HoldsOn(r, i) - HoldsOn(caller[c], i)
               /\ entry'[i].slots <= MaxConcurrent
    PROVE  IInv'
<1>0. TypeOK /\ CallerRefs /\ PoolRefs /\ SpawnRefs /\ ConnRefs /\ CountersExact
  BY DEF IInv, Refs
<1>1. /\ CountersExact'
      /\ entry' \in [Id -> EntryType]
      /\ caller' \in [Caller -> CallerType]
  BY <1>0, MoveCounters
<1>2. TypeOK'
  BY <1>0, <1>1 DEF TypeOK, poolVars
<1>3. CallerRefs'
  <2>1. \A d \in Caller : caller'[d] = IF d = c THEN r ELSE caller[d]
    BY <1>0 DEF TypeOK
  <2>2. \A d \in Caller : CallerRef(caller'[d])
    BY <1>0, <2>1 DEF CallerRefs
  <2>3. QED
    BY <2>2 DEF CallerRefs, CallerRef
<1>4. PoolRefs' /\ SpawnRefs' /\ ConnRefs'
  BY <1>0 DEF PoolRefs, SpawnRefs, ConnRefs, Installed, Pooled, poolVars
<1>5. QED
  BY <1>1, <1>2, <1>3, <1>4 DEF IInv, Refs

\* Leaving Get, from wherever the caller was.
LEMMA ReturnShape ==
    ASSUME NEW c \in Caller, Return(c)
    PROVE  \E r \in CallerType :
               /\ caller' = [caller EXCEPT ![c] = r]
               /\ r.pc = "idle" /\ r.e = None /\ r.sp = None
BY BlankTypes DEF Return

\* Starting over or, when the attempts are used up, leaving.
LEMMA RetryShape ==
    ASSUME TypeOK, NEW c \in Caller, Retry(c)
    PROVE  \E r \in CallerType :
               /\ caller' = [caller EXCEPT ![c] = r]
               /\ r.pc \in {"idle", "lookup"} /\ r.e = None /\ r.sp = None
               /\ r.pc = "lookup" => r.key = caller[c].key
<1>1. CASE caller[c].tries + 1 < getMaxAttempts
  <2> DEFINE r == [caller[c] EXCEPT !.pc = "lookup", !.sp = None, !.e = None, !.tries = @ + 1]
  <2>1. caller' = [caller EXCEPT ![c] = r]
    BY <1>1, Zenon DEF Retry
  <2>2. caller[c] \in CallerType
    BY DEF TypeOK
  <2>3. caller[c].tries + 1 \in Nat
    BY <2>2 DEF CallerType
  <2>4. r \in CallerType /\ r.pc = "lookup" /\ r.e = None /\ r.sp = None /\ r.key = caller[c].key
    BY <2>2, <2>3, Zenon DEF CallerType, CallerPC
  <2>5. QED
    BY <2>1, <2>4
<1>2. CASE ~(caller[c].tries + 1 < getMaxAttempts)
  BY <1>2, ReturnShape DEF Retry
<1>3. QED
  BY <1>1, <1>2

\* Moving to state p with everything else kept.
LEMMA MovePC ==
    ASSUME TypeOK, NEW c \in Caller, NEW p \in CallerPC, caller' = [caller EXCEPT ![c].pc = p]
    PROVE  \E r \in CallerType :
               /\ caller' = [caller EXCEPT ![c] = r]
               /\ r.pc = p /\ r.key = caller[c].key /\ r.e = caller[c].e
<1>1. caller[c] \in CallerType
  BY DEF TypeOK
<1> DEFINE r == [caller[c] EXCEPT !.pc = p]
<1>2. r \in CallerType /\ r.pc = p /\ r.key = caller[c].key /\ r.e = caller[c].e
  BY <1>1 DEF CallerType
<1>3. QED
  BY <1>2

\* Becoming a counted waiter of entry i.
LEMMA QueueShape ==
    ASSUME TypeOK, NEW c \in Caller, NEW i \in Id, Queue(c, i)
    PROVE  /\ \E r \in CallerType :
                  /\ caller' = [caller EXCEPT ![c] = r]
                  /\ r.pc = "sem" /\ r.key = caller[c].key /\ r.e = i
           /\ entry' \in [Id -> EntryRaw]
           /\ entry'[i].waiters = entry[i].waiters + 1
           /\ entry'[i].inflight = entry[i].inflight
           /\ entry'[i].slots = entry[i].slots
           /\ \A j \in Id \ {i} : entry'[j] = entry[j]
<1>1. caller[c] \in CallerType /\ entry[i] \in EntryType
  BY DEF TypeOK
<1> DEFINE r == [caller[c] EXCEPT !.pc = "sem", !.sp = None, !.e = i]
           q == [entry[i] EXCEPT !.idle = FALSE, !.waiters = @ + 1]
<1>2. r \in CallerType /\ r.pc = "sem" /\ r.key = caller[c].key /\ r.e = i
  BY <1>1 DEF CallerType, CallerPC
<1>3. entry[i].waiters + 1 \in Int
  BY <1>1 DEF EntryType
<1>4. q \in EntryRaw
  BY <1>1, <1>3, EntryFields, FALSE \in BOOLEAN
<1>5. /\ q.waiters = entry[i].waiters + 1
      /\ q.inflight = entry[i].inflight
      /\ q.slots = entry[i].slots
  BY <1>1 DEF EntryType
<1>6. caller' = [caller EXCEPT ![c] = r] /\ entry' = [entry EXCEPT ![i] = q]
  BY Zenon DEF Queue
<1>7. QED
  BY <1>2, <1>4, <1>5, <1>6, EntryUpdate

\* What the invariant says of a caller that holds an entry.
LEMMA Facts ==
    ASSUME IInv, NEW c \in Caller
    PROVE  /\ TypeOK /\ CountersExact /\ CallerRef(caller[c])
           /\ caller[c] \in CallerType
           /\ \A i \in Id : entry[i] \in EntryType /\ entry[i].slots <= MaxConcurrent
           /\ entry \in [Id -> EntryRaw]
<1>1. \A i \in Id : entry[i] \in EntryType
  BY DEF IInv, TypeOK
<1>2. EntryType \subseteq EntryRaw
  BY DEF EntryType, EntryRaw
<1>3. entry \in [Id -> EntryRaw]
  BY <1>2 DEF IInv, TypeOK
<1>4. CallerRef(caller[c])
  BY DEF IInv, Refs, CallerRefs
<1>5. QED
  BY <1>1, <1>3, <1>4 DEF IInv, TypeOK, CountersExact

\* A caller that counts nowhere, before and after, and changes no entry.
LEMMA QuietMove ==
    ASSUME IInv,
           NEW c \in Caller, NEW r \in CallerType, caller' = [caller EXCEPT ![c] = r],
           CallerRef(r),
           caller[c].pc \in {"idle", "lookup", "spawn", "spawned"},
           r.pc \in {"idle", "lookup", "spawn", "spawned"},
           UNCHANGED <<poolVars, spawn, entry, conn, def, now>>
    PROVE  IInv'
<1>1. /\ entry' \in [Id -> EntryRaw]
      /\ \A i \in Id : entry[i] \in EntryType /\ entry[i].slots <= MaxConcurrent
  BY Facts
<1>2. \A i \in Id : /\ WaitsOn(r, i) = 0 /\ WaitsOn(caller[c], i) = 0
                    /\ RunsOn(r, i) = 0 /\ RunsOn(caller[c], i) = 0
                    /\ HoldsOn(r, i) = 0 /\ HoldsOn(caller[c], i) = 0
  BY DEF WaitsOn, RunsOn, HoldsOn
<1>3. \A i \in Id :
        /\ entry'[i].waiters = entry[i].waiters + WaitsOn(r, i) - WaitsOn(caller[c], i)
        /\ entry'[i].inflight = entry[i].inflight + RunsOn(r, i) - RunsOn(caller[c], i)
        /\ entry'[i].slots = entry[i].slots + HoldsOn(r, i) - HoldsOn(caller[c], i)
        /\ entry'[i].slots <= MaxConcurrent
  BY <1>1, <1>2 DEF EntryType
<1>4. QED
  BY <1>1, <1>3, CallerMove

\* A caller that moves among the states that hold entry i.
LEMMA BusyMove ==
    ASSUME IInv,
           NEW c \in Caller, NEW r \in CallerType, caller' = [caller EXCEPT ![c] = r],
           CallerRef(r),
           NEW i \in Id,
           caller[c].e \in {i, None}, r.e \in {i, None},
           NEW q \in EntryRaw, entry' = [entry EXCEPT ![i] = q],
           q.waiters = entry[i].waiters + WaitsOn(r, i) - WaitsOn(caller[c], i),
           q.inflight = entry[i].inflight + RunsOn(r, i) - RunsOn(caller[c], i),
           q.slots = entry[i].slots + HoldsOn(r, i) - HoldsOn(caller[c], i),
           q.slots <= MaxConcurrent,
           UNCHANGED <<poolVars, spawn, conn, def, now>>
    PROVE  IInv'
<1>1. \A j \in Id : entry[j] \in EntryType /\ entry[j].slots <= MaxConcurrent
  BY Facts
<1>2. /\ entry' \in [Id -> EntryRaw]
      /\ entry'[i] = q
      /\ \A j \in Id \ {i} : entry'[j] = entry[j]
  BY Facts, EntryUpdate
<1>3. \A j \in Id \ {i} : /\ WaitsOn(r, j) = 0 /\ WaitsOn(caller[c], j) = 0
                          /\ RunsOn(r, j) = 0 /\ RunsOn(caller[c], j) = 0
                          /\ HoldsOn(r, j) = 0 /\ HoldsOn(caller[c], j) = 0
  BY NoneAssumption DEF WaitsOn, RunsOn, HoldsOn
<1>4. \A j \in Id \ {i} :
        /\ entry'[j].waiters = entry[j].waiters + WaitsOn(r, j) - WaitsOn(caller[c], j)
        /\ entry'[j].inflight = entry[j].inflight + RunsOn(r, j) - RunsOn(caller[c], j)
        /\ entry'[j].slots = entry[j].slots + HoldsOn(r, j) - HoldsOn(caller[c], j)
        /\ entry'[j].slots <= MaxConcurrent
  BY <1>1, <1>2, <1>3 DEF EntryType
<1>5. \A j \in Id :
        /\ entry'[j].waiters = entry[j].waiters + WaitsOn(r, j) - WaitsOn(caller[c], j)
        /\ entry'[j].inflight = entry[j].inflight + RunsOn(r, j) - RunsOn(caller[c], j)
        /\ entry'[j].slots = entry[j].slots + HoldsOn(r, j) - HoldsOn(caller[c], j)
        /\ entry'[j].slots <= MaxConcurrent
  BY <1>2, <1>4
<1>6. QED
  BY <1>2, <1>5, CallerMove

-----------------------------------------------------------------------------
(* Get, one step per action *)

\* The steps of Get that touch nothing but the caller.
LEMMA QuietSteps ==
    ASSUME IInv, NEW c \in Caller,
           \/ GetClosed(c) \/ SpawnFailed(c) \/ AbandonSpawn(c)
           \/ SpawnRetired(c) \/ JoinTooLate(c) \/ SpawnReady(c)
    PROVE  IInv'
<1>0. TypeOK /\ CallerRef(caller[c]) /\ caller[c] \in CallerType
  BY Facts
<1>1. CASE GetClosed(c) \/ SpawnFailed(c) \/ AbandonSpawn(c)
  <2>1. PICK r \in CallerType : /\ caller' = [caller EXCEPT ![c] = r]
                                /\ r.pc = "idle" /\ r.e = None /\ r.sp = None
    BY <1>1, ReturnShape DEF GetClosed, SpawnFailed, AbandonSpawn
  <2>2. CallerRef(r)
    BY <2>1 DEF CallerRef, Settled
  <2>3. QED
    BY <1>1, <2>1, <2>2, QuietMove DEF GetClosed, SpawnFailed, AbandonSpawn
<1>2. CASE SpawnRetired(c) \/ JoinTooLate(c)
  <2>1. PICK r \in CallerType : /\ caller' = [caller EXCEPT ![c] = r]
                                /\ r.pc \in {"idle", "lookup"} /\ r.e = None /\ r.sp = None
                                /\ r.pc = "lookup" => r.key = caller[c].key
    BY <1>0, <1>2, RetryShape DEF SpawnRetired, JoinTooLate
  <2>2. CallerRef(r)
    BY <1>0, <1>2, <2>1 DEF CallerRef, Settled, SpawnRetired, JoinTooLate
  <2>3. QED
    BY <1>2, <2>1, <2>2, QuietMove DEF SpawnRetired, JoinTooLate
<1>3. CASE SpawnReady(c)
  <2> DEFINE r == [caller[c] EXCEPT !.pc = "spawned", !.e = spawn[caller[c].sp].e]
  <2>1. caller' = [caller EXCEPT ![c] = r]
    BY <1>3 DEF SpawnReady
  <2>2. /\ caller[c].sp \in Id
        /\ spawn[caller[c].sp].e = caller[c].sp
        /\ spawn[caller[c].sp].pc \in Ended
        /\ spawn[caller[c].sp].key = caller[c].key
        /\ caller[c].key \in Keys
    BY <1>0, <1>3 DEF SpawnReady, CallerRef, IInv, Refs, SpawnRefs, Ended
  <2>3. /\ r \in CallerType /\ r.pc = "spawned" /\ r.e = caller[c].sp
        /\ r.key = caller[c].key
    BY <1>0, <2>2 DEF CallerType, CallerPC
  <2>4. CallerRef(r)
    BY <2>2, <2>3 DEF CallerRef, Settled
  <2>5. QED
    BY <1>3, <2>1, <2>3, <2>4, QuietMove DEF SpawnReady
<1>4. QED
  BY <1>1, <1>2, <1>3

\* A request enters Get.
LEMMA CallStep ==
    ASSUME IInv, NEW c \in Caller, NEW k \in Keys, Call(c, k)
    PROVE  IInv'
<1> DEFINE r == [IdleCaller EXCEPT !.pc = "lookup", !.key = k]
<1>1. r \in CallerType /\ r.pc = "lookup" /\ r.e = None /\ r.key = k
  BY BlankTypes DEF CallerType, CallerPC
<1>2. CallerRef(r)
  BY <1>1 DEF CallerRef, Settled
<1>3. QED
  BY <1>1, <1>2, QuietMove DEF Call

\* A caller joins the queue of the entry mapped under its key.
LEMMA QueueSteps ==
    ASSUME IInv, NEW c \in Caller, GetHit(c) \/ JoinSpawned(c)
    PROVE  IInv'
<1>0. TypeOK /\ CallerRef(caller[c]) /\ PoolRefs
  BY Facts DEF IInv, Refs
<1>1. PICK i \in Id : /\ Queue(c, i) /\ entries[caller[c].key] = i
                      /\ caller[c].key \in Keys
                      /\ caller[c].pc \in {"lookup", "spawned"}
  <2>1. caller[c].key \in Keys /\ caller[c].pc \in {"lookup", "spawned"}
    BY <1>0 DEF GetHit, JoinSpawned, CallerRef
  <2>2. CASE GetHit(c)
    BY <1>0, <2>1, <2>2 DEF GetHit, TypeOK
  <2>3. CASE JoinSpawned(c)
    BY <1>0, <2>1, <2>3 DEF JoinSpawned, CallerRef, Settled
  <2>4. QED
    BY <2>2, <2>3
<1>2. PICK r \in CallerType : /\ caller' = [caller EXCEPT ![c] = r]
                              /\ r.pc = "sem" /\ r.key = caller[c].key /\ r.e = i
  BY <1>0, <1>1, QueueShape
<1>3. /\ entry' \in [Id -> EntryRaw]
      /\ entry'[i].waiters = entry[i].waiters + 1
      /\ entry'[i].inflight = entry[i].inflight
      /\ entry'[i].slots = entry[i].slots
      /\ \A j \in Id \ {i} : entry'[j] = entry[j]
  BY <1>0, <1>1, QueueShape
<1>4. CallerRef(r)
  BY <1>0, <1>1, <1>2, NoneAssumption DEF CallerRef, Settled, PoolRefs, Installed
<1>5. \A j \in Id : entry[j] \in EntryType /\ entry[j].slots <= MaxConcurrent
  BY Facts
<1>6. \A j \in Id : /\ WaitsOn(r, j) = (IF j = i THEN 1 ELSE 0) /\ WaitsOn(caller[c], j) = 0
                    /\ RunsOn(r, j) = 0 /\ RunsOn(caller[c], j) = 0
                    /\ HoldsOn(r, j) = 0 /\ HoldsOn(caller[c], j) = 0
  BY <1>1, <1>2 DEF WaitsOn, RunsOn, HoldsOn
<1>7. \A j \in Id :
        /\ entry'[j].waiters = entry[j].waiters + WaitsOn(r, j) - WaitsOn(caller[c], j)
        /\ entry'[j].inflight = entry[j].inflight + RunsOn(r, j) - RunsOn(caller[c], j)
        /\ entry'[j].slots = entry[j].slots + HoldsOn(r, j) - HoldsOn(caller[c], j)
        /\ entry'[j].slots <= MaxConcurrent
  BY <1>3, <1>5, <1>6 DEF EntryType
<1>8. UNCHANGED <<poolVars, spawn, conn, def, now>>
  BY DEF GetHit, JoinSpawned
<1>9. QED
  BY <1>2, <1>3, <1>4, <1>7, <1>8, CallerMove

\* The steps of a caller that holds an entry: each moves the counters of that
\* entry by what the caller's two states contribute to them.
LEMMA BusySteps ==
    ASSUME IInv, NEW c \in Caller,
           \/ AcquireSlot(c) \/ CancelSlot(c) \/ LeaveQueue(c) \/ StartCall(c)
           \/ StartTooLate(c) \/ Backout(c) \/ ReleaseSlot(c) \/ ReleaseEntry(c)
    PROVE  IInv'
<1> DEFINE i == caller[c].e
<1>0. /\ TypeOK /\ CallerRef(caller[c]) /\ caller[c] \in CallerType
      /\ caller[c].pc \in Settled
      /\ i \in Id /\ i # None
      /\ caller[c].key \in Keys
      /\ entry[i] \in EntryType /\ entry[i].slots <= MaxConcurrent
  <2>1. TypeOK /\ CallerRef(caller[c]) /\ caller[c] \in CallerType
    BY Facts
  <2>2. caller[c].pc \in Settled
    BY DEF AcquireSlot, CancelSlot, LeaveQueue, StartCall, StartTooLate, Backout,
           ReleaseSlot, ReleaseEntry, Settled
  <2>3. i \in Id /\ i # None /\ caller[c].key \in Keys
    BY <2>1, <2>2, NoneAssumption DEF CallerRef, Settled
  <2>4. QED
    BY <2>1, <2>2, <2>3, Facts
<1>n. /\ entry[i].waiters \in Nat /\ entry[i].inflight \in Nat /\ entry[i].slots \in Nat
      /\ MaxConcurrent \in Nat
      /\ {entry[i].waiters, entry[i].waiters - 1, entry[i].inflight - 1, entry[i].inflight + 1,
          entry[i].slots - 1, entry[i].slots + 1} \subseteq Int
  BY <1>0, BoundsAssumption DEF EntryType
<1>1. CASE AcquireSlot(c)
  <2> DEFINE q == [entry[i] EXCEPT !.slots = @ + 1]
  <2>1. PICK r \in CallerType : /\ caller' = [caller EXCEPT ![c] = r]
                                /\ r.pc = "slot" /\ r.key = caller[c].key /\ r.e = i
    BY <1>0, <1>1, MovePC DEF AcquireSlot, CallerPC
  <2>2. CallerRef(r)
    BY <1>0, <2>1 DEF CallerRef, Settled
  <2>3. q \in EntryRaw
    BY <1>0, <1>n, EntryFields, FALSE \in BOOLEAN
  <2>4. q.waiters = entry[i].waiters /\ q.inflight = entry[i].inflight /\ q.slots = entry[i].slots + 1
    BY <1>0 DEF EntryType
  <2>5. entry' = [entry EXCEPT ![i] = q]
    BY <1>1 DEF AcquireSlot
  <2>6. /\ WaitsOn(caller[c], i) = 1 /\ RunsOn(caller[c], i) = 0 /\ HoldsOn(caller[c], i) = 0
        /\ WaitsOn(r, i) = 1 /\ RunsOn(r, i) = 0 /\ HoldsOn(r, i) = 1
    BY <1>0, <1>1, <2>1 DEF WaitsOn, RunsOn, HoldsOn, AcquireSlot
  <2>7. q.slots <= MaxConcurrent
    BY <1>0, <1>n, <1>1, <2>4 DEF AcquireSlot
  <2>8. /\ q.waiters = entry[i].waiters + WaitsOn(r, i) - WaitsOn(caller[c], i)
        /\ q.inflight = entry[i].inflight + RunsOn(r, i) - RunsOn(caller[c], i)
        /\ q.slots = entry[i].slots + HoldsOn(r, i) - HoldsOn(caller[c], i)
    BY <1>n, <2>4, <2>6
  <2>9. UNCHANGED <<poolVars, spawn, conn, def, now>> /\ r.e \in {i, None}
    BY <1>1, <2>1 DEF AcquireSlot
  <2>10. QED
    BY <1>0, <2>1, <2>2, <2>3, <2>5, <2>7, <2>8, <2>9, BusyMove
<1>2. CASE CancelSlot(c)
  <2> DEFINE q == entry[i]
  <2>1. PICK r \in CallerType : /\ caller' = [caller EXCEPT ![c] = r]
                                /\ r.pc = "leaving" /\ r.key = caller[c].key /\ r.e = i
    BY <1>0, <1>2, MovePC DEF CancelSlot, CallerPC
  <2>2. CallerRef(r)
    BY <1>0, <2>1 DEF CallerRef, Settled
  <2>3. q \in EntryRaw
    BY <1>0, <1>n, EntryFields, FALSE \in BOOLEAN
  <2>4. q.waiters = entry[i].waiters /\ q.inflight = entry[i].inflight /\ q.slots = entry[i].slots
    BY <1>0 DEF EntryType
  <2>5. entry' = [entry EXCEPT ![i] = q]
    BY <1>0, <1>2 DEF CancelSlot, TypeOK
  <2>6. /\ WaitsOn(caller[c], i) = 1 /\ RunsOn(caller[c], i) = 0 /\ HoldsOn(caller[c], i) = 0
        /\ WaitsOn(r, i) = 1 /\ RunsOn(r, i) = 0 /\ HoldsOn(r, i) = 0
    BY <1>0, <1>2, <2>1 DEF WaitsOn, RunsOn, HoldsOn, CancelSlot
  <2>7. q.slots <= MaxConcurrent
    BY <1>0, <1>n, <1>2, <2>4 DEF CancelSlot
  <2>8. /\ q.waiters = entry[i].waiters + WaitsOn(r, i) - WaitsOn(caller[c], i)
        /\ q.inflight = entry[i].inflight + RunsOn(r, i) - RunsOn(caller[c], i)
        /\ q.slots = entry[i].slots + HoldsOn(r, i) - HoldsOn(caller[c], i)
    BY <1>n, <2>4, <2>6
  <2>9. UNCHANGED <<poolVars, spawn, conn, def, now>> /\ r.e \in {i, None}
    BY <1>2, <2>1 DEF CancelSlot
  <2>10. QED
    BY <1>0, <2>1, <2>2, <2>3, <2>5, <2>7, <2>8, <2>9, BusyMove
<1>3. CASE LeaveQueue(c)
  <2> DEFINE q == [entry[i] EXCEPT !.waiters = @ - 1]
  <2>1. PICK r \in CallerType : /\ caller' = [caller EXCEPT ![c] = r]
                                /\ r.pc = "idle" /\ r.e = None /\ r.sp = None
    BY <1>3, ReturnShape DEF LeaveQueue
  <2>2. CallerRef(r)
    BY <2>1 DEF CallerRef, Settled
  <2>3. q \in EntryRaw
    BY <1>0, <1>n, EntryFields, FALSE \in BOOLEAN
  <2>4. q.waiters = entry[i].waiters - 1 /\ q.inflight = entry[i].inflight /\ q.slots = entry[i].slots
    BY <1>0 DEF EntryType
  <2>5. entry' = [entry EXCEPT ![i] = q]
    BY <1>3 DEF LeaveQueue
  <2>6. /\ WaitsOn(caller[c], i) = 1 /\ RunsOn(caller[c], i) = 0 /\ HoldsOn(caller[c], i) = 0
        /\ WaitsOn(r, i) = 0 /\ RunsOn(r, i) = 0 /\ HoldsOn(r, i) = 0
    BY <1>0, <1>3, <2>1 DEF WaitsOn, RunsOn, HoldsOn, LeaveQueue
  <2>7. q.slots <= MaxConcurrent
    BY <1>0, <1>n, <1>3, <2>4 DEF LeaveQueue
  <2>8. /\ q.waiters = entry[i].waiters + WaitsOn(r, i) - WaitsOn(caller[c], i)
        /\ q.inflight = entry[i].inflight + RunsOn(r, i) - RunsOn(caller[c], i)
        /\ q.slots = entry[i].slots + HoldsOn(r, i) - HoldsOn(caller[c], i)
    BY <1>n, <2>4, <2>6
  <2>9. UNCHANGED <<poolVars, spawn, conn, def, now>> /\ r.e \in {i, None}
    BY <1>3, <2>1 DEF LeaveQueue
  <2>10. QED
    BY <1>0, <2>1, <2>2, <2>3, <2>5, <2>7, <2>8, <2>9, BusyMove
<1>4. CASE StartCall(c)
  <2> DEFINE q == [entry[i] EXCEPT !.waiters = @ - 1, !.inflight = @ + 1]
  <2>1. PICK r \in CallerType : /\ caller' = [caller EXCEPT ![c] = r]
                                /\ r.pc = "running" /\ r.key = caller[c].key /\ r.e = i
    BY <1>0, <1>4, MovePC DEF StartCall, CallerPC
  <2>2. CallerRef(r)
    BY <1>0, <2>1 DEF CallerRef, Settled
  <2>3. q \in EntryRaw
    BY <1>0, <1>n, EntryFields, FALSE \in BOOLEAN
  <2>4. q.waiters = entry[i].waiters - 1 /\ q.inflight = entry[i].inflight + 1 /\ q.slots = entry[i].slots
    BY <1>0 DEF EntryType
  <2>5. entry' = [entry EXCEPT ![i] = q]
    BY <1>4 DEF StartCall
  <2>6. /\ WaitsOn(caller[c], i) = 1 /\ RunsOn(caller[c], i) = 0 /\ HoldsOn(caller[c], i) = 1
        /\ WaitsOn(r, i) = 0 /\ RunsOn(r, i) = 1 /\ HoldsOn(r, i) = 1
    BY <1>0, <1>4, <2>1 DEF WaitsOn, RunsOn, HoldsOn, StartCall
  <2>7. q.slots <= MaxConcurrent
    BY <1>0, <1>n, <1>4, <2>4 DEF StartCall
  <2>8. /\ q.waiters = entry[i].waiters + WaitsOn(r, i) - WaitsOn(caller[c], i)
        /\ q.inflight = entry[i].inflight + RunsOn(r, i) - RunsOn(caller[c], i)
        /\ q.slots = entry[i].slots + HoldsOn(r, i) - HoldsOn(caller[c], i)
    BY <1>n, <2>4, <2>6
  <2>9. UNCHANGED <<poolVars, spawn, conn, def, now>> /\ r.e \in {i, None}
    BY <1>4, <2>1 DEF StartCall
  <2>10. QED
    BY <1>0, <2>1, <2>2, <2>3, <2>5, <2>7, <2>8, <2>9, BusyMove
<1>5. CASE StartTooLate(c)
  <2> DEFINE q == [entry[i] EXCEPT !.waiters = @ - 1]
  <2>1. PICK r \in CallerType : /\ caller' = [caller EXCEPT ![c] = r]
                                /\ r.pc = "backout" /\ r.key = caller[c].key /\ r.e = i
    BY <1>0, <1>5, MovePC DEF StartTooLate, CallerPC
  <2>2. CallerRef(r)
    BY <1>0, <2>1 DEF CallerRef, Settled
  <2>3. q \in EntryRaw
    BY <1>0, <1>n, EntryFields, FALSE \in BOOLEAN
  <2>4. q.waiters = entry[i].waiters - 1 /\ q.inflight = entry[i].inflight /\ q.slots = entry[i].slots
    BY <1>0 DEF EntryType
  <2>5. entry' = [entry EXCEPT ![i] = q]
    BY <1>5 DEF StartTooLate
  <2>6. /\ WaitsOn(caller[c], i) = 1 /\ RunsOn(caller[c], i) = 0 /\ HoldsOn(caller[c], i) = 1
        /\ WaitsOn(r, i) = 0 /\ RunsOn(r, i) = 0 /\ HoldsOn(r, i) = 1
    BY <1>0, <1>5, <2>1 DEF WaitsOn, RunsOn, HoldsOn, StartTooLate
  <2>7. q.slots <= MaxConcurrent
    BY <1>0, <1>n, <1>5, <2>4 DEF StartTooLate
  <2>8. /\ q.waiters = entry[i].waiters + WaitsOn(r, i) - WaitsOn(caller[c], i)
        /\ q.inflight = entry[i].inflight + RunsOn(r, i) - RunsOn(caller[c], i)
        /\ q.slots = entry[i].slots + HoldsOn(r, i) - HoldsOn(caller[c], i)
    BY <1>n, <2>4, <2>6
  <2>9. UNCHANGED <<poolVars, spawn, conn, def, now>> /\ r.e \in {i, None}
    BY <1>5, <2>1 DEF StartTooLate
  <2>10. QED
    BY <1>0, <2>1, <2>2, <2>3, <2>5, <2>7, <2>8, <2>9, BusyMove
<1>6. CASE Backout(c)
  <2> DEFINE q == [entry[i] EXCEPT !.slots = @ - 1]
  <2>1. PICK r \in CallerType : /\ caller' = [caller EXCEPT ![c] = r]
                                /\ r.pc \in {"idle", "lookup"} /\ r.e = None /\ r.sp = None
                                /\ r.pc = "lookup" => r.key = caller[c].key
    BY <1>0, <1>6, RetryShape DEF Backout
  <2>2. CallerRef(r)
    BY <1>0, <2>1 DEF CallerRef, Settled
  <2>3. q \in EntryRaw
    BY <1>0, <1>n, EntryFields, FALSE \in BOOLEAN
  <2>4. q.waiters = entry[i].waiters /\ q.inflight = entry[i].inflight /\ q.slots = entry[i].slots - 1
    BY <1>0 DEF EntryType
  <2>5. entry' = [entry EXCEPT ![i] = q]
    BY <1>6 DEF Backout
  <2>6. /\ WaitsOn(caller[c], i) = 0 /\ RunsOn(caller[c], i) = 0 /\ HoldsOn(caller[c], i) = 1
        /\ WaitsOn(r, i) = 0 /\ RunsOn(r, i) = 0 /\ HoldsOn(r, i) = 0
    BY <1>0, <1>6, <2>1 DEF WaitsOn, RunsOn, HoldsOn, Backout
  <2>7. q.slots <= MaxConcurrent
    BY <1>0, <1>n, <1>6, <2>4 DEF Backout
  <2>8. /\ q.waiters = entry[i].waiters + WaitsOn(r, i) - WaitsOn(caller[c], i)
        /\ q.inflight = entry[i].inflight + RunsOn(r, i) - RunsOn(caller[c], i)
        /\ q.slots = entry[i].slots + HoldsOn(r, i) - HoldsOn(caller[c], i)
    BY <1>n, <2>4, <2>6
  <2>9. UNCHANGED <<poolVars, spawn, conn, def, now>> /\ r.e \in {i, None}
    BY <1>6, <2>1 DEF Backout
  <2>10. QED
    BY <1>0, <2>1, <2>2, <2>3, <2>5, <2>7, <2>8, <2>9, BusyMove
<1>7. CASE ReleaseSlot(c)
  <2> DEFINE q == [entry[i] EXCEPT !.slots = @ - 1]
  <2>1. PICK r \in CallerType : /\ caller' = [caller EXCEPT ![c] = r]
                                /\ r.pc = "released" /\ r.key = caller[c].key /\ r.e = i
    BY <1>0, <1>7, MovePC DEF ReleaseSlot, CallerPC
  <2>2. CallerRef(r)
    BY <1>0, <2>1 DEF CallerRef, Settled
  <2>3. q \in EntryRaw
    BY <1>0, <1>n, EntryFields, FALSE \in BOOLEAN
  <2>4. q.waiters = entry[i].waiters /\ q.inflight = entry[i].inflight /\ q.slots = entry[i].slots - 1
    BY <1>0 DEF EntryType
  <2>5. entry' = [entry EXCEPT ![i] = q]
    BY <1>7 DEF ReleaseSlot
  <2>6. /\ WaitsOn(caller[c], i) = 0 /\ RunsOn(caller[c], i) = 1 /\ HoldsOn(caller[c], i) = 1
        /\ WaitsOn(r, i) = 0 /\ RunsOn(r, i) = 1 /\ HoldsOn(r, i) = 0
    BY <1>0, <1>7, <2>1 DEF WaitsOn, RunsOn, HoldsOn, ReleaseSlot
  <2>7. q.slots <= MaxConcurrent
    BY <1>0, <1>n, <1>7, <2>4 DEF ReleaseSlot
  <2>8. /\ q.waiters = entry[i].waiters + WaitsOn(r, i) - WaitsOn(caller[c], i)
        /\ q.inflight = entry[i].inflight + RunsOn(r, i) - RunsOn(caller[c], i)
        /\ q.slots = entry[i].slots + HoldsOn(r, i) - HoldsOn(caller[c], i)
    BY <1>n, <2>4, <2>6
  <2>9. UNCHANGED <<poolVars, spawn, conn, def, now>> /\ r.e \in {i, None}
    BY <1>7, <2>1 DEF ReleaseSlot
  <2>10. QED
    BY <1>0, <2>1, <2>2, <2>3, <2>5, <2>7, <2>8, <2>9, BusyMove
<1>8. CASE ReleaseEntry(c)
  <2> DEFINE q == [entry[i] EXCEPT !.inflight = @ - 1, !.idle = FALSE]
  <2>1. PICK r \in CallerType : /\ caller' = [caller EXCEPT ![c] = r]
                                /\ r.pc = "idle" /\ r.e = None /\ r.sp = None
    BY <1>8, ReturnShape DEF ReleaseEntry
  <2>2. CallerRef(r)
    BY <2>1 DEF CallerRef, Settled
  <2>3. q \in EntryRaw
    BY <1>0, <1>n, EntryFields, FALSE \in BOOLEAN
  <2>4. q.waiters = entry[i].waiters /\ q.inflight = entry[i].inflight - 1 /\ q.slots = entry[i].slots
    BY <1>0 DEF EntryType
  <2>5. entry' = [entry EXCEPT ![i] = q]
    BY <1>8 DEF ReleaseEntry
  <2>6. /\ WaitsOn(caller[c], i) = 0 /\ RunsOn(caller[c], i) = 1 /\ HoldsOn(caller[c], i) = 0
        /\ WaitsOn(r, i) = 0 /\ RunsOn(r, i) = 0 /\ HoldsOn(r, i) = 0
    BY <1>0, <1>8, <2>1 DEF WaitsOn, RunsOn, HoldsOn, ReleaseEntry
  <2>7. q.slots <= MaxConcurrent
    BY <1>0, <1>n, <1>8, <2>4 DEF ReleaseEntry
  <2>8. /\ q.waiters = entry[i].waiters + WaitsOn(r, i) - WaitsOn(caller[c], i)
        /\ q.inflight = entry[i].inflight + RunsOn(r, i) - RunsOn(caller[c], i)
        /\ q.slots = entry[i].slots + HoldsOn(r, i) - HoldsOn(caller[c], i)
    BY <1>n, <2>4, <2>6
  <2>9. UNCHANGED <<poolVars, spawn, conn, def, now>> /\ r.e \in {i, None}
    BY <1>8, <2>1 DEF ReleaseEntry
  <2>10. QED
    BY <1>0, <2>1, <2>2, <2>3, <2>5, <2>7, <2>8, <2>9, BusyMove
<1>9. QED
  BY <1>1, <1>2, <1>3, <1>4, <1>5, <1>6, <1>7, <1>8

-----------------------------------------------------------------------------
(* Sections that retire entries *)

\* What every section that retires entries does: nothing is added, only a
\* pooled connection is closed, and one left open is still pooled.
Shrinks ==
    /\ entries' \in [Keys -> Id \cup {None}]
    /\ \A k \in Keys : entries'[k] \in {entries[k], None}
    /\ orphans' \in SUBSET Id /\ orphans' \subseteq Pooled
    /\ conn' \in [Id -> {"none", "live", "closing", "dead"}]
    /\ \A i \in Id : \/ conn'[i] = conn[i]
                     \/ conn[i] = "live" /\ conn'[i] = "closing" /\ i \in Pooled
    /\ \A i \in Id : i \in Pooled /\ conn'[i] = "live" => i \in Pooled'

\* What the pool maps or has orphaned, a spawn has installed.
LEMMA PooledInstalled ==
    ASSUME IInv
    PROVE  /\ Pooled \subseteq Id
           /\ \A i \in Pooled : Installed(i)
BY DEF IInv, Refs, PoolRefs, Pooled, TypeOK

\* Closing a set of entries changes only their live connections.
LEMMA ClosedByShape ==
    ASSUME TypeOK, NEW S, conn' = ClosedBy(S)
    PROVE  /\ conn' \in [Id -> {"none", "live", "closing", "dead"}]
           /\ \A i \in Id : conn'[i] = IF i \in S /\ conn[i] = "live" THEN "closing" ELSE conn[i]
BY DEF ClosedBy, TypeOK

\* The references survive, as long as spawns keep all but their stale mark.
LEMMA ShrinkRefs ==
    ASSUME IInv, Shrinks, UNCHANGED spawning,
           \A i \in Id : /\ spawn'[i].pc = spawn[i].pc /\ spawn'[i].key = spawn[i].key
                         /\ spawn'[i].e = spawn[i].e /\ spawn'[i].err = spawn[i].err
    PROVE  PoolRefs' /\ SpawnRefs' /\ ConnRefs'
<1>0. TypeOK /\ PoolRefs /\ SpawnRefs /\ ConnRefs
  BY DEF IInv, Refs
<1>1. \A i \in Pooled : i \in Id /\ Installed(i)
  BY PooledInstalled
<1>2. PoolRefs'
  <2>1. \A k \in Keys : entries'[k] # None =>
          Installed(entries[k])' /\ spawn'[entries'[k]].key = k /\ entries'[k] = entries[k]
    BY <1>0 DEF Shrinks, PoolRefs, Installed, TypeOK
  <2>2. \A i \in orphans' : Installed(i)'
    BY <1>1 DEF Shrinks, Installed
  <2>3. \A k \in Keys : spawning'[k] # None =>
          /\ spawn'[spawning'[k]].key = k
          /\ spawn'[spawning'[k]].pc \in Reserving \cup {"unmap"}
    BY <1>0 DEF PoolRefs, TypeOK
  <2>4. QED
    BY <2>1, <2>2, <2>3 DEF PoolRefs
<1>3. SpawnRefs'
  <2>1. ASSUME NEW i \in Id, spawn[i].pc \in Reserving PROVE entries'[spawn[i].key] = None
    <3>1. spawn[i].key \in Keys /\ entries[spawn[i].key] = None
      BY <1>0, <2>1 DEF SpawnRefs, Reserving
    <3>2. QED
      BY <3>1 DEF Shrinks
  <2>2. QED
    BY <1>0, <2>1 DEF SpawnRefs
<1>4. ConnRefs'
  BY <1>0, <1>1 DEF ConnRefs, Shrinks, Installed, Ended
<1>5. QED
  BY <1>2, <1>3, <1>4

\* Get replacing an entry drops or orphans it and adds nothing.
LEMMA ReplaceShape ==
    ASSUME IInv, NEW k \in Keys, Replace(k)
    PROVE  Shrinks /\ entries'[k] = None
<1> DEFINE i    == entries[k]
           own  == IF i = None THEN {} ELSE {i}
           busy == {j \in own : ~Dead(j) /\ busyLocked(j)}
           sup  == Superseded(k, [entries EXCEPT ![k] = None])
           gone == (own \ busy) \cup {entries[j] : j \in sup}
<1>0. TypeOK
  BY DEF IInv
<1>1. /\ entries' = [j \in Keys |-> IF j = k \/ j \in sup THEN None ELSE entries[j]]
      /\ orphans' = orphans \cup busy
      /\ conn' = ClosedBy(gone)
  BY Zenon DEF Replace
<1>2. sup \subseteq Keys /\ (\A j \in sup : entries[j] # None)
  BY <1>0 DEF Superseded, TypeOK
<1>3. own \subseteq Pooled /\ gone \subseteq Pooled /\ busy \subseteq own
  BY <1>2 DEF Pooled
<1>4. Pooled \subseteq Id
  BY PooledInstalled
<1>5. /\ entries' \in [Keys -> Id \cup {None}]
      /\ \A j \in Keys : entries'[j] \in {entries[j], None}
      /\ entries'[k] = None
  BY <1>0, <1>1 DEF TypeOK
<1>6. orphans' \in SUBSET Id /\ orphans' \subseteq Pooled
  BY <1>1, <1>3, <1>4 DEF Pooled
<1>7. /\ conn' \in [Id -> {"none", "live", "closing", "dead"}]
      /\ \A j \in Id : conn'[j] = IF j \in gone /\ conn[j] = "live" THEN "closing" ELSE conn[j]
  BY <1>0, <1>1, ClosedByShape
<1>8. ASSUME NEW j \in Id, j \in Pooled, conn'[j] = "live" PROVE j \in Pooled'
  <2>1. j \notin gone
    BY <1>7, <1>8
  <2>2. CASE j \in orphans
    BY <1>1, <2>2 DEF Pooled
  <2>3. CASE j \notin orphans
    <3>1. PICK h \in Keys : entries[h] # None /\ entries[h] = j
      BY <1>8, <2>3 DEF Pooled
    <3>2. CASE h = k
      BY <1>1, <2>1, <3>1, <3>2 DEF Pooled
    <3>3. CASE h # k
      <4>1. h \notin sup
        BY <2>1, <3>1
      <4>2. entries'[h] = j /\ entries'[h] # None
        BY <1>1, <3>1, <3>3, <4>1
      <4>3. QED
        BY <4>2 DEF Pooled
    <3>4. QED
      BY <3>2, <3>3
  <2>4. QED
    BY <2>2, <2>3
<1>9. QED
  BY <1>3, <1>5, <1>6, <1>7, <1>8 DEF Shrinks

\* A Get that finds nothing usable and starts no spawn.
LEMMA MissSteps ==
    ASSUME IInv, NEW c \in Caller, GetCircuitOpen(c) \/ GetAttach(c) \/ GetAtCap(c)
    PROVE  IInv'
<1>0. /\ TypeOK /\ CallerRef(caller[c]) /\ caller[c] \in CallerType /\ CountersExact
      /\ CallerRefs /\ PoolRefs /\ SpawnRefs
      /\ caller[c].pc = "lookup" /\ caller[c].key \in Keys /\ caller[c].e = None
  <2>1. TypeOK /\ CallerRef(caller[c]) /\ caller[c] \in CallerType /\ CountersExact
    BY Facts
  <2>2. caller[c].pc = "lookup"
    BY DEF GetCircuitOpen, GetAttach, GetAtCap, Miss
  <2>3. QED
    BY <2>1, <2>2 DEF CallerRef, Settled, IInv, Refs
<1>1. Shrinks
  BY <1>0, ReplaceShape DEF GetCircuitOpen, GetAttach, GetAtCap, Miss
<1>2. UNCHANGED <<spawning, pending, broken, closed, spawn, entry, def, now>>
  BY DEF GetCircuitOpen, GetAttach, GetAtCap
<1>3. PICK r \in CallerType :
         /\ caller' = [caller EXCEPT ![c] = r]
         /\ CallerRef(r)
         /\ r.pc \in {"idle", "spawn"} /\ r.e = None
  <2>1. CASE GetCircuitOpen(c) \/ GetAtCap(c)
    <3>1. PICK r \in CallerType : /\ caller' = [caller EXCEPT ![c] = r]
                                  /\ r.pc = "idle" /\ r.e = None /\ r.sp = None
      BY <2>1, ReturnShape DEF GetCircuitOpen, GetAtCap
    <3>2. QED
      BY <3>1 DEF CallerRef, Settled
  <2>2. CASE GetAttach(c)
    <3> DEFINE k == caller[c].key
               r == [caller[c] EXCEPT !.pc = "spawn", !.sp = spawning[k]]
    <3>1. /\ spawning[k] \in Id
          /\ spawn[spawning[k]].key = k
          /\ spawn[spawning[k]].pc # "free"
      BY <1>0, <2>2, SMTT(20) DEF GetAttach, TypeOK, PoolRefs, Reserving
    <3>2. r \in CallerType /\ r.pc = "spawn" /\ r.sp = spawning[k] /\ r.key = k /\ r.e = None
      BY <1>0, <3>1 DEF CallerType, CallerPC
    <3>3. CallerRef(r)
      BY <1>0, <3>1, <3>2 DEF CallerRef, Settled
    <3>4. QED
      BY <2>2, <3>2, <3>3 DEF GetAttach
  <2>3. QED
    BY <2>1, <2>2
<1>4. \A i \in Id : /\ WaitsOn(r, i) = 0 /\ WaitsOn(caller[c], i) = 0
                    /\ RunsOn(r, i) = 0 /\ RunsOn(caller[c], i) = 0
                    /\ HoldsOn(r, i) = 0 /\ HoldsOn(caller[c], i) = 0
  BY <1>0, <1>3 DEF WaitsOn, RunsOn, HoldsOn
<1>5. /\ entry' \in [Id -> EntryRaw]
      /\ \A i \in Id : entry[i] \in EntryType /\ entry[i].slots <= MaxConcurrent
  BY <1>2, Facts
<1>6. \A i \in Id :
        /\ entry'[i].waiters = entry[i].waiters + WaitsOn(r, i) - WaitsOn(caller[c], i)
        /\ entry'[i].inflight = entry[i].inflight + RunsOn(r, i) - RunsOn(caller[c], i)
        /\ entry'[i].slots = entry[i].slots + HoldsOn(r, i) - HoldsOn(caller[c], i)
        /\ entry'[i].slots <= MaxConcurrent
  BY <1>2, <1>4, <1>5 DEF EntryType
<1>7. CountersExact' /\ caller' \in [Caller -> CallerType]
  BY <1>0, <1>3, <1>5, <1>6, MoveCounters
<1>8. TypeOK'
  BY <1>0, <1>1, <1>2, <1>7 DEF TypeOK, Shrinks
<1>9. CallerRefs'
  <2>1. \A d \in Caller : caller'[d] = IF d = c THEN r ELSE caller[d]
    BY <1>0, <1>3 DEF TypeOK
  <2>2. \A d \in Caller : CallerRef(caller'[d])
    BY <1>0, <1>3, <2>1 DEF CallerRefs
  <2>3. QED
    BY <1>2, <2>2 DEF CallerRefs, CallerRef
<1>10. PoolRefs' /\ SpawnRefs' /\ ConnRefs'
  BY <1>1, <1>2, ShrinkRefs
<1>11. QED
  BY <1>7, <1>8, <1>9, <1>10 DEF IInv, Refs

\* Nothing refers to an unused Id, so its counters are zero.
LEMMA UnusedBlank ==
    ASSUME IInv, NEW i \in Id, Unused(i)
    PROVE  entry[i].waiters = 0 /\ entry[i].inflight = 0 /\ entry[i].slots = 0
<1>1. Waiting(i) = {} /\ InFlight(i) = {} /\ Holding(i) = {}
  BY DEF Unused, Waiting, InFlight, Holding
<1>2. QED
  BY <1>1, FS_EmptySet DEF IInv, CountersExact

\* A step of one spawn changes the record of that spawn only.
LEMMA SpawnUpdate ==
    ASSUME TypeOK, NEW i \in Id, NEW q \in SpawnType, spawn' = [spawn EXCEPT ![i] = q]
    PROVE  /\ spawn' \in [Id -> SpawnType]
           /\ spawn'[i] = q
           /\ \A j \in Id \ {i} : spawn'[j] = spawn[j]
BY DEF TypeOK

\* Get starts a spawn, under an Id nothing refers to.
LEMMA GetSpawnStep ==
    ASSUME IInv, NEW c \in Caller, NEW i \in Id, GetSpawn(c, i)
    PROVE  IInv'
<1> DEFINE k == caller[c].key
           r == [caller[c] EXCEPT !.pc = "spawn", !.sp = i]
           q == [BlankSpawn EXCEPT !.pc = "factory", !.key = k]
<1>0. /\ TypeOK /\ caller[c] \in CallerType /\ CountersExact
      /\ CallerRefs /\ PoolRefs /\ SpawnRefs /\ ConnRefs
      /\ caller[c].pc = "lookup" /\ k \in Keys /\ caller[c].e = None
      /\ Unused(i) /\ spawning[k] = None
  <2>1. TypeOK /\ CallerRef(caller[c]) /\ caller[c] \in CallerType /\ CountersExact
    BY Facts
  <2>2. caller[c].pc = "lookup" /\ Unused(i) /\ spawning[k] = None
    BY DEF GetSpawn, Miss
  <2>3. QED
    BY <2>1, <2>2 DEF CallerRef, Settled, IInv, Refs
<1>1. Shrinks /\ entries'[k] = None
  BY <1>0, ReplaceShape DEF GetSpawn, Miss
<1>2. /\ pending' = [pending EXCEPT ![k.tenant] = @ + 1]
      /\ spawning' = [spawning EXCEPT ![k] = i]
      /\ spawn' = [spawn EXCEPT ![i] = q]
      /\ entry' = [entry EXCEPT ![i] = BlankEntry]
      /\ caller' = [caller EXCEPT ![c] = r]
      /\ UNCHANGED <<broken, closed, def, now>>
  BY DEF GetSpawn
<1>3. r \in CallerType /\ r.pc = "spawn" /\ r.sp = i /\ r.key = k /\ r.e = None
  BY <1>0 DEF CallerType, CallerPC
<1>4. /\ q \in SpawnType /\ q.pc = "factory" /\ q.key = k /\ q.e = None
  BY <1>0, BlankTypes DEF SpawnType, SpawnPC, BlankSpawn
<1>5. /\ spawn' \in [Id -> SpawnType]
      /\ spawn'[i] = q
      /\ \A j \in Id \ {i} : spawn'[j] = spawn[j]
  BY <1>0, <1>2, <1>4, SpawnUpdate
<1>6. CountersExact' /\ entry' \in [Id -> EntryType] /\ caller' \in [Caller -> CallerType]
  <2>1. /\ BlankEntry \in EntryRaw
        /\ \A j \in Id : entry[j] \in EntryType /\ entry[j].slots <= MaxConcurrent
    BY BlankTypes, Facts DEF EntryType, EntryRaw
  <2>2. /\ entry' \in [Id -> EntryRaw]
        /\ entry'[i] = BlankEntry
        /\ \A j \in Id \ {i} : entry'[j] = entry[j]
    BY <1>0, <1>2, <2>1, EntryUpdate
  <2>3. \A j \in Id : /\ WaitsOn(r, j) = 0 /\ WaitsOn(caller[c], j) = 0
                      /\ RunsOn(r, j) = 0 /\ RunsOn(caller[c], j) = 0
                      /\ HoldsOn(r, j) = 0 /\ HoldsOn(caller[c], j) = 0
    BY <1>0, <1>3 DEF WaitsOn, RunsOn, HoldsOn
  <2>4. /\ entry'[i].waiters = entry[i].waiters
        /\ entry'[i].inflight = entry[i].inflight
        /\ entry'[i].slots = entry[i].slots
    BY <1>0, <2>2, UnusedBlank, BlankTypes
  <2>5. \A j \in Id :
          /\ entry'[j].waiters = entry[j].waiters
          /\ entry'[j].inflight = entry[j].inflight
          /\ entry'[j].slots = entry[j].slots
    BY <2>2, <2>4
  <2>6. \A j \in Id :
          /\ entry'[j].waiters = entry[j].waiters + WaitsOn(r, j) - WaitsOn(caller[c], j)
          /\ entry'[j].inflight = entry[j].inflight + RunsOn(r, j) - RunsOn(caller[c], j)
          /\ entry'[j].slots = entry[j].slots + HoldsOn(r, j) - HoldsOn(caller[c], j)
          /\ entry'[j].slots <= MaxConcurrent
    BY <2>1, <2>3, <2>5 DEF EntryType
  <2>7. QED
    BY <1>0, <1>2, <1>3, <2>2, <2>6, MoveCounters, ZenonT(30)
<1>7. TypeOK'
  <2>1. k.tenant \in Tenant
    BY <1>0, KeysAssumption
  <2>2. pending' \in [Tenant -> Nat] /\ spawning' \in [Keys -> Id \cup {None}]
    BY <1>0, <1>2, <2>1 DEF TypeOK
  <2>3. QED
    BY <1>0, <1>1, <1>2, <1>5, <1>6, <2>2 DEF TypeOK, Shrinks
<1>8. CallerRefs'
  <2>1. \A d \in Caller : caller'[d] = IF d = c THEN r ELSE caller[d]
    BY <1>0, <1>2 DEF TypeOK
  <2>2. CallerRef(caller[c])'
    <3>1. /\ caller'[c].pc = "spawn" /\ caller'[c].sp = i
          /\ caller'[c].key = k /\ caller'[c].e = None
      BY <1>3, <2>1
    <3>2. spawn'[i].pc = "factory" /\ spawn'[i].key = k
      BY <1>4, <1>5
    <3>3. QED
      BY <1>0, <3>1, <3>2 DEF CallerRef, Settled
  <2>3. ASSUME NEW d \in Caller \ {c} PROVE CallerRef(caller[d])'
    <3>1. CallerRef(caller[d]) /\ caller[d].sp # i /\ caller[d].e # i
      BY <1>0 DEF CallerRefs, Unused
    <3>2. caller'[d] = caller[d]
      BY <2>1
    <3>3. QED
      BY <1>5, <3>1, <3>2 DEF CallerRef
  <2>4. QED
    BY <2>1, <2>2, <2>3 DEF CallerRefs, CallerRef
<1>9. i \notin Pooled
  BY <1>0 DEF Unused, Pooled
<1>10. PoolRefs'
  <2>1. \A j \in Pooled : j \in Id /\ j # i /\ Installed(j)
    BY <1>9, PooledInstalled
  <2>2. \A h \in Keys : entries'[h] # None =>
           /\ entries'[h] = entries[h] /\ entries[h] \in Pooled
           /\ spawn[entries[h]].key = h
    BY <1>0, <1>1 DEF Shrinks, PoolRefs, Pooled
  <2>3. \A h \in Keys : entries'[h] # None =>
           Installed(entries[h])' /\ spawn'[entries'[h]].key = h
    BY <1>5, <2>1, <2>2 DEF Installed
  <2>4. \A j \in orphans' : Installed(j)'
    BY <1>1, <1>5, <2>1 DEF Installed, Shrinks
  <2>5. \A h \in Keys : spawning'[h] # None =>
          /\ spawn'[spawning'[h]].key = h
          /\ spawn'[spawning'[h]].pc \in Reserving \cup {"unmap"}
    <3>1. \A h \in Keys : spawning'[h] = IF h = k THEN i ELSE spawning[h]
      BY <1>0, <1>2 DEF TypeOK
    <3>2. \A h \in Keys : spawning[h] # None => spawning[h] \in Id \ {i}
      BY <1>0 DEF PoolRefs, Unused, Reserving, TypeOK
    <3>3. ASSUME NEW h \in Keys, h # k, spawning'[h] # None
          PROVE  /\ spawn'[spawning'[h]].key = h
                 /\ spawn'[spawning'[h]].pc \in Reserving \cup {"unmap"}
      BY <1>0, <1>5, <3>1, <3>2, <3>3 DEF PoolRefs
    <3>4. /\ spawn'[spawning'[k]].key = k
          /\ spawn'[spawning'[k]].pc \in Reserving
      BY <1>0, <1>4, <1>5, <3>1 DEF Reserving
    <3>5. QED
      BY <3>3, <3>4
  <2>6. QED
    BY <2>2, <2>3, <2>4, <2>5 DEF PoolRefs, Installed
<1>11. SpawnRefs'
  <2>1. \A h \in Keys : spawning'[h] = IF h = k THEN i ELSE spawning[h]
    BY <1>0, <1>2 DEF TypeOK
  <2>2. ASSUME NEW j \in Id \ {i}
        PROVE  /\ spawn[j].pc \in Reserving \cup {"unmap"} => spawning'[spawn[j].key] = j
               /\ spawn[j].pc \in Reserving => entries'[spawn[j].key] = None
    <3>1. spawn[j].pc \in Reserving \cup {"unmap"} =>
             spawn[j].key \in Keys /\ spawning[spawn[j].key] = j
      BY <1>0 DEF SpawnRefs, Reserving
    <3>2. j # None
      BY NoneAssumption
    <3>3. QED
      BY <1>0, <1>1, <2>1, <3>1, <3>2 DEF SpawnRefs, Shrinks
  <2>3. ASSUME NEW j \in Id \ {i}
        PROVE  /\ spawn'[j].pc # "free" => spawn'[j].key \in Keys
               /\ spawn'[j].pc \in Reserving \cup {"unmap"} => spawning'[spawn'[j].key] = j
               /\ spawn'[j].pc \in Reserving => entries'[spawn'[j].key] = None
               /\ spawn'[j].pc \in {"failed", "unreserve"} => spawn'[j].err # "none"
               /\ spawn'[j].pc \in Ended /\ spawn'[j].err = "none" => spawn'[j].e = j
               /\ spawn'[j].e \in {None, j}
               /\ spawn'[j].e = j => spawn'[j].pc \in Ended
    BY <1>0, <1>5, <2>2 DEF SpawnRefs
  <2>4. /\ spawn'[i].key \in Keys
        /\ spawning'[spawn'[i].key] = i
        /\ entries'[spawn'[i].key] = None
        /\ spawn'[i].pc \notin Ended \cup {"failed", "unreserve"}
        /\ spawn'[i].e = None /\ None # i
    BY <1>0, <1>1, <1>4, <1>5, <2>1, NoneAssumption DEF Ended
  <2>5. QED
    BY <2>3, <2>4 DEF SpawnRefs
<1>12. ConnRefs'
  <2>1. conn'[i] # "live"
    BY <1>0, <1>1 DEF Unused, Shrinks
  <2>2. \A j \in Pooled : Installed(j)
    BY PooledInstalled
  <2>3. QED
    BY <1>0, <1>1, <1>4, <1>5, <2>1, <2>2, ZenonT(30) DEF ConnRefs, Shrinks, Installed, Ended
<1>13. QED
  BY <1>6, <1>7, <1>8, <1>10, <1>11, <1>12 DEF IInv, Refs

\* A section that retires entries and touches no caller.
LEMMA ShrinkInv ==
    ASSUME IInv, Shrinks, spawn' \in [Id -> SpawnType],
           \A i \in Id : /\ spawn'[i].pc = spawn[i].pc /\ spawn'[i].key = spawn[i].key
                         /\ spawn'[i].e = spawn[i].e /\ spawn'[i].err = spawn[i].err,
           broken' \in [Keys -> [fails : 0..BreakerThreshold, open : BOOLEAN]],
           closed' \in BOOLEAN,
           UNCHANGED <<spawning, pending, entry, caller, def, now>>
    PROVE  IInv'
<1>0. TypeOK /\ CallerRefs /\ CountersExact
  BY DEF IInv, Refs
<1>1. TypeOK'
  BY <1>0 DEF TypeOK, Shrinks
<1>2. CallerRefs'
  <2>1. ASSUME NEW c \in Caller PROVE CallerRef(caller[c])'
    <3>1. CallerRef(caller[c])
      BY <1>0 DEF CallerRefs
    <3>2. QED
      BY <3>1 DEF CallerRef
  <2>2. QED
    BY <2>1 DEF CallerRefs
<1>3. PoolRefs' /\ SpawnRefs' /\ ConnRefs'
  BY ShrinkRefs
<1>4. CountersExact'
  BY <1>0, CountersFrame
<1>5. QED
  BY <1>1, <1>2, <1>3, <1>4 DEF IInv, Refs

\* Unmapping the keys in dropped and the orphans in lost, and closing exactly
\* what was unmapped.
LEMMA DropShrinks ==
    ASSUME IInv, NEW dropped \in SUBSET Keys, NEW lost \in SUBSET orphans,
           \A k \in dropped : entries[k] # None,
           entries' = [k \in Keys |-> IF k \in dropped THEN None ELSE entries[k]],
           orphans' = orphans \ lost,
           conn' = ClosedBy({entries[k] : k \in dropped} \cup lost)
    PROVE  Shrinks
<1> DEFINE gone == {entries[k] : k \in dropped} \cup lost
<1>0. TypeOK /\ Pooled \subseteq Id
  BY PooledInstalled DEF IInv
<1>1. gone \subseteq Pooled
  BY DEF Pooled
<1>2. /\ conn' \in [Id -> {"none", "live", "closing", "dead"}]
      /\ \A j \in Id : conn'[j] = IF j \in gone /\ conn[j] = "live" THEN "closing" ELSE conn[j]
  BY <1>0, ClosedByShape
<1>3. /\ entries' \in [Keys -> Id \cup {None}]
      /\ \A k \in Keys : entries'[k] \in {entries[k], None}
  BY <1>0 DEF TypeOK
<1>4. orphans' \in SUBSET Id /\ orphans' \subseteq Pooled
  BY <1>0 DEF Pooled, TypeOK
<1>5. ASSUME NEW j \in Id, j \in Pooled, conn'[j] = "live" PROVE j \in Pooled'
  <2>1. j \notin gone
    BY <1>2, <1>5
  <2>2. CASE j \in orphans
    BY <2>1, <2>2 DEF Pooled
  <2>3. CASE j \notin orphans
    <3>1. PICK h \in Keys : entries[h] # None /\ entries[h] = j
      BY <1>5, <2>3 DEF Pooled
    <3>2. h \notin dropped
      BY <2>1, <3>1
    <3>3. entries'[h] = j /\ entries'[h] # None
      BY <3>1, <3>2
    <3>4. QED
      BY <3>3 DEF Pooled
  <2>4. QED
    BY <2>2, <2>3
<1>6. QED
  BY <1>1, <1>2, <1>3, <1>4, <1>5 DEF Shrinks

\* A tick of the reaper.
LEMMA ReapStep ==
    ASSUME IInv, reap
    PROVE  IInv'
<1> DEFINE victims == {k \in Keys : entries[k] # None /\ Reapable(entries[k])}
           drained == {i \in orphans : Drained(i)}
<1>1. Shrinks
  <2>1. victims \in SUBSET Keys /\ drained \in SUBSET orphans /\ (\A k \in victims : entries[k] # None)
    OBVIOUS
  <2>2. /\ entries' = [k \in Keys |-> IF k \in victims THEN None ELSE entries[k]]
        /\ orphans' = orphans \ drained
        /\ conn' = ClosedBy({entries[k] : k \in victims} \cup drained)
    BY DEF reap
  <2>3. QED
    BY <2>1, <2>2, DropShrinks
<1>2. QED
  BY <1>1, ShrinkInv DEF reap, IInv, TypeOK

\* Shutdown empties the pool; spawns in flight keep their place.
LEMMA ShutdownStep ==
    ASSUME IInv, Shutdown
    PROVE  IInv'
<1> DEFINE mapped == {j \in Keys : entries[j] # None}
<1>0. TypeOK
  BY DEF IInv
<1>1. Shrinks
  <2>1. entries' = [k \in Keys |-> IF k \in mapped THEN None ELSE entries[k]]
    BY <1>0 DEF Shutdown
  <2>2. orphans' = orphans \ orphans
    BY DEF Shutdown
  <2>3. conn' = ClosedBy({entries[k] : k \in mapped} \cup orphans)
    <3>1. orphans \cup {entries[k] : k \in mapped} = {entries[k] : k \in mapped} \cup orphans
      OBVIOUS
    <3>2. QED
      BY <3>1 DEF Shutdown
  <2>4. /\ mapped \in SUBSET Keys /\ orphans \in SUBSET orphans
        /\ \A k \in mapped : entries[k] # None
    OBVIOUS
  <2>5. QED
    BY <2>1, <2>2, <2>3, <2>4, DropShrinks
<1>2. closed' \in BOOLEAN
  BY DEF Shutdown
<1>3. QED
  BY <1>0, <1>1, <1>2, ShrinkInv DEF Shutdown, TypeOK

\* Marking a spawn stale leaves the rest of it alone.
LEMMA StaleShape ==
    ASSUME NEW r \in SpawnType
    PROVE  /\ [r EXCEPT !.stale = TRUE] \in SpawnType
           /\ [r EXCEPT !.stale = TRUE].pc = r.pc
           /\ [r EXCEPT !.stale = TRUE].key = r.key
           /\ [r EXCEPT !.stale = TRUE].e = r.e
           /\ [r EXCEPT !.stale = TRUE].err = r.err
           /\ [r EXCEPT !.stale = TRUE].def = r.def
           /\ [r EXCEPT !.stale = TRUE].built = r.built
           /\ [r EXCEPT !.stale = TRUE].stale
BY Zenon DEF SpawnType

\* Eviction drops entries and orphans, and marks spawns stale.
LEMMA EvictStep ==
    ASSUME IInv, NEW s \in Server, NEW date, evictServer(s, date)
    PROVE  IInv'
<1> DEFINE victims == {k \in Keys : /\ k.server = s
                                    /\ entries[k] # None
                                    /\ definedAfter(entries[k], date)}
           lost    == {i \in orphans : spawn[i].key.server = s /\ definedAfter(i, date)}
           running == {spawning[k] : k \in {j \in Keys : j.server = s /\ spawning[j] # None}}
           hit(i)  == i \in running /\ (spawn[i].built = 0 \/ spawn[i].built > date)
<1>0. TypeOK
  BY DEF IInv
<1>1. Shrinks
  <2>1. victims \in SUBSET Keys /\ lost \in SUBSET orphans /\ (\A k \in victims : entries[k] # None)
    OBVIOUS
  <2>2. /\ entries' = [k \in Keys |-> IF k \in victims THEN None ELSE entries[k]]
        /\ orphans' = orphans \ lost
        /\ conn' = ClosedBy({entries[k] : k \in victims} \cup lost)
    BY DEF evictServer
  <2>3. QED
    BY <2>1, <2>2, DropShrinks
<1>2. spawn' = [i \in Id |-> IF hit(i) THEN [spawn[i] EXCEPT !.stale = TRUE] ELSE spawn[i]]
  BY Zenon DEF evictServer
<1>3. \A i \in Id : spawn[i] \in SpawnType
  BY <1>0 DEF TypeOK
<1>4. /\ spawn' \in [Id -> SpawnType]
      /\ \A i \in Id : /\ spawn'[i].pc = spawn[i].pc /\ spawn'[i].key = spawn[i].key
                       /\ spawn'[i].e = spawn[i].e /\ spawn'[i].err = spawn[i].err
  <2>1. \A i \in Id : spawn'[i] = IF hit(i) THEN [spawn[i] EXCEPT !.stale = TRUE] ELSE spawn[i]
    BY <1>2, Zenon
  <2> HIDE DEF hit
  <2>2. ASSUME NEW i \in Id
        PROVE  /\ spawn'[i] \in SpawnType
               /\ spawn'[i].pc = spawn[i].pc /\ spawn'[i].key = spawn[i].key
               /\ spawn'[i].e = spawn[i].e /\ spawn'[i].err = spawn[i].err
    <3>1. CASE hit(i)
      BY <1>3, <2>1, <3>1, StaleShape, Zenon
    <3>2. CASE ~hit(i)
      BY <1>3, <2>1, <3>2, Zenon
    <3>3. QED
      BY <3>1, <3>2
  <2>3. spawn' = [i \in Id |-> spawn'[i]]
    BY <1>2
  <2>4. QED
    BY <2>2, <2>3
<1>5. broken' \in [Keys -> [fails : 0..BreakerThreshold, open : BOOLEAN]]
  <2>1. [fails |-> 0, open |-> FALSE] \in [fails : 0..BreakerThreshold, open : BOOLEAN]
    BY BoundsAssumption
  <2>2. broken' = [k \in Keys |-> IF k.server = s THEN [fails |-> 0, open |-> FALSE] ELSE broken[k]]
    BY DEF evictServer
  <2>3. QED
    BY <1>0, <2>1, <2>2 DEF TypeOK
<1>6. UNCHANGED <<spawning, pending, closed, entry, caller, def, now>>
  BY DEF evictServer
<1>7. QED
  BY <1>0, <1>1, <1>4, <1>5, <1>6, ShrinkInv DEF TypeOK

-----------------------------------------------------------------------------
(* runSpawn *)

\* A step of spawn i that leaves callers and entries alone: i keeps its key,
\* and a spawn callers may be settled on keeps what they rely on.
LEMMA SpawnMove ==
    ASSUME IInv, NEW i \in Id, NEW q \in SpawnType, spawn' = [spawn EXCEPT ![i] = q],
           spawn[i].pc # "free", q.pc # "free", q.key = spawn[i].key,
           spawn[i].pc \in Ended => q.pc \in Ended /\ q.e = spawn[i].e,
           UNCHANGED <<entry, caller>>
    PROVE  CallerRefs' /\ CountersExact'
<1>0. TypeOK /\ CallerRefs /\ CountersExact
  BY DEF IInv, Refs
<1>1. /\ spawn'[i] = q
      /\ \A j \in Id \ {i} : spawn'[j] = spawn[j]
  BY <1>0, SpawnUpdate
<1>2. ASSUME NEW c \in Caller PROVE CallerRef(caller[c])'
  <2>1. CallerRef(caller[c])
    BY <1>0 DEF CallerRefs
  <2>2. QED
    BY <1>1, <2>1 DEF CallerRef
<1>3. CallerRefs'
  BY <1>2 DEF CallerRefs
<1>4. QED
  BY <1>0, <1>3, CountersFrame

\* Moves of a spawn that has not connected and does not connect in this step.
LEMMA StartingMove ==
    ASSUME IInv, NEW i \in Id, NEW q \in SpawnType, spawn' = [spawn EXCEPT ![i] = q],
           spawn[i].pc \in Reserving \ {"install"}, q.pc \in Reserving \ {"install"},
           q.key = spawn[i].key, q.e = spawn[i].e,
           q.pc \in {"failed", "unreserve"} => q.err # "none",
           broken' \in [Keys -> [fails : 0..BreakerThreshold, open : BOOLEAN]],
           UNCHANGED <<entries, orphans, spawning, pending, closed, entry, conn, caller, def, now>>
    PROVE  IInv'
<1>0. TypeOK /\ PoolRefs /\ SpawnRefs /\ ConnRefs
  BY DEF IInv, Refs
<1>1. /\ spawn' \in [Id -> SpawnType]
      /\ spawn'[i] = q
      /\ \A j \in Id \ {i} : spawn'[j] = spawn[j]
  BY <1>0, SpawnUpdate
<1>2. CallerRefs' /\ CountersExact'
  BY SpawnMove DEF Reserving, Ended
<1>3. TypeOK'
  BY <1>0, <1>1 DEF TypeOK
<1>4. PoolRefs'
  <2>1. \A j \in Id : Installed(j) => Installed(j)'
    BY <1>1 DEF Installed, Ended, Reserving
  <2>2. \A k \in Keys : entries[k] # None => entries[k] \in Id
    BY <1>0 DEF TypeOK
  <2>3. \A j \in orphans : j \in Id
    BY <1>0 DEF TypeOK
  <2>4. \A k \in Keys : entries'[k] # None =>
          Installed(entries[k])' /\ spawn'[entries'[k]].key = k
    BY <1>0, <1>1, <2>1, <2>2 DEF PoolRefs
  <2>5. \A j \in orphans' : Installed(j)'
    BY <1>0, <2>1, <2>3 DEF PoolRefs
  <2>6. \A k \in Keys : spawning'[k] # None =>
          /\ spawn'[spawning'[k]].key = k
          /\ spawn'[spawning'[k]].pc \in Reserving \cup {"unmap"}
    BY <1>0, <1>1 DEF PoolRefs, TypeOK
  <2>7. QED
    BY <2>4, <2>5, <2>6 DEF PoolRefs, Installed
<1>5. SpawnRefs'
  BY <1>0, <1>1 DEF SpawnRefs, Reserving, Ended
<1>6. ConnRefs'
  BY <1>0, <1>1 DEF ConnRefs, Pooled, Reserving
<1>7. QED
  BY <1>2, <1>3, <1>4, <1>5, <1>6 DEF IInv, Refs

\* The steps of a spawn up to its installing section.
LEMMA StartingSteps ==
    ASSUME IInv, NEW i \in Id,
           \/ FactoryOk(i) \/ FactoryErr(i) \/ Stamp(i) \/ ConnectErr(i) \/ recordFailure(i)
    PROVE  IInv'
<1>0. /\ TypeOK /\ spawn[i] \in SpawnType /\ SpawnRefs
      /\ now \in Nat
      /\ broken \in [Keys -> [fails : 0..BreakerThreshold, open : BOOLEAN]]
  BY DEF IInv, Refs, TypeOK
<1>1. CASE FactoryOk(i)
  <2> DEFINE d == def[spawn[i].key.server]
             q == [spawn[i] EXCEPT !.pc = "stamp", !.def = d]
  <2>1. spawn[i].key \in Keys
    BY <1>0, <1>1 DEF FactoryOk, SpawnRefs
  <2>2. d \in Def \cup {NoDef}
    BY <1>0, <2>1, KeysAssumption DEF TypeOK
  <2>3. q \in SpawnType /\ q.pc = "stamp" /\ q.key = spawn[i].key /\ q.e = spawn[i].e
    BY <1>0, <2>2 DEF SpawnType, SpawnPC
  <2>4. QED
    BY <1>0, <1>1, <2>3, StartingMove DEF FactoryOk, Reserving, poolVars
<1>2. CASE FactoryErr(i)
  <2> DEFINE q == [spawn[i] EXCEPT !.pc = "unreserve", !.err = "factory"]
  <2>1. q \in SpawnType /\ q.pc = "unreserve" /\ q.key = spawn[i].key /\ q.e = spawn[i].e
        /\ q.err # "none"
    BY <1>0 DEF SpawnType, SpawnPC, SpawnErr
  <2>2. QED
    BY <1>0, <1>2, <2>1, StartingMove DEF FactoryErr, Reserving, poolVars
<1>3. CASE Stamp(i)
  <2> DEFINE q == [spawn[i] EXCEPT !.pc = "connect", !.built = now]
  <2>1. q \in SpawnType /\ q.pc = "connect" /\ q.key = spawn[i].key /\ q.e = spawn[i].e
    BY <1>0 DEF SpawnType, SpawnPC
  <2>2. QED
    BY <1>0, <1>3, <2>1, StartingMove DEF Stamp, Reserving, poolVars
<1>4. CASE ConnectErr(i)
  <2> DEFINE q == [spawn[i] EXCEPT !.pc = "failed", !.err = "connect"]
  <2>1. q \in SpawnType /\ q.pc = "failed" /\ q.key = spawn[i].key /\ q.e = spawn[i].e
        /\ q.err # "none"
    BY <1>0 DEF SpawnType, SpawnPC, SpawnErr
  <2>2. QED
    BY <1>0, <1>4, <2>1, StartingMove DEF ConnectErr, Reserving, poolVars
<1>5. CASE recordFailure(i)
  <2> DEFINE q == [spawn[i] EXCEPT !.pc = "unreserve"]
             k == spawn[i].key
             n == IF broken[k].fails < BreakerThreshold THEN broken[k].fails + 1
                                                        ELSE BreakerThreshold
             b == IF n >= BreakerThreshold THEN TRUE ELSE broken[k].open
  <2>1. q \in SpawnType /\ q.pc = "unreserve" /\ q.key = spawn[i].key /\ q.e = spawn[i].e
        /\ q.err # "none"
    BY <1>0, <1>5 DEF SpawnType, SpawnPC, recordFailure, SpawnRefs
  <2>2. k \in Keys
    BY <1>0, <1>5 DEF recordFailure, SpawnRefs
  <2>3. broken[k].fails \in 0..BreakerThreshold /\ broken[k].open \in BOOLEAN
    BY <1>0, <2>2
  <2>4. n \in 0..BreakerThreshold
    BY <2>3, BoundsAssumption
  <2>5. b \in BOOLEAN
    BY <2>3, Zenon
  <2>6. broken' = [broken EXCEPT ![k] = [fails |-> n, open |-> b]]
    BY <1>5, Zenon DEF recordFailure
  <2>7. [fails |-> n, open |-> b] \in [fails : 0..BreakerThreshold, open : BOOLEAN]
    BY <2>4, <2>5, Zenon
  <2>8. broken' \in [Keys -> [fails : 0..BreakerThreshold, open : BOOLEAN]]
    <3> HIDE DEF n, b
    <3>1. QED
      BY <1>0, <2>6, <2>7, Zenon
  <2>9. spawn' = [spawn EXCEPT ![i] = q]
        /\ spawn[i].pc = "failed"
        /\ UNCHANGED <<entries, orphans, spawning, pending, closed, entry, conn, caller, def, now>>
    BY <1>5 DEF recordFailure
  <2>10. QED
    BY <2>1, <2>8, <2>9, StartingMove DEF Reserving
<1>6. QED
  BY <1>1, <1>2, <1>3, <1>4, <1>5

\* Connect succeeds: the connection is in the hands of its spawn.
LEMMA ConnectOkStep ==
    ASSUME IInv, NEW i \in Id, ConnectOk(i)
    PROVE  IInv'
<1> DEFINE q == [spawn[i] EXCEPT !.pc = "install"]
<1>0. TypeOK /\ PoolRefs /\ SpawnRefs /\ ConnRefs /\ spawn[i] \in SpawnType
  BY DEF IInv, Refs, TypeOK
<1>1. q \in SpawnType /\ q.pc = "install" /\ q.key = spawn[i].key /\ q.e = spawn[i].e
  BY <1>0 DEF SpawnType, SpawnPC
<1>2. spawn' = [spawn EXCEPT ![i] = q] /\ spawn[i].pc = "connect"
      /\ conn' = [conn EXCEPT ![i] = "live"]
      /\ UNCHANGED <<entries, orphans, spawning, pending, broken, closed, entry, caller, def, now>>
  BY DEF ConnectOk, poolVars
<1>3. /\ spawn' \in [Id -> SpawnType]
      /\ spawn'[i] = q
      /\ \A j \in Id \ {i} : spawn'[j] = spawn[j]
  BY <1>0, <1>1, <1>2, SpawnUpdate
<1>4. /\ conn' \in [Id -> {"none", "live", "closing", "dead"}]
      /\ conn'[i] = "live" /\ \A j \in Id \ {i} : conn'[j] = conn[j]
  BY <1>0, <1>2 DEF TypeOK
<1>5. CallerRefs' /\ CountersExact'
  BY <1>1, <1>2, SpawnMove DEF Ended
<1>6. TypeOK'
  BY <1>0, <1>2, <1>3, <1>4 DEF TypeOK
<1>7. PoolRefs'
  <2>1. \A j \in Id : Installed(j) => Installed(j)'
    BY <1>2, <1>3 DEF Installed, Ended
  <2>2. \A k \in Keys : entries'[k] # None =>
          Installed(entries[k])' /\ spawn'[entries'[k]].key = k
    BY <1>0, <1>1, <1>2, <1>3, <2>1 DEF PoolRefs, TypeOK
  <2>3. \A j \in orphans' : Installed(j)'
    BY <1>0, <1>2, <2>1 DEF PoolRefs, TypeOK
  <2>4. \A k \in Keys : spawning'[k] # None =>
          /\ spawn'[spawning'[k]].key = k
          /\ spawn'[spawning'[k]].pc \in Reserving \cup {"unmap"}
    BY <1>0, <1>1, <1>2, <1>3 DEF PoolRefs, TypeOK, Reserving
  <2>5. QED
    BY <1>2, <2>2, <2>3, <2>4 DEF PoolRefs, Installed
<1>8. SpawnRefs'
  BY <1>0, <1>1, <1>2, <1>3 DEF SpawnRefs, Reserving, Ended
<1>9. ConnRefs'
  BY <1>0, <1>1, <1>2, <1>3, <1>4 DEF ConnRefs, Pooled
<1>10. QED
  BY <1>5, <1>6, <1>7, <1>8, <1>9 DEF IInv, Refs

\* Giving the reservation back keeps pending natural.
LEMMA ReleaseType ==
    ASSUME TypeOK, NEW t \in Tenant, releasePendingLocked(t)
    PROVE  pending' \in [Tenant -> Nat]
BY DEF TypeOK, releasePendingLocked

\* The end of a spawn that installs nothing.
LEMMA FruitlessSteps ==
    ASSUME IInv, NEW i \in Id, releasePending(i) \/ DiscardSpawn(i)
    PROVE  IInv'
<1>0. TypeOK /\ PoolRefs /\ SpawnRefs /\ ConnRefs /\ spawn[i] \in SpawnType
  BY DEF IInv, Refs, TypeOK
<1>k. spawn[i].pc \in {"unreserve", "install"} /\ spawn[i].key \in Keys /\ spawn[i].key.tenant \in Tenant
  <2>1. spawn[i].pc \in {"unreserve", "install"}
    BY DEF releasePending, DiscardSpawn
  <2>2. QED
    BY <1>0, <2>1, KeysAssumption DEF SpawnRefs
<1>1. PICK q \in SpawnType :
        /\ spawn' = [spawn EXCEPT ![i] = q]
        /\ q.pc = "unmap" /\ q.key = spawn[i].key /\ q.e = spawn[i].e /\ q.err # "none"
  <2>1. CASE releasePending(i)
    <3> DEFINE q == [spawn[i] EXCEPT !.pc = "unmap"]
    <3>1. q \in SpawnType /\ q.pc = "unmap" /\ q.key = spawn[i].key /\ q.e = spawn[i].e
          /\ q.err = spawn[i].err
      BY <1>0 DEF SpawnType, SpawnPC
    <3>2. spawn[i].err # "none" /\ spawn' = [spawn EXCEPT ![i] = q]
      BY <1>0, <2>1 DEF SpawnRefs, releasePending
    <3>3. QED
      BY <3>1, <3>2
  <2>2. CASE DiscardSpawn(i)
    <3> DEFINE x == IF closed THEN "closed" ELSE "retired"
               q == [spawn[i] EXCEPT !.pc = "unmap", !.err = x]
    <3>1. x \in SpawnErr /\ x # "none"
      BY DEF SpawnErr
    <3>2. spawn' = [spawn EXCEPT ![i] = q]
      BY <2>2, Zenon DEF DiscardSpawn
    <3>3. q \in SpawnType /\ q.pc = "unmap" /\ q.key = spawn[i].key /\ q.e = spawn[i].e
          /\ q.err # "none"
      <4> HIDE DEF x
      <4>1. QED
        BY <1>0, <3>1 DEF SpawnType, SpawnPC
    <3>4. QED
      BY <3>2, <3>3
  <2>3. QED
    BY <2>1, <2>2
<1>2. UNCHANGED <<entries, orphans, spawning, broken, closed, entry, caller, def, now>>
  BY DEF releasePending, DiscardSpawn
<1>3. pending' \in [Tenant -> Nat]
  BY <1>0, <1>k, ReleaseType DEF releasePending, DiscardSpawn
<1>4. /\ conn' \in [Id -> {"none", "live", "closing", "dead"}]
      /\ conn'[i] # "live" /\ \A j \in Id \ {i} : conn'[j] = conn[j]
  <2>0. i \notin Pooled
    BY <1>k, PooledInstalled DEF Installed, Ended
  <2>1. CASE releasePending(i)
    BY <1>0, <2>0, <2>1 DEF releasePending, ConnRefs, TypeOK
  <2>2. CASE DiscardSpawn(i)
    BY <1>0, <2>2, ClosedByShape DEF DiscardSpawn
  <2>3. QED
    BY <2>1, <2>2
<1>5. /\ spawn' \in [Id -> SpawnType]
      /\ spawn'[i] = q
      /\ \A j \in Id \ {i} : spawn'[j] = spawn[j]
  BY <1>0, <1>1, SpawnUpdate
<1>6. CallerRefs' /\ CountersExact'
  BY <1>k, <1>1, <1>2, SpawnMove DEF Ended
<1>7. TypeOK'
  BY <1>0, <1>2, <1>3, <1>4, <1>5 DEF TypeOK
<1>8. PoolRefs'
  <2>1. \A j \in Id : Installed(j) => Installed(j)'
    BY <1>k, <1>5 DEF Installed, Ended
  <2>2. \A k \in Keys : entries'[k] # None =>
          Installed(entries[k])' /\ spawn'[entries'[k]].key = k
    BY <1>0, <1>1, <1>2, <1>5, <2>1 DEF PoolRefs, TypeOK
  <2>3. \A j \in orphans' : Installed(j)'
    BY <1>0, <1>2, <2>1 DEF PoolRefs, TypeOK
  <2>4. \A k \in Keys : spawning'[k] # None =>
          /\ spawn'[spawning'[k]].key = k
          /\ spawn'[spawning'[k]].pc \in Reserving \cup {"unmap"}
    BY <1>0, <1>1, <1>2, <1>5 DEF PoolRefs, TypeOK
  <2>5. QED
    BY <1>2, <2>2, <2>3, <2>4 DEF PoolRefs, Installed
<1>9. SpawnRefs'
  BY <1>0, <1>k, <1>1, <1>2, <1>5 DEF SpawnRefs, Reserving, Ended
<1>10. ConnRefs'
  BY <1>0, <1>1, <1>2, <1>4, <1>5 DEF ConnRefs, Pooled
<1>11. QED
  BY <1>6, <1>7, <1>8, <1>9, <1>10 DEF IInv, Refs

\* The installing section: the place is free, so the entry is the spawn's own.
LEMMA InstallStep ==
    ASSUME IInv, NEW i \in Id, InstallSpawn(i)
    PROVE  IInv'
<1> DEFINE k == spawn[i].key
           q == [spawn[i] EXCEPT !.pc = "unmap", !.e = i]
<1>0. TypeOK /\ PoolRefs /\ SpawnRefs /\ ConnRefs /\ spawn[i] \in SpawnType
  BY DEF IInv, Refs, TypeOK
<1>k. /\ spawn[i].pc = "install" /\ k \in Keys /\ k.tenant \in Tenant
      /\ entries[k] = None /\ spawning[k] = i /\ conn[i] = "live" /\ i # None
  <2>1. spawn[i].pc = "install"
    BY DEF InstallSpawn
  <2>2. QED
    BY <1>0, <2>1, KeysAssumption, NoneAssumption DEF SpawnRefs, Reserving, ConnRefs
<1>1. /\ spawn' = [spawn EXCEPT ![i] = q]
      /\ entries' = [entries EXCEPT ![k] = i]
      /\ conn' = ClosedBy({})
      /\ broken' = [broken EXCEPT ![k] = [fails |-> 0, open |-> FALSE]]
      /\ releasePendingLocked(k.tenant)
      /\ UNCHANGED <<orphans, spawning, closed, entry, caller, def, now>>
  BY <1>k, Zenon DEF InstallSpawn
<1>2. q \in SpawnType /\ q.pc = "unmap" /\ q.key = k /\ q.e = i
  BY <1>0 DEF SpawnType, SpawnPC
<1>3. /\ spawn' \in [Id -> SpawnType]
      /\ spawn'[i] = q
      /\ \A j \in Id \ {i} : spawn'[j] = spawn[j]
  BY <1>0, <1>1, <1>2, SpawnUpdate
<1>4. conn' \in [Id -> {"none", "live", "closing", "dead"}] /\ \A j \in Id : conn'[j] = conn[j]
  BY <1>0, <1>1, ClosedByShape
<1>5. /\ entries' \in [Keys -> Id \cup {None}]
      /\ \A h \in Keys : entries'[h] = IF h = k THEN i ELSE entries[h]
  BY <1>0, <1>1, <1>k DEF TypeOK
<1>6. CallerRefs' /\ CountersExact'
  BY <1>k, <1>1, <1>2, SpawnMove DEF Ended
<1>7. TypeOK'
  <2>1. pending' \in [Tenant -> Nat]
    BY <1>0, <1>k, <1>1, ReleaseType
  <2>2. broken' \in [Keys -> [fails : 0..BreakerThreshold, open : BOOLEAN]]
    <3>1. [fails |-> 0, open |-> FALSE] \in [fails : 0..BreakerThreshold, open : BOOLEAN]
      BY BoundsAssumption
    <3>2. QED
      BY <1>0, <1>1, <3>1 DEF TypeOK
  <2>3. QED
    BY <1>0, <1>1, <1>3, <1>4, <1>5, <2>1, <2>2 DEF TypeOK
<1>8. PoolRefs'
  <2>1. \A j \in Id : Installed(j) => Installed(j)' /\ j # i
    BY <1>k, <1>3 DEF Installed, Ended
  <2>2. Installed(i)' /\ spawn'[i].key = k
    BY <1>2, <1>3 DEF Installed, Ended
  <2>3. \A h \in Keys : entries'[h] # None =>
          /\ spawn'[entries'[h]].pc \in Ended /\ spawn'[entries'[h]].e = entries'[h]
          /\ spawn'[entries'[h]].key = h
    <3>1. ASSUME NEW h \in Keys, h # k, entries'[h] # None
          PROVE  spawn'[entries'[h]].pc \in Ended /\ spawn'[entries'[h]].e = entries'[h]
                 /\ spawn'[entries'[h]].key = h
      <4>1. entries'[h] = entries[h] /\ entries[h] \in Id /\ Installed(entries[h])
            /\ spawn[entries[h]].key = h
        BY <1>0, <1>5, <3>1 DEF PoolRefs, TypeOK
      <4>2. entries[h] # i
        BY <2>1, <4>1
      <4>3. QED
        BY <1>3, <4>1, <4>2 DEF Installed
    <3>2. spawn'[entries'[k]].pc \in Ended /\ spawn'[entries'[k]].e = entries'[k]
          /\ spawn'[entries'[k]].key = k
      BY <1>k, <1>2, <1>3, <1>5 DEF Ended
    <3>3. QED
      BY <3>1, <3>2
  <2>4. \A j \in orphans' : Installed(j)'
    BY <1>0, <1>1, <2>1 DEF PoolRefs, TypeOK
  <2>5. \A h \in Keys : spawning'[h] # None =>
          /\ spawn'[spawning'[h]].key = h
          /\ spawn'[spawning'[h]].pc \in Reserving \cup {"unmap"}
    BY <1>0, <1>1, <1>2, <1>3 DEF PoolRefs, TypeOK
  <2>6. QED
    BY <2>3, <2>4, <2>5 DEF PoolRefs, Installed
<1>9. SpawnRefs'
  <2>1. ASSUME NEW j \in Id \ {i}, spawn[j].pc \in Reserving
        PROVE  entries'[spawn[j].key] = None
    <3>1. spawn[j].key \in Keys /\ spawning[spawn[j].key] = j /\ entries[spawn[j].key] = None
      BY <1>0, <2>1 DEF SpawnRefs, Reserving
    <3>2. spawn[j].key # k
      BY <1>k, <3>1
    <3>3. QED
      BY <1>5, <3>1, <3>2
  <2>2. QED
    BY <1>0, <1>k, <1>1, <1>2, <1>3, <2>1 DEF SpawnRefs, Reserving, Ended
<1>10. ConnRefs'
  <2>1. Pooled \subseteq Pooled' /\ i \in Pooled'
    <3>1. \A h \in Keys : entries[h] # None => entries'[h] = entries[h]
      BY <1>k, <1>5
    <3>2. entries'[k] = i
      BY <1>k, <1>5
    <3>3. QED
      BY <1>k, <1>1, <3>1, <3>2 DEF Pooled
  <2>2. QED
    BY <1>0, <1>2, <1>3, <1>4, <2>1 DEF ConnRefs
<1>11. QED
  BY <1>6, <1>7, <1>8, <1>9, <1>10 DEF IInv, Refs

\* The two last steps of runSpawn.
LEMMA EndingSteps ==
    ASSUME IInv, NEW i \in Id, UnmapSpawn(i) \/ SignalDone(i)
    PROVE  IInv'
<1>0. TypeOK /\ PoolRefs /\ SpawnRefs /\ ConnRefs /\ spawn[i] \in SpawnType
  BY DEF IInv, Refs, TypeOK
<1> DEFINE k == spawn[i].key
<1>k. spawn[i].pc \in {"unmap", "signal"} /\ k \in Keys
  <2>1. spawn[i].pc \in {"unmap", "signal"}
    BY DEF UnmapSpawn, SignalDone
  <2>2. QED
    BY <1>0, <2>1 DEF SpawnRefs
<1>1. PICK q \in SpawnType :
        /\ spawn' = [spawn EXCEPT ![i] = q]
        /\ q.pc \in {"signal", "done"} /\ q.key = k /\ q.e = spawn[i].e /\ q.err = spawn[i].err
  <2>1. CASE UnmapSpawn(i)
    <3> DEFINE q == [spawn[i] EXCEPT !.pc = "signal"]
    <3>1. q \in SpawnType /\ q.pc = "signal" /\ q.key = k /\ q.e = spawn[i].e /\ q.err = spawn[i].err
      BY <1>0 DEF SpawnType, SpawnPC
    <3>2. QED
      BY <2>1, <3>1 DEF UnmapSpawn
  <2>2. CASE SignalDone(i)
    <3> DEFINE q == [spawn[i] EXCEPT !.pc = "done"]
    <3>1. q \in SpawnType /\ q.pc = "done" /\ q.key = k /\ q.e = spawn[i].e /\ q.err = spawn[i].err
      BY <1>0 DEF SpawnType, SpawnPC
    <3>2. QED
      BY <2>2, <3>1 DEF SignalDone
  <2>3. QED
    BY <2>1, <2>2
<1>2. UNCHANGED <<entries, orphans, pending, broken, closed, entry, conn, caller, def, now>>
  BY DEF UnmapSpawn, SignalDone, poolVars
<1>3. /\ spawn' \in [Id -> SpawnType]
      /\ spawn'[i] = q
      /\ \A j \in Id \ {i} : spawn'[j] = spawn[j]
  BY <1>0, <1>1, SpawnUpdate
<1>4. /\ spawning' \in [Keys -> Id \cup {None}]
      /\ \A h \in Keys : spawning'[h] = spawning[h] \/ (spawning[h] = i /\ spawning'[h] = None)
      /\ \A h \in Keys : spawning'[h] # i
  <2>1. \A h \in Keys : spawning[h] = i => h = k /\ spawn[i].pc = "unmap"
    BY <1>0, <1>k, NoneAssumption DEF PoolRefs, Reserving
  <2>2. CASE UnmapSpawn(i)
    <3>1. \A h \in Keys : spawning'[h] = IF h = k /\ spawning[h] = i THEN None ELSE spawning[h]
      BY <1>0, <1>k, <2>2 DEF UnmapSpawn, TypeOK
    <3>2. spawning' \in [Keys -> Id \cup {None}]
      BY <1>0, <1>k, <2>2 DEF UnmapSpawn, TypeOK
    <3>3. QED
      BY <2>1, <3>1, <3>2, NoneAssumption
  <2>3. CASE SignalDone(i)
    BY <1>0, <2>1, <2>3 DEF SignalDone, poolVars, TypeOK
  <2>4. QED
    BY <2>2, <2>3
<1>5. CallerRefs' /\ CountersExact'
  BY <1>k, <1>1, <1>2, SpawnMove DEF Ended
<1>6. TypeOK'
  BY <1>0, <1>2, <1>3, <1>4 DEF TypeOK
<1>7. PoolRefs'
  <2>1. \A j \in Id : Installed(j) => Installed(j)' /\ spawn'[j].key = spawn[j].key
    BY <1>1, <1>3 DEF Installed, Ended
  <2>2. \A h \in Keys : entries'[h] # None =>
          Installed(entries[h])' /\ spawn'[entries'[h]].key = h
    BY <1>0, <1>2, <2>1 DEF PoolRefs, TypeOK
  <2>3. \A j \in orphans' : Installed(j)'
    BY <1>0, <1>2, <2>1 DEF PoolRefs, TypeOK
  <2>4. \A h \in Keys : spawning'[h] # None =>
          /\ spawn'[spawning'[h]].key = h
          /\ spawn'[spawning'[h]].pc \in Reserving \cup {"unmap"}
    BY <1>0, <1>3, <1>4 DEF PoolRefs, TypeOK
  <2>5. QED
    BY <1>2, <2>2, <2>3, <2>4 DEF PoolRefs, Installed
<1>8. SpawnRefs'
  <2>1. ASSUME NEW j \in Id \ {i}, spawn[j].pc \in Reserving \cup {"unmap"}
        PROVE  spawning'[spawn[j].key] = j
    BY <1>0, <1>4, <2>1 DEF SpawnRefs, Reserving
  <2>2. QED
    BY <1>0, <1>k, <1>1, <1>2, <1>3, <2>1 DEF SpawnRefs, Reserving, Ended
<1>9. ConnRefs'
  BY <1>0, <1>k, <1>1, <1>2, <1>3 DEF ConnRefs, Pooled
<1>10. QED
  BY <1>5, <1>6, <1>7, <1>8, <1>9 DEF IInv, Refs

-----------------------------------------------------------------------------
(* The environment, and the invariant *)

\* Connections die, deadlines pass, time goes by: no reference moves.
LEMMA EnvSteps ==
    ASSUME IInv, NEW i \in Id, EnvStep(i)
    PROVE  IInv'
<1>0. TypeOK /\ CountersExact /\ CallerRefs /\ PoolRefs /\ SpawnRefs /\ ConnRefs
  BY DEF IInv, Refs
<1>1. CASE ConnDies(i) \/ CloseDone(i)
  <2>1. conn' = [conn EXCEPT ![i] = "dead"] /\ UNCHANGED <<poolVars, spawn, entry, caller, def, now>>
        /\ (conn[i] = "closing" \/ (conn[i] = "live" /\ spawn[i].e = i))
    BY <1>1 DEF ConnDies, CloseDone, HasMux
  <2>2. UNCHANGED <<entries, orphans, spawning, pending, broken, closed, spawn, entry, caller, def, now>>
    BY <2>1 DEF poolVars
  <2>3. conn' \in [Id -> {"none", "live", "closing", "dead"}]
        /\ conn'[i] = "dead" /\ \A j \in Id \ {i} : conn'[j] = conn[j]
    BY <1>0, <2>1 DEF TypeOK
  <2>4. TypeOK'
    BY <1>0, <2>2, <2>3 DEF TypeOK
  <2>5. CallerRefs' /\ PoolRefs' /\ SpawnRefs'
    BY <1>0, <2>2 DEF CallerRefs, CallerRef, PoolRefs, Installed, SpawnRefs
  <2>6. CountersExact'
    BY <1>0, <2>2, CountersFrame
  <2>7. ConnRefs'
    <3>1. spawn[i].pc # "install"
      BY <1>0, <2>1 DEF ConnRefs, SpawnRefs, Ended
    <3>2. Pooled' = Pooled
      BY <2>2 DEF Pooled
    <3>3. QED
      BY <1>0, <2>2, <2>3, <3>1, <3>2 DEF ConnRefs
  <2>8. QED
    BY <2>4, <2>5, <2>6, <2>7 DEF IInv, Refs
<1>2. CASE DeadlinePasses(i) \/ GoesIdle(i)
  <2>1. UNCHANGED <<entries, orphans, spawning, pending, broken, closed, spawn, conn, caller, def, now>>
    BY <1>2 DEF DeadlinePasses, GoesIdle, poolVars
  <2>2. PICK q \in EntryType :
          /\ entry' = [entry EXCEPT ![i] = q]
          /\ q.waiters = entry[i].waiters /\ q.inflight = entry[i].inflight
          /\ q.slots = entry[i].slots
    <3>0. entry[i] \in EntryType
      BY <1>0 DEF TypeOK
    <3>1. CASE DeadlinePasses(i)
      <4> DEFINE q == [entry[i] EXCEPT !.expired = TRUE]
      <4>1. q \in EntryType
        BY <3>0 DEF EntryType
      <4>2. q.waiters = entry[i].waiters /\ q.inflight = entry[i].inflight /\ q.slots = entry[i].slots
        BY <3>0 DEF EntryType
      <4>3. entry' = [entry EXCEPT ![i] = q]
        BY <3>1, Zenon DEF DeadlinePasses
      <4>4. QED
        BY <4>1, <4>2, <4>3
    <3>2. CASE GoesIdle(i)
      <4> DEFINE q == [entry[i] EXCEPT !.idle = TRUE]
      <4>1. q \in EntryType
        BY <3>0 DEF EntryType
      <4>2. q.waiters = entry[i].waiters /\ q.inflight = entry[i].inflight /\ q.slots = entry[i].slots
        BY <3>0 DEF EntryType
      <4>3. entry' = [entry EXCEPT ![i] = q]
        BY <3>2, Zenon DEF GoesIdle
      <4>4. QED
        BY <4>1, <4>2, <4>3
    <3>3. QED
      BY <1>2, <3>1, <3>2
  <2>3. entry' \in [Id -> EntryType] /\ entry'[i] = q /\ \A j \in Id \ {i} : entry'[j] = entry[j]
    BY <1>0, <2>2 DEF TypeOK
  <2>4. TypeOK'
    BY <1>0, <2>1, <2>3 DEF TypeOK
  <2>5. CallerRefs' /\ PoolRefs' /\ SpawnRefs'
    BY <1>0, <2>1 DEF CallerRefs, CallerRef, PoolRefs, Installed, SpawnRefs
  <2>6. ConnRefs'
    BY <1>0, <2>1 DEF ConnRefs, Pooled
  <2>7. CountersExact'
    <3>1. \A j \in Id : /\ entry'[j].waiters = entry[j].waiters
                        /\ entry'[j].inflight = entry[j].inflight
                        /\ entry'[j].slots = entry[j].slots
      BY <2>2, <2>3
    <3>2. \A j \in Id : Waiting(j)' = Waiting(j) /\ InFlight(j)' = InFlight(j) /\ Holding(j)' = Holding(j)
      BY <2>1 DEF Waiting, InFlight, Holding
    <3>3. QED
      BY <1>0, <3>1, <3>2 DEF CountersExact
  <2>8. QED
    BY <2>4, <2>5, <2>6, <2>7 DEF IInv, Refs
<1>3. QED
  BY <1>1, <1>2 DEF EnvStep

\* Breakers cool down, the clock advances, nothing happens.
LEMMA ClockSteps ==
    ASSUME IInv, (\E k \in Keys : CooldownEnds(k)) \/ Tick \/ UNCHANGED vars
    PROVE  IInv'
<1>0. TypeOK /\ CountersExact /\ CallerRefs /\ PoolRefs /\ SpawnRefs /\ ConnRefs
  BY DEF IInv, Refs
<1>1. UNCHANGED <<entries, orphans, spawning, pending, closed, spawn, entry, conn, caller, def>>
  BY DEF CooldownEnds, Tick, vars, poolVars
<1>2. broken' \in [Keys -> [fails : 0..BreakerThreshold, open : BOOLEAN]] /\ now' \in Nat
  <2>1. ASSUME NEW k \in Keys, CooldownEnds(k)
        PROVE  broken' \in [Keys -> [fails : 0..BreakerThreshold, open : BOOLEAN]] /\ now' \in Nat
    <3> DEFINE B == [fails : 0..BreakerThreshold, open : BOOLEAN]
               b == [broken[k] EXCEPT !.open = FALSE]
    <3>1. broken \in [Keys -> B] /\ broken[k] \in B
      BY <1>0 DEF TypeOK
    <3>2. b \in B
      BY <3>1
    <3>3. broken' = [broken EXCEPT ![k] = b] /\ now' = now
      BY <2>1, Zenon DEF CooldownEnds
    <3>4. broken' \in [Keys -> B]
      <4> HIDE DEF B, b
      <4>1. QED
        BY <3>1, <3>2, <3>3
    <3>5. QED
      BY <1>0, <3>3, <3>4 DEF TypeOK
  <2>2. CASE Tick
    BY <1>0, <2>2 DEF Tick, poolVars, TypeOK
  <2>3. CASE UNCHANGED vars
    BY <1>0, <2>3 DEF vars, poolVars, TypeOK
  <2>4. QED
    BY <2>1, <2>2, <2>3
<1>3. TypeOK'
  BY <1>0, <1>1, <1>2 DEF TypeOK
<1>4. CallerRefs' /\ PoolRefs' /\ SpawnRefs' /\ ConnRefs'
  BY <1>0, <1>1 DEF CallerRefs, CallerRef, PoolRefs, Installed, SpawnRefs, ConnRefs, Pooled
<1>5. CountersExact'
  BY <1>0, <1>1, CountersFrame
<1>6. QED
  BY <1>3, <1>4, <1>5 DEF IInv, Refs

\* NewPool establishes the invariant.
LEMMA InitInv == Init => IInv
<1> SUFFICES ASSUME Init PROVE IInv
  OBVIOUS
<1>1. TypeOK
  <2>1. [fails |-> 0, open |-> FALSE] \in [fails : 0..BreakerThreshold, open : BOOLEAN]
    BY BoundsAssumption
  <2>2. QED
    BY <2>1, BlankTypes DEF Init, TypeOK
<1>2. CallerRefs
  BY BlankTypes DEF Init, CallerRefs, CallerRef, Settled
<1>3. PoolRefs
  BY DEF Init, PoolRefs
<1>4. SpawnRefs
  <2>1. \A i \in Id : spawn[i].pc = "free" /\ spawn[i].e = None
    BY DEF Init, BlankSpawn
  <2>2. QED
    BY <2>1, NoneAssumption DEF SpawnRefs, Reserving, Ended
<1>5. ConnRefs
  <2>1. \A i \in Id : spawn[i].pc = "free" /\ conn[i] = "none"
    BY DEF Init, BlankSpawn
  <2>2. QED
    BY <2>1 DEF ConnRefs
<1>6. CountersExact
  <2>1. ASSUME NEW i \in Id
        PROVE  Waiting(i) = {} /\ InFlight(i) = {} /\ Holding(i) = {}
    BY BlankTypes DEF Init, Waiting, InFlight, Holding
  <2>2. \A i \in Id : entry[i].waiters = 0 /\ entry[i].inflight = 0 /\ entry[i].slots = 0
    BY BlankTypes DEF Init
  <2>3. 0 <= MaxConcurrent
    BY BoundsAssumption
  <2>4. QED
    BY <2>1, <2>2, <2>3, FS_EmptySet DEF CountersExact
<1>7. QED
  BY <1>1, <1>2, <1>3, <1>4, <1>5, <1>6 DEF IInv, Refs

\* Every step, an eviction at any moment included, preserves the invariant.
LEMMA NextInv == IInv /\ [Next]_vars => IInv'
<1> SUFFICES ASSUME IInv, [Next]_vars PROVE IInv'
  OBVIOUS
<1>1. ASSUME NEW c \in Caller, CallerStep(c) PROVE IInv'
  BY <1>1, QuietSteps, QueueSteps, MissSteps, GetSpawnStep, BusySteps DEF CallerStep
<1>2. ASSUME NEW i \in Id, SpawnStep(i) PROVE IInv'
  BY <1>2, StartingSteps, ConnectOkStep, FruitlessSteps, InstallStep, EndingSteps DEF SpawnStep
<1>3. ASSUME PoolStep PROVE IInv'
  BY <1>1, <1>2, <1>3, CallStep, EnvSteps, ClockSteps, ReapStep, ShutdownStep DEF PoolStep
<1>4. ASSUME NEW s \in Server, NEW date \in 0..now, evictServer(s, date) PROVE IInv'
  BY <1>4, EvictStep
<1>5. CASE Tick \/ UNCHANGED vars
  BY <1>5, ClockSteps
<1>6. QED
  BY <1>3, <1>4, <1>5 DEF Next

\* pool.go: the invariant holds whatever callers, spawns, the reaper,
\* evictions and Shutdown do and in whatever order.
THEOREM PoolInvariant == Spec => []IInv
  BY InitInv, NextInv, PTL DEF Spec

\* The maps stay total and no counter goes below zero.
THEOREM TypeCorrect == Spec => []TypeOK
<1>1. IInv => TypeOK
  BY DEF IInv
<1>2. QED
  BY <1>1, PoolInvariant, PTL

\* An entry's counters are the callers they stand for: no semaphore slot is
\* lost and none is handed out twice, for any number of callers.
THEOREM CountersAreExact == Spec => []CountersExact
<1>1. IInv => CountersExact
  BY DEF IInv
<1>2. QED
  BY <1>1, PoolInvariant, PTL

\* A key has one backend starting at most, and no entry while it has one: the
\* branch of spawnEntry that finds its place taken is never reached.
THEOREM SpawnsAreExclusive == Spec => []SpawnExclusive
<1>1. IInv => SpawnExclusive
  BY DEF IInv, Refs, SpawnRefs, SpawnExclusive
<1>2. QED
  BY <1>1, PoolInvariant, PTL

\* No connection escapes the pool: a live one is about to be installed, mapped
\* or orphaned.
THEOREM NoConnLeaks == Spec => []NoLeakedConn
<1>1. IInv => NoLeakedConn
  BY DEF IInv, Refs, ConnRefs, NoLeakedConn
<1>2. QED
  BY <1>1, PoolInvariant, PTL

\* A caller never holds an entry of another tenant, server or credential
\* generation.
THEOREM KeysAreIsolated == Spec => []KeyIsolation
<1>1. IInv => KeyIsolation
  BY DEF IInv, Refs, CallerRefs, CallerRef, KeyIsolation
<1>2. QED
  BY <1>1, PoolInvariant, PTL

\* An entry that is not busy has nobody running or queued on it.
LEMMA NotBusyMeansNoWork ==
    ASSUME IInv, NEW i \in Id, ~busyLocked(i)
    PROVE  Waiting(i) \cup InFlight(i) = {}
<1>1. entry[i] \in EntryType /\ entry[i].waiters = Cardinality(Waiting(i))
      /\ entry[i].inflight = Cardinality(InFlight(i))
  BY DEF IInv, CountersExact, TypeOK
<1>2. entry[i].waiters = 0 /\ entry[i].inflight = 0
  BY <1>1 DEF busyLocked, EntryType
<1>3. IsFiniteSet(Waiting(i)) /\ IsFiniteSet(InFlight(i))
  BY FiniteAssumption, FS_Subset DEF Waiting, InFlight
<1>4. QED
  BY <1>1, <1>2, <1>3, FS_EmptySet

\* Replacing an entry, and the rotation that comes with it, closes idle ones.
LEMMA ReplaceSparesWork ==
    ASSUME IInv, NEW k \in Keys, Replace(k), NEW i \in Id,
           conn[i] = "live", conn'[i] = "closing"
    PROVE  Waiting(i) \cup InFlight(i) = {}
<1> DEFINE own  == IF entries[k] = None THEN {} ELSE {entries[k]}
           busy == {j \in own : ~Dead(j) /\ busyLocked(j)}
           gone == [entries EXCEPT ![k] = None]
           sup  == Superseded(k, gone)
<1>0. TypeOK
  BY DEF IInv
<1>1. conn' = ClosedBy((own \ busy) \cup {entries[j] : j \in sup})
  BY DEF Replace
<1>2. i \in (own \ busy) \cup {entries[j] : j \in sup}
  <2> HIDE DEF own, busy, sup
  <2>1. QED
    BY <1>0, <1>1, ClosedByShape
<1>3. CASE i \in own \ busy
  BY <1>3, NotBusyMeansNoWork DEF Dead
<1>4. ASSUME NEW j \in sup, i = entries[j] PROVE ~busyLocked(i)
  <2>1. j \in Keys /\ gone[j] # None /\ ~busyLocked(gone[j])
    BY DEF Superseded
  <2>2. gone[j] = entries[j]
    BY <1>0, <2>1 DEF TypeOK
  <2>3. QED
    BY <1>4, <2>1, <2>2
<1>5. QED
  BY <1>2, <1>3, <1>4, NotBusyMeansNoWork

\* The reaper closes entries and orphans that are dead or have no work.
LEMMA ReapSparesWork ==
    ASSUME IInv, reap, NEW i \in Id, conn[i] = "live", conn'[i] = "closing"
    PROVE  Waiting(i) \cup InFlight(i) = {}
<1> DEFINE victims == {k \in Keys : entries[k] # None /\ Reapable(entries[k])}
           drained == {j \in orphans : Drained(j)}
<1>1. conn' = ClosedBy({entries[k] : k \in victims} \cup drained) /\ TypeOK
  BY DEF reap, IInv
<1>2. i \in {entries[k] : k \in victims} \cup drained
  <2> HIDE DEF victims, drained
  <2>1. QED
    BY <1>1, ClosedByShape
<1>3. ~busyLocked(i)
  BY <1>2 DEF Reapable, Drained, Dead
<1>4. QED
  BY <1>3, NotBusyMeansNoWork

\* A spawn in its installing section has no callers on what it built.
LEMMA InstallingHasNoWork ==
    ASSUME IInv, NEW i \in Id, spawn[i].pc = "install"
    PROVE  Waiting(i) \cup InFlight(i) = {}
BY DEF IInv, Refs, CallerRefs, CallerRef, Settled, Ended, Waiting, InFlight

\* Ageing, idleness, rotation and replacement never close a connection that
\* has calls running or queued on it; only an eviction and Shutdown do.
THEOREM AgingSparesWorkHolds == Spec => AgingSparesWork
<1> DEFINE Evicts == Shutdown \/ \E s \in Server : \E date \in 0..now : evictServer(s, date)
<1>1. IInv /\ [Next]_vars
      => [\A i \in Id :
            conn[i] = "live" /\ conn'[i] = "closing" /\ Waiting(i) \cup InFlight(i) # {}
            => Shutdown \/ \E s \in Server : \E date \in 0..now : evictServer(s, date)]_vars
  <2> SUFFICES ASSUME IInv, Next, ~Evicts, NEW i \in Id, conn[i] = "live", conn'[i] = "closing"
               PROVE  Waiting(i) \cup InFlight(i) = {}
    OBVIOUS
  <2>0. TypeOK
    BY DEF IInv
  <2>1. CASE UNCHANGED conn
    BY <2>1
  <2>2. ASSUME NEW c \in Caller, Miss(c) PROVE Waiting(i) \cup InFlight(i) = {}
    <3>1. caller[c].key \in Keys /\ Replace(caller[c].key)
      BY <2>2, Facts DEF Miss, CallerRef
    <3>2. QED
      BY <3>1, ReplaceSparesWork
  <2>3. ASSUME NEW c \in Caller, CallerStep(c) PROVE UNCHANGED conn \/ Miss(c)
    BY <2>3 DEF CallerStep, GetClosed, GetHit, GetCircuitOpen, GetAttach, GetAtCap, GetSpawn,
                SpawnFailed, SpawnRetired, SpawnReady, AbandonSpawn, JoinSpawned, JoinTooLate,
                AcquireSlot, CancelSlot, LeaveQueue, StartCall, StartTooLate, Backout,
                ReleaseSlot, ReleaseEntry
  <2>4. ASSUME NEW j \in Id, ConnectOk(j) \/ ConnDies(j) \/ CloseDone(j) PROVE FALSE
    <3>1. conn' \in {[conn EXCEPT ![j] = "live"], [conn EXCEPT ![j] = "dead"]}
      BY <2>4 DEF ConnectOk, ConnDies, CloseDone
    <3>2. QED
      BY <2>0, <3>1 DEF TypeOK
  <2>5. ASSUME NEW j \in Id, DiscardSpawn(j) \/ InstallSpawn(j)
        PROVE  Waiting(i) \cup InFlight(i) = {}
    <3>1. spawn[j].pc = "install" /\ \E S \in SUBSET {j} : conn' = ClosedBy(S)
      BY <2>5 DEF DiscardSpawn, InstallSpawn
    <3>2. i = j
      BY <2>0, <3>1, ClosedByShape
    <3>3. QED
      BY <3>1, <3>2, InstallingHasNoWork
  <2>6. ASSUME NEW j \in Id, SpawnStep(j) \/ EnvStep(j)
        PROVE  \/ UNCHANGED conn
               \/ ConnectOk(j) \/ ConnDies(j) \/ CloseDone(j)
               \/ DiscardSpawn(j) \/ InstallSpawn(j)
    BY <2>6 DEF SpawnStep, EnvStep, FactoryOk, FactoryErr, Stamp, ConnectErr, recordFailure,
                releasePending, UnmapSpawn, SignalDone, DeadlinePasses, GoesIdle
  <2>7. CASE reap
    BY <2>7, ReapSparesWork
  <2>8. CASE Tick \/ (\E c \in Caller, k \in Keys : Call(c, k)) \/ \E k \in Keys : CooldownEnds(k)
    BY <2>8, <2>1 DEF Tick, Call, CooldownEnds
  <2>9. QED
    BY <2>1, <2>2, <2>3, <2>4, <2>5, <2>6, <2>7, <2>8 DEF Next, PoolStep
<1>2. QED
  BY <1>1, PoolInvariant, PTL DEF Spec, AgingSparesWork

-----------------------------------------------------------------------------
(* The per-tenant cap *)

\* The two sets tenantCountLocked counts, beside the reservations.
MappedIn(t, ents) == {k \in Keys : k.tenant = t /\ ents[k] # None /\ ~Dead(ents[k])}
DrainingIn(t, orphs) == {i \in orphs : spawn[i].key.tenant = t /\ ~Dead(i)}

\* What a tenant has serving and draining, its reservations left out.
Occupied(t, ents, orphs) ==
    Cardinality(MappedIn(t, ents)) + Cardinality(DrainingIn(t, orphs))

\* The cap, split into its two halves.
LEMMA CapParts ==
    CapRespected <=> \A t \in Tenant : /\ pending[t] = Cardinality(Reserved(t))
                                       /\ Occupied(t, entries, orphans) + pending[t] <= MaxProcsPerTenant
BY DEF CapRespected, tenantCountLocked, Occupied, MappedIn, DrainingIn

\* A subset of a finite set is no larger.
LEMMA NoLarger ==
    ASSUME NEW S, NEW T, IsFiniteSet(S), T \subseteq S
    PROVE  IsFiniteSet(T) /\ Cardinality(T) \in Nat /\ Cardinality(S) \in Nat
           /\ Cardinality(T) <= Cardinality(S)
BY FS_Subset, FS_CardinalityType

\* The counted sets are finite, whichever of the pool's maps they are read in.
LEMMA CountedFinite ==
    ASSUME NEW t, NEW ents, NEW orphs \in SUBSET Id
    PROVE  /\ IsFiniteSet(MappedIn(t, ents)) /\ IsFiniteSet(DrainingIn(t, orphs))
           /\ Cardinality(MappedIn(t, ents)) \in Nat
           /\ Cardinality(DrainingIn(t, orphs)) \in Nat
           /\ Occupied(t, ents, orphs) \in Nat
<1>1. IsFiniteSet(MappedIn(t, ents)) /\ IsFiniteSet(DrainingIn(t, orphs))
  BY FiniteAssumption, FS_Subset DEF MappedIn, DrainingIn
<1>2. Cardinality(MappedIn(t, ents)) \in Nat /\ Cardinality(DrainingIn(t, orphs)) \in Nat
  BY <1>1, FS_CardinalityType
<1>3. QED
  BY <1>1, <1>2 DEF Occupied

\* Smaller sets, smaller count.
LEMMA FewerOccupied ==
    ASSUME NEW t, NEW ents, NEW orphs \in SUBSET Id, TypeOK,
           MappedIn(t, ents) \subseteq MappedIn(t, entries),
           DrainingIn(t, orphs) \subseteq DrainingIn(t, orphans)
    PROVE  Occupied(t, ents, orphs) <= Occupied(t, entries, orphans)
<1>1. orphans \in SUBSET Id
  BY DEF TypeOK
<1>2. /\ IsFiniteSet(MappedIn(t, entries)) /\ IsFiniteSet(DrainingIn(t, orphans))
      /\ Cardinality(MappedIn(t, entries)) \in Nat
      /\ Cardinality(DrainingIn(t, orphans)) \in Nat
  BY <1>1, CountedFinite
<1>3. Cardinality(MappedIn(t, ents)) \in Nat /\ Cardinality(DrainingIn(t, orphs)) \in Nat
  BY CountedFinite
<1>4. Cardinality(MappedIn(t, ents)) <= Cardinality(MappedIn(t, entries))
  BY <1>2, NoLarger
<1>5. Cardinality(DrainingIn(t, orphs)) <= Cardinality(DrainingIn(t, orphans))
  BY <1>2, NoLarger
<1>6. QED
  BY <1>2, <1>3, <1>4, <1>5 DEF Occupied

\* Closing connections leaves the dead ones dead and kills none at once.
LEMMA ClosingSparesDead ==
    ASSUME TypeOK, NEW S, conn' = ClosedBy(S), NEW i \in Id
    PROVE  Dead(i)' <=> Dead(i)
BY ClosedByShape DEF Dead

\* When no connection dies or comes to life and no orphan's key changes, the
\* next state's count is this state's count of the next state's maps.
LEMMA SameDead ==
    ASSUME IInv, IInv', NEW t,
           \A i \in Id : Dead(i)' <=> Dead(i),
           \A i \in orphans' : spawn'[i].key = spawn[i].key
    PROVE  Occupied(t, entries, orphans)' = Occupied(t, entries', orphans')
<1>1. entries' \in [Keys -> Id \cup {None}] /\ orphans' \in SUBSET Id
  BY DEF IInv, TypeOK
<1>2. MappedIn(t, entries)' = MappedIn(t, entries')
  <2>1. \A k \in Keys : entries'[k] # None => (Dead(entries[k])' <=> Dead(entries'[k]))
    BY <1>1 DEF Dead
  <2>2. QED
    BY <2>1 DEF MappedIn
<1>3. DrainingIn(t, orphans)' = DrainingIn(t, orphans')
  BY <1>1 DEF DrainingIn
<1>4. QED
  BY <1>2, <1>3 DEF Occupied

\* Steps that leave the reservations alone and let the count at most fall.
LEMMA StillCapped ==
    ASSUME IInv, IInv', CapRespected, UNCHANGED pending,
           \A i \in Id : (spawn'[i].pc \in Reserving <=> spawn[i].pc \in Reserving),
           \A i \in Id : spawn'[i].key = spawn[i].key,
           \A t \in Tenant : Occupied(t, entries, orphans)' <= Occupied(t, entries, orphans)
    PROVE  CapRespected'
<1>1. SUFFICES ASSUME NEW t \in Tenant
               PROVE  /\ pending'[t] = Cardinality(Reserved(t))'
                      /\ Occupied(t, entries, orphans)' + pending'[t] <= MaxProcsPerTenant
  BY DEF CapRespected, tenantCountLocked, Occupied, MappedIn, DrainingIn
<1>2. Reserved(t)' = Reserved(t)
  BY DEF Reserved
<1>3. pending[t] = Cardinality(Reserved(t))
      /\ Occupied(t, entries, orphans) + pending[t] <= MaxProcsPerTenant
  BY CapParts
<1>4. pending[t] \in Nat /\ orphans \in SUBSET Id /\ orphans' \in SUBSET Id
  BY DEF IInv, TypeOK
<1>5. Occupied(t, entries, orphans) \in Nat
  BY <1>4, CountedFinite
<1>6. Occupied(t, entries, orphans)' \in Nat
  <2>1. IsFiniteSet(MappedIn(t, entries)') /\ IsFiniteSet(DrainingIn(t, orphans)')
    BY <1>4, FiniteAssumption, FS_Subset DEF MappedIn, DrainingIn
  <2>2. Cardinality(MappedIn(t, entries)') \in Nat /\ Cardinality(DrainingIn(t, orphans)') \in Nat
    BY <2>1, FS_CardinalityType
  <2>3. QED
    BY <2>2 DEF Occupied
<1>7. Occupied(t, entries, orphans)' <= Occupied(t, entries, orphans)
  OBVIOUS
<1>8. MaxProcsPerTenant \in Nat
  BY BoundsAssumption
<1>9. QED
  BY <1>2, <1>3, <1>4, <1>5, <1>6, <1>7, <1>8

\* A miss: the entry replaced leaves the map before it may join the orphans,
\* so that it is never counted twice, and counting it was right all along.
LEMMA ReplaceKeepsCount ==
    ASSUME IInv, NEW k \in Keys, Replace(k), NEW t \in Tenant
    PROVE  Occupied(t, entries', orphans') <= Occupied(t, entries, orphans)
<1> DEFINE e    == entries[k]
           own  == IF e = None THEN {} ELSE {e}
           busy == {j \in own : ~Dead(j) /\ busyLocked(j)}
           sup  == Superseded(k, [entries EXCEPT ![k] = None])
<1>0. TypeOK /\ PoolRefs
  BY DEF IInv, Refs
<1>1. /\ entries' = [j \in Keys |-> IF j = k \/ j \in sup THEN None ELSE entries[j]]
      /\ orphans' = orphans \cup busy
  BY DEF Replace
<1>2. orphans \in SUBSET Id /\ busy \subseteq Id
  BY <1>0 DEF TypeOK
<1> HIDE DEF sup
<1>3. MappedIn(t, entries') \subseteq MappedIn(t, entries) \ {k}
  BY <1>1 DEF MappedIn
<1>4. orphans' \in SUBSET Id
  BY <1>1, <1>2
<1>5. CASE busy = {} \/ k.tenant # t
  <2>1. DrainingIn(t, orphans') \subseteq DrainingIn(t, orphans)
    <3>1. ASSUME NEW j \in busy PROVE spawn[j].key = k
      BY <1>0, <3>1 DEF PoolRefs
    <3>2. QED
      BY <1>1, <1>5, <3>1 DEF DrainingIn
  <2>2. MappedIn(t, entries') \subseteq MappedIn(t, entries)
    BY <1>3
  <2>3. QED
    BY <1>0, <1>4, <2>1, <2>2, FewerOccupied
<1>6. CASE busy # {} /\ k.tenant = t
  <2>1. busy = {e} /\ e # None /\ e \in Id /\ ~Dead(e)
    BY <1>0, <1>2, <1>6
  <2>2. k \in MappedIn(t, entries)
    BY <1>6, <2>1 DEF MappedIn
  <2>3. /\ IsFiniteSet(MappedIn(t, entries))
        /\ IsFiniteSet(DrainingIn(t, orphans))
        /\ Cardinality(MappedIn(t, entries)) \in Nat
        /\ Cardinality(DrainingIn(t, orphans)) \in Nat
    BY <1>2, CountedFinite
  <2>4. /\ IsFiniteSet(MappedIn(t, entries) \ {k})
        /\ Cardinality(MappedIn(t, entries) \ {k}) = Cardinality(MappedIn(t, entries)) - 1
    BY <2>2, <2>3, FS_RemoveElement
  <2>5. /\ Cardinality(MappedIn(t, entries')) <= Cardinality(MappedIn(t, entries) \ {k})
        /\ Cardinality(MappedIn(t, entries')) \in Nat
    BY <1>3, <2>4, NoLarger
  <2>6. DrainingIn(t, orphans') \subseteq DrainingIn(t, orphans) \cup {e}
    BY <1>1, <2>1 DEF DrainingIn
  <2>7. /\ IsFiniteSet(DrainingIn(t, orphans) \cup {e})
        /\ Cardinality(DrainingIn(t, orphans) \cup {e}) <= Cardinality(DrainingIn(t, orphans)) + 1
        /\ Cardinality(DrainingIn(t, orphans) \cup {e}) \in Nat
    <3>1. /\ IsFiniteSet(DrainingIn(t, orphans) \cup {e})
          /\ Cardinality(DrainingIn(t, orphans) \cup {e}) =
               IF e \in DrainingIn(t, orphans) THEN Cardinality(DrainingIn(t, orphans))
                                              ELSE Cardinality(DrainingIn(t, orphans)) + 1
      BY <2>3, FS_AddElement
    <3>2. QED
      BY <2>3, <3>1
  <2>8. /\ Cardinality(DrainingIn(t, orphans')) <= Cardinality(DrainingIn(t, orphans) \cup {e})
        /\ Cardinality(DrainingIn(t, orphans')) \in Nat
    BY <2>6, <2>7, NoLarger
  <2>9. QED
    BY <2>3, <2>4, <2>5, <2>7, <2>8 DEF Occupied
<1>7. QED
  BY <1>5, <1>6

\* The misses that start nothing.
LEMMA MissCapped ==
    ASSUME IInv, IInv', CapRespected, NEW c \in Caller,
           GetCircuitOpen(c) \/ GetAttach(c) \/ GetAtCap(c)
    PROVE  CapRespected'
<1>1. Miss(c) /\ UNCHANGED <<pending, spawn>>
  BY DEF GetCircuitOpen, GetAttach, GetAtCap
<1>2. caller[c].key \in Keys /\ Replace(caller[c].key) /\ TypeOK
  BY <1>1, Facts DEF Miss, CallerRef
<1>3. \A t \in Tenant : Occupied(t, entries', orphans') <= Occupied(t, entries, orphans)
  BY <1>2, ReplaceKeepsCount
<1>4. \A i \in Id : Dead(i)' <=> Dead(i)
  <2>1. PICK S : conn' = ClosedBy(S)
    BY <1>2 DEF Replace
  <2>2. QED
    BY <1>2, <2>1, ClosingSparesDead
<1>5. \A t \in Tenant : Occupied(t, entries, orphans)' = Occupied(t, entries', orphans')
  BY <1>1, <1>4, SameDead
<1>6. \A t \in Tenant : Occupied(t, entries, orphans)' <= Occupied(t, entries, orphans)
  BY <1>3, <1>5
<1>7. QED
  BY <1>1, <1>6, StillCapped

\* The miss that starts a backend: it was let through below the cap, and
\* takes the reservation it was let through for.
LEMMA GetSpawnCapped ==
    ASSUME IInv, IInv', CapRespected, NEW c \in Caller, NEW i \in Id, GetSpawn(c, i)
    PROVE  CapRespected'
<1> DEFINE k == caller[c].key
           q == [BlankSpawn EXCEPT !.pc = "factory", !.key = k]
<1>0. TypeOK /\ TypeOK' /\ k \in Keys /\ Replace(k) /\ Unused(i)
  BY Facts DEF GetSpawn, Miss, CallerRef, IInv
<1>1. /\ tenantCountLocked(k.tenant, entries', orphans') < MaxProcsPerTenant
      /\ pending' = [pending EXCEPT ![k.tenant] = @ + 1]
      /\ spawn' = [spawn EXCEPT ![i] = q]
  BY DEF GetSpawn
<1>2. q.pc = "factory" /\ q.key = k
  BY DEF BlankSpawn
<1> HIDE DEF q
<1>3. spawn'[i] = q /\ \A j \in Id \ {i} : spawn'[j] = spawn[j]
  BY <1>0, <1>1 DEF TypeOK
<1>4. k.tenant \in Tenant
  BY <1>0, KeysAssumption
<1>5. \A j \in Id : Dead(j)' <=> Dead(j)
  <2>1. PICK S : conn' = ClosedBy(S)
    BY <1>0 DEF Replace
  <2>2. QED
    BY <1>0, <2>1, ClosingSparesDead
<1>6. i \notin orphans'
  <2>1. orphans' \subseteq orphans \cup {entries[k]}
    BY <1>0 DEF Replace
  <2>2. QED
    BY <1>0, <2>1 DEF Unused
<1>7. \A j \in orphans' : spawn'[j].key = spawn[j].key
  BY <1>0, <1>3, <1>6 DEF TypeOK
<1>8. ASSUME NEW t \in Tenant
      PROVE  /\ pending'[t] = Cardinality(Reserved(t))'
             /\ Occupied(t, entries, orphans)' + pending'[t] <= MaxProcsPerTenant
  <2>1. pending[t] = Cardinality(Reserved(t))
        /\ Occupied(t, entries, orphans) + pending[t] <= MaxProcsPerTenant
    BY CapParts
  <2>2. pending[t] \in Nat /\ pending'[t] \in Nat /\ MaxProcsPerTenant \in Nat
    BY <1>0, BoundsAssumption DEF TypeOK
  <2>3. Occupied(t, entries, orphans)' = Occupied(t, entries', orphans')
    BY <1>5, <1>7, SameDead
  <2>4. Occupied(t, entries', orphans') <= Occupied(t, entries, orphans)
    BY <1>0, ReplaceKeepsCount
  <2>5. Occupied(t, entries', orphans') \in Nat /\ Occupied(t, entries, orphans) \in Nat
    <3>1. orphans \in SUBSET Id /\ orphans' \in SUBSET Id
      BY <1>0 DEF TypeOK
    <3>2. QED
      BY <3>1, CountedFinite
  <2>6. /\ \A j : j # i => (j \in Reserved(t) <=> j \in Reserved(t)')
        /\ i \notin Reserved(t)
        /\ i \in Reserved(t)' <=> k.tenant = t
    BY <1>0, <1>2, <1>3 DEF Reserved, Reserving, Unused
  <2>7. IsFiniteSet(Reserved(t))
    BY FiniteAssumption, FS_Subset DEF Reserved
  <2>8. Cardinality(Reserved(t))' = Cardinality(Reserved(t)) + (IF i \in Reserved(t)' THEN 1 ELSE 0)
                                       - (IF i \in Reserved(t) THEN 1 ELSE 0)
        /\ Cardinality(Reserved(t)) \in Nat
    BY <2>6, <2>7, MemberCount
  <2>9. CASE k.tenant = t
    <3>1. pending'[t] = pending[t] + 1
      BY <1>0, <1>1, <1>4, <2>9 DEF TypeOK
    <3>2. Cardinality(Reserved(t))' = Cardinality(Reserved(t)) + 1
      BY <2>6, <2>8, <2>9
    <3>3. Occupied(t, entries', orphans') + pending[t] < MaxProcsPerTenant
      BY <1>1, <2>9 DEF tenantCountLocked, Occupied, MappedIn, DrainingIn
    <3>4. QED
      BY <2>1, <2>2, <2>3, <2>5, <3>1, <3>2, <3>3
  <2>10. CASE k.tenant # t
    <3>1. pending'[t] = pending[t]
      BY <1>0, <1>1, <1>4, <2>10 DEF TypeOK
    <3>2. Cardinality(Reserved(t))' = Cardinality(Reserved(t))
      BY <2>6, <2>8, <2>10
    <3>3. QED
      BY <2>1, <2>2, <2>3, <2>4, <2>5, <3>1, <3>2
  <2>11. QED
    BY <2>9, <2>10
<1>9. QED
  BY <1>8 DEF CapRespected, tenantCountLocked, Occupied, MappedIn, DrainingIn

\* Steps that only take entries and orphans out of the pool, or connections
\* out of service, and move no spawn into or out of its reservation.
LEMMA RetiringCapped ==
    ASSUME IInv, IInv', CapRespected, UNCHANGED pending,
           \A k \in Keys : entries'[k] \in {entries[k], None},
           orphans' \subseteq orphans,
           \A i \in Pooled : Dead(i) => Dead(i)',
           \A i \in Id : (spawn'[i].pc \in Reserving <=> spawn[i].pc \in Reserving),
           \A i \in Id : spawn'[i].key = spawn[i].key
    PROVE  CapRespected'
<1>0. /\ entries \in [Keys -> Id \cup {None}] /\ orphans \in SUBSET Id
      /\ orphans' \in SUBSET Id /\ TypeOK
  BY DEF IInv, TypeOK
<1>1. ASSUME NEW t \in Tenant
      PROVE  Occupied(t, entries, orphans)' <= Occupied(t, entries, orphans)
  <2>1. /\ IsFiniteSet(MappedIn(t, entries)) /\ IsFiniteSet(DrainingIn(t, orphans))
        /\ Cardinality(MappedIn(t, entries)) \in Nat
        /\ Cardinality(DrainingIn(t, orphans)) \in Nat
    BY <1>0, CountedFinite
  <2>2. MappedIn(t, entries)' \subseteq MappedIn(t, entries)
    <3>1. ASSUME NEW k \in MappedIn(t, entries)' PROVE k \in MappedIn(t, entries)
      <4>1. k \in Keys /\ k.tenant = t /\ entries'[k] # None /\ ~(Dead(entries[k])')
        BY <3>1 DEF MappedIn
      <4>2. entries'[k] = entries[k]
        BY <4>1
      <4>3. entries[k] \in Pooled
        BY <4>1, <4>2 DEF Pooled
      <4>4. ~Dead(entries[k])
        BY <4>1, <4>2, <4>3 DEF Dead
      <4>5. QED
        BY <4>1, <4>2, <4>4 DEF MappedIn
    <3>2. QED
      BY <3>1
  <2>3. DrainingIn(t, orphans)' \subseteq DrainingIn(t, orphans)
    <3>1. \A i \in orphans' : i \in Pooled
      BY DEF Pooled
    <3>2. QED
      BY <1>0, <3>1 DEF DrainingIn
  <2>4. /\ Cardinality(MappedIn(t, entries)') <= Cardinality(MappedIn(t, entries))
        /\ Cardinality(MappedIn(t, entries)') \in Nat
    BY <2>1, <2>2, NoLarger
  <2>5. /\ Cardinality(DrainingIn(t, orphans)') <= Cardinality(DrainingIn(t, orphans))
        /\ Cardinality(DrainingIn(t, orphans)') \in Nat
    BY <2>1, <2>3, NoLarger
  <2>6. QED
    BY <2>1, <2>4, <2>5 DEF Occupied
<1>2. QED
  BY <1>1, StillCapped

\* The end of a reservation: it is given back once, whichever way the spawn
\* went, and what takes its place in the count is one entry at most.
LEMMA ReservationEnds ==
    ASSUME IInv, IInv', CapRespected, NEW i \in Id,
           spawn[i].pc \in Reserving, spawn'[i].pc \notin Reserving,
           \A j \in Id \ {i} : spawn'[j] = spawn[j],
           spawn'[i].key = spawn[i].key,
           spawn[i].key.tenant \in Tenant,
           releasePendingLocked(spawn[i].key.tenant),
           \A t \in Tenant : Occupied(t, entries, orphans)' <=
               Occupied(t, entries, orphans) + (IF t = spawn[i].key.tenant THEN 1 ELSE 0)
    PROVE  CapRespected'
<1> DEFINE u == spawn[i].key.tenant
<1>0. TypeOK /\ TypeOK'
  BY DEF IInv
<1>1. ASSUME NEW t \in Tenant
      PROVE  /\ pending'[t] = Cardinality(Reserved(t))'
             /\ Occupied(t, entries, orphans)' + pending'[t] <= MaxProcsPerTenant
  <2>1. pending[t] = Cardinality(Reserved(t))
        /\ Occupied(t, entries, orphans) + pending[t] <= MaxProcsPerTenant
    BY CapParts
  <2>2. pending[t] \in Nat /\ pending'[t] \in Nat /\ MaxProcsPerTenant \in Nat
        /\ orphans \in SUBSET Id /\ orphans' \in SUBSET Id
    BY <1>0, BoundsAssumption DEF TypeOK
  <2>3. Occupied(t, entries, orphans) \in Nat
    BY <2>2, CountedFinite
  <2>4. Occupied(t, entries, orphans)' \in Nat
    <3>1. IsFiniteSet(MappedIn(t, entries)') /\ IsFiniteSet(DrainingIn(t, orphans)')
      BY <2>2, FiniteAssumption, FS_Subset DEF MappedIn, DrainingIn
    <3>2. Cardinality(MappedIn(t, entries)') \in Nat /\ Cardinality(DrainingIn(t, orphans)') \in Nat
      BY <3>1, FS_CardinalityType
    <3>3. QED
      BY <3>2 DEF Occupied
  <2>5. /\ \A j : j # i => (j \in Reserved(t) <=> j \in Reserved(t)')
        /\ i \notin Reserved(t)'
        /\ i \in Reserved(t) <=> u = t
    BY DEF Reserved
  <2>6. IsFiniteSet(Reserved(t))
    BY FiniteAssumption, FS_Subset DEF Reserved
  <2>7. Cardinality(Reserved(t))' = Cardinality(Reserved(t)) + (IF i \in Reserved(t)' THEN 1 ELSE 0)
                                       - (IF i \in Reserved(t) THEN 1 ELSE 0)
        /\ Cardinality(Reserved(t)) \in Nat
    BY <2>5, <2>6, MemberCount
  <2>8. CASE u = t
    <3>1. Cardinality(Reserved(t)) # 0
      BY <2>5, <2>6, <2>8, FS_EmptySet
    <3>2. pending[t] >= 1
      BY <2>1, <2>2, <3>1
    <3>3. pending'[t] = IF pending[t] - 1 > 0 THEN pending[t] - 1 ELSE 0
      BY <1>0, <2>8 DEF releasePendingLocked, TypeOK
    <3>4. pending'[t] = pending[t] - 1
      BY <2>2, <3>2, <3>3
    <3>5. Cardinality(Reserved(t))' = Cardinality(Reserved(t)) - 1
      BY <2>5, <2>7, <2>8
    <3>6. Occupied(t, entries, orphans)' <= Occupied(t, entries, orphans) + 1
      BY <2>8
    <3>7. QED
      BY <2>1, <2>2, <2>3, <2>4, <3>4, <3>5, <3>6
  <2>9. CASE u # t
    <3>1. pending'[t] = pending[t]
      BY <1>0, <2>9 DEF releasePendingLocked, TypeOK
    <3>2. Cardinality(Reserved(t))' = Cardinality(Reserved(t))
      BY <2>5, <2>7, <2>9
    <3>3. Occupied(t, entries, orphans)' <= Occupied(t, entries, orphans) + 0
      BY <2>9
    <3>4. QED
      BY <2>1, <2>2, <2>3, <2>4, <3>1, <3>2, <3>3
  <2>10. QED
    BY <2>8, <2>9
<1>2. QED
  BY <1>1 DEF CapRespected, tenantCountLocked, Occupied, MappedIn, DrainingIn

\* A spawn that installs nothing.
LEMMA FruitlessCapped ==
    ASSUME IInv, IInv', CapRespected, NEW i \in Id, releasePending(i) \/ DiscardSpawn(i)
    PROVE  CapRespected'
<1>0. TypeOK /\ SpawnRefs /\ spawn[i] \in SpawnType
  BY DEF IInv, Refs, TypeOK
<1>1. /\ spawn[i].pc \in Reserving
      /\ releasePendingLocked(spawn[i].key.tenant)
      /\ UNCHANGED <<entries, orphans>>
  BY DEF releasePending, DiscardSpawn, Reserving
<1>2. spawn'[i].pc = "unmap" /\ spawn'[i].key = spawn[i].key
      /\ \A j \in Id \ {i} : spawn'[j] = spawn[j]
  <2>1. CASE releasePending(i)
    BY <1>0, <2>1 DEF releasePending, TypeOK, SpawnType
  <2>2. CASE DiscardSpawn(i)
    <3> DEFINE x == IF closed THEN "closed" ELSE "retired"
    <3>1. spawn' = [spawn EXCEPT ![i] = [spawn[i] EXCEPT !.pc = "unmap", !.err = x]]
      BY <2>2, Zenon DEF DiscardSpawn
    <3> HIDE DEF x
    <3>2. QED
      BY <1>0, <3>1 DEF TypeOK, SpawnType
  <2>3. QED
    BY <2>1, <2>2
<1>3. spawn[i].key \in Keys /\ spawn[i].key.tenant \in Tenant
  BY <1>0, <1>1, KeysAssumption DEF SpawnRefs, Reserving
<1>4. \A j \in Id : Dead(j)' <=> Dead(j)
  <2>1. CASE releasePending(i)
    BY <2>1 DEF releasePending, Dead
  <2>2. CASE DiscardSpawn(i)
    BY <1>0, <2>2, ClosingSparesDead DEF DiscardSpawn
  <2>3. QED
    BY <2>1, <2>2
<1>5. ASSUME NEW t \in Tenant
      PROVE  Occupied(t, entries, orphans)' <=
               Occupied(t, entries, orphans) + (IF t = spawn[i].key.tenant THEN 1 ELSE 0)
  <2>1. \A j \in orphans' : spawn'[j].key = spawn[j].key
    BY <1>0, <1>1, <1>2 DEF TypeOK
  <2>2. Occupied(t, entries, orphans)' = Occupied(t, entries', orphans')
    BY <1>4, <2>1, SameDead
  <2>3. Occupied(t, entries', orphans') = Occupied(t, entries, orphans)
    BY <1>1
  <2>4. Occupied(t, entries, orphans) \in Nat
    BY <1>0, CountedFinite DEF TypeOK
  <2>5. QED
    BY <2>2, <2>3, <2>4
<1>6. spawn'[i].pc \notin Reserving
  BY <1>2 DEF Reserving
<1>7. QED
  BY <1>1, <1>2, <1>3, <1>5, <1>6, ReservationEnds

\* A spawn that installs its entry: the reservation becomes the entry.
LEMMA InstallCapped ==
    ASSUME IInv, IInv', CapRespected, NEW i \in Id, InstallSpawn(i)
    PROVE  CapRespected'
<1> DEFINE k == spawn[i].key
<1>0. TypeOK /\ SpawnRefs /\ spawn[i] \in SpawnType /\ orphans \in SUBSET Id
  BY DEF IInv, Refs, TypeOK
<1>1. /\ spawn[i].pc \in Reserving /\ k \in Keys /\ k.tenant \in Tenant
      /\ entries[k] = None
  <2>1. spawn[i].pc = "install"
    BY DEF InstallSpawn
  <2>2. QED
    BY <1>0, <2>1, KeysAssumption DEF SpawnRefs, Reserving
<1>2. /\ spawn' = [spawn EXCEPT ![i] = [spawn[i] EXCEPT !.pc = "unmap", !.e = i]]
      /\ entries' = [entries EXCEPT ![k] = i]
      /\ conn' = ClosedBy({})
      /\ releasePendingLocked(k.tenant)
      /\ UNCHANGED orphans
  BY <1>1, Zenon DEF InstallSpawn
<1>3. spawn'[i].pc = "unmap" /\ spawn'[i].key = spawn[i].key
      /\ \A j \in Id \ {i} : spawn'[j] = spawn[j]
  BY <1>0, <1>2 DEF TypeOK, SpawnType
<1>4. \A j \in Id : Dead(j)' <=> Dead(j)
  BY <1>0, <1>2, ClosingSparesDead
<1>5. ASSUME NEW t \in Tenant
      PROVE  Occupied(t, entries, orphans)' <=
               Occupied(t, entries, orphans) + (IF t = k.tenant THEN 1 ELSE 0)
  <2>1. \A j \in orphans' : spawn'[j].key = spawn[j].key
    BY <1>0, <1>2, <1>3
  <2>2. Occupied(t, entries, orphans)' = Occupied(t, entries', orphans')
    BY <1>4, <2>1, SameDead
  <2>3. /\ IsFiniteSet(MappedIn(t, entries))
        /\ Cardinality(MappedIn(t, entries)) \in Nat
        /\ Cardinality(DrainingIn(t, orphans)) \in Nat
        /\ Cardinality(MappedIn(t, entries')) \in Nat
    BY <1>0, CountedFinite
  <2>4. \A h : h # k => (h \in MappedIn(t, entries) <=> h \in MappedIn(t, entries'))
    BY <1>0, <1>1, <1>2 DEF TypeOK, MappedIn
  <2>5. k \in MappedIn(t, entries') => t = k.tenant
    BY DEF MappedIn
  <2>6. k \notin MappedIn(t, entries)
    BY <1>1 DEF MappedIn
  <2>7. Cardinality(MappedIn(t, entries')) =
          Cardinality(MappedIn(t, entries)) + (IF k \in MappedIn(t, entries') THEN 1 ELSE 0)
                                            - (IF k \in MappedIn(t, entries) THEN 1 ELSE 0)
    BY <2>3, <2>4, MemberCount
  <2>8. Cardinality(MappedIn(t, entries')) <=
          Cardinality(MappedIn(t, entries)) + (IF t = k.tenant THEN 1 ELSE 0)
    BY <2>3, <2>5, <2>6, <2>7
  <2>9. DrainingIn(t, orphans') = DrainingIn(t, orphans)
    BY <1>2
  <2>10. QED
    BY <2>2, <2>3, <2>8, <2>9 DEF Occupied
<1>6. spawn'[i].pc \notin Reserving
  BY <1>3 DEF Reserving
<1>7. QED
  BY <1>1, <1>2, <1>3, <1>5, <1>6, ReservationEnds

\* The steps that take entries and orphans out of the pool.
LEMMA DropCapped ==
    ASSUME IInv, IInv', CapRespected,
           reap \/ Shutdown \/ \E s \in Server : \E date \in 0..now : evictServer(s, date)
    PROVE  CapRespected'
<1>0. TypeOK
  BY DEF IInv
<1>1. UNCHANGED pending /\ orphans' \subseteq orphans
  BY DEF reap, Shutdown, evictServer
<1>2. \A k \in Keys : entries'[k] \in {entries[k], None}
  BY DEF reap, Shutdown, evictServer
<1>3. \A i \in Id : Dead(i)' <=> Dead(i)
  <2>1. PICK S : conn' = ClosedBy(S)
    BY DEF reap, Shutdown, evictServer
  <2>2. QED
    BY <1>0, <2>1, ClosingSparesDead
<1>4. \A i \in Id : spawn'[i].pc = spawn[i].pc /\ spawn'[i].key = spawn[i].key
  <2>1. CASE reap \/ Shutdown
    BY <2>1 DEF reap, Shutdown
  <2>2. ASSUME NEW s \in Server, NEW date \in 0..now, evictServer(s, date)
        PROVE  \A i \in Id : spawn'[i].pc = spawn[i].pc /\ spawn'[i].key = spawn[i].key
    <3> DEFINE running == {spawning[k] : k \in {j \in Keys : j.server = s /\ spawning[j] # None}}
               hit(i)  == i \in running /\ (spawn[i].built = 0 \/ spawn[i].built > date)
    <3>1. spawn' = [i \in Id |-> IF hit(i) THEN [spawn[i] EXCEPT !.stale = TRUE] ELSE spawn[i]]
      BY <2>2, Zenon DEF evictServer
    <3>2. \A i \in Id : spawn'[i] = IF hit(i) THEN [spawn[i] EXCEPT !.stale = TRUE] ELSE spawn[i]
      BY <3>1, Zenon
    <3> HIDE DEF hit
    <3>3. QED
      BY <1>0, <3>2, StaleShape DEF TypeOK
  <2>3. QED
    BY <2>1, <2>2
<1>5. Pooled \subseteq Id
  BY PooledInstalled
<1>6. (\A i \in Pooled : Dead(i) => Dead(i)')
      /\ (\A i \in Id : spawn'[i].key = spawn[i].key)
      /\ (\A i \in Id : (spawn'[i].pc \in Reserving <=> spawn[i].pc \in Reserving))
  BY <1>3, <1>4, <1>5
<1>7. QED
  BY <1>1, <1>2, <1>6, RetiringCapped

\* The spawn's own moves before and after its reservation ends: a Connect that
\* succeeds gives life to a connection nothing in the pool refers to yet.
LEMMA SpawnCapped ==
    ASSUME IInv, IInv', CapRespected, NEW i \in Id,
           \/ FactoryOk(i) \/ FactoryErr(i) \/ Stamp(i) \/ ConnectOk(i) \/ ConnectErr(i)
           \/ recordFailure(i) \/ UnmapSpawn(i) \/ SignalDone(i)
    PROVE  CapRespected'
<1>0. TypeOK /\ spawn[i] \in SpawnType
  BY DEF IInv, TypeOK
<1>1. UNCHANGED <<entries, orphans, pending>>
  BY DEF FactoryOk, FactoryErr, Stamp, ConnectOk, ConnectErr, recordFailure, UnmapSpawn, SignalDone,
         poolVars
<1>2. spawn'[i].key = spawn[i].key /\ (spawn'[i].pc \in Reserving <=> spawn[i].pc \in Reserving)
      /\ \A j \in Id \ {i} : spawn'[j] = spawn[j]
  <2>1. CASE FactoryOk(i)
    <3> DEFINE d == def[spawn[i].key.server]
    <3>1. spawn' = [spawn EXCEPT ![i] = [spawn[i] EXCEPT !.pc = "stamp", !.def = d]]
          /\ spawn[i].pc = "factory"
      BY <2>1, Zenon DEF FactoryOk
    <3> HIDE DEF d
    <3>2. QED
      BY <1>0, <3>1 DEF TypeOK, SpawnType, Reserving
  <2>2. CASE FactoryErr(i)
    BY <1>0, <2>2 DEF FactoryErr, TypeOK, SpawnType, Reserving
  <2>3. CASE ConnectErr(i)
    BY <1>0, <2>3 DEF ConnectErr, TypeOK, SpawnType, Reserving
  <2>4. CASE Stamp(i)
    BY <1>0, <2>4 DEF Stamp, TypeOK, SpawnType, Reserving
  <2>5. CASE ConnectOk(i)
    BY <1>0, <2>5 DEF ConnectOk, TypeOK, SpawnType, Reserving
  <2>6. CASE recordFailure(i)
    <3>1. spawn' = [spawn EXCEPT ![i].pc = "unreserve"] /\ spawn[i].pc = "failed"
      BY <2>6, Zenon DEF recordFailure
    <3>2. QED
      BY <1>0, <3>1 DEF TypeOK, SpawnType, Reserving
  <2>7. CASE UnmapSpawn(i) \/ SignalDone(i)
    BY <1>0, <2>7 DEF UnmapSpawn, SignalDone, TypeOK, SpawnType, Reserving
  <2>8. QED
    BY <2>1, <2>2, <2>3, <2>4, <2>5, <2>6, <2>7
<1>3. \A j \in Pooled : Dead(j) => Dead(j)'
  <2>1. CASE ConnectOk(i)
    <3>1. spawn[i].pc = "connect" /\ conn' = [conn EXCEPT ![i] = "live"]
      BY <2>1 DEF ConnectOk
    <3>2. Pooled \subseteq Id /\ i \notin Pooled
      BY <3>1, PooledInstalled DEF Installed, Ended
    <3>3. QED
      BY <1>0, <3>1, <3>2 DEF Dead, TypeOK
  <2>2. CASE UNCHANGED conn
    BY <2>2 DEF Dead
  <2>3. QED
    BY <2>1, <2>2 DEF FactoryOk, FactoryErr, Stamp, ConnectErr, recordFailure, UnmapSpawn, SignalDone
<1>4. \A k \in Keys : entries'[k] \in {entries[k], None}
  BY <1>1
<1>5. (\A j \in Id : (spawn'[j].pc \in Reserving <=> spawn[j].pc \in Reserving))
      /\ (\A j \in Id : spawn'[j].key = spawn[j].key)
  BY <1>2
<1>6. QED
  BY <1>1, <1>3, <1>4, <1>5, RetiringCapped

\* Connections die, deadlines pass: the count can only fall.
LEMMA EnvCapped ==
    ASSUME IInv, IInv', CapRespected, NEW i \in Id, EnvStep(i)
    PROVE  CapRespected'
<1>0. TypeOK
  BY DEF IInv
<1>1. UNCHANGED <<entries, orphans, pending, spawn>>
  BY DEF EnvStep, ConnDies, CloseDone, DeadlinePasses, GoesIdle, poolVars
<1>2. conn' = conn \/ conn' = [conn EXCEPT ![i] = "dead"]
  BY DEF EnvStep, ConnDies, CloseDone, DeadlinePasses, GoesIdle
<1>3. Pooled \subseteq Id
  BY PooledInstalled
<1>4. \A j \in Pooled : Dead(j) => Dead(j)'
  BY <1>0, <1>2, <1>3 DEF Dead, TypeOK
<1>5. QED
  BY <1>1, <1>4, RetiringCapped

\* Every step keeps every tenant under its cap.
LEMMA NextCapped == IInv /\ IInv' /\ CapRespected /\ [Next]_vars => CapRespected'
<1> SUFFICES ASSUME IInv, IInv', CapRespected, [Next]_vars PROVE CapRespected'
  OBVIOUS
<1>1. CASE UNCHANGED <<entries, orphans, pending, spawn, conn>>
  BY <1>1 DEF CapRespected, tenantCountLocked, Reserved, Dead
<1>2. ASSUME NEW c \in Caller, CallerStep(c) PROVE CapRespected'
  <2>1. \/ GetCircuitOpen(c) \/ GetAttach(c) \/ GetAtCap(c)
        \/ \E i \in Id : GetSpawn(c, i)
        \/ UNCHANGED <<entries, orphans, pending, spawn, conn>>
    BY <1>2 DEF CallerStep, GetClosed, GetHit, SpawnFailed, SpawnRetired, SpawnReady, AbandonSpawn,
                JoinSpawned, JoinTooLate, AcquireSlot, CancelSlot, LeaveQueue, StartCall,
                StartTooLate, Backout, ReleaseSlot, ReleaseEntry, poolVars
  <2>2. QED
    BY <1>1, <2>1, MissCapped, GetSpawnCapped
<1>3. ASSUME NEW i \in Id, SpawnStep(i) PROVE CapRespected'
  BY <1>3, SpawnCapped, FruitlessCapped, InstallCapped DEF SpawnStep
<1>4. ASSUME PoolStep PROVE CapRespected'
  <2>1. CASE (\E c \in Caller, k \in Keys : Call(c, k)) \/ \E k \in Keys : CooldownEnds(k)
    BY <1>1, <2>1 DEF Call, CooldownEnds, poolVars
  <2>2. CASE reap \/ Shutdown
    BY <2>2, DropCapped
  <2>3. QED
    BY <1>2, <1>3, <1>4, <2>1, <2>2, EnvCapped DEF PoolStep
<1>5. ASSUME NEW s \in Server, NEW date \in 0..now, evictServer(s, date) PROVE CapRespected'
  BY <1>5, DropCapped
<1>6. CASE Tick \/ UNCHANGED vars
  BY <1>1, <1>6 DEF Tick, vars, poolVars
<1>7. QED
  BY <1>4, <1>5, <1>6 DEF Next

\* An empty pool counts nothing.
LEMMA InitCapped == Init => CapRespected
<1> SUFFICES ASSUME Init, NEW t \in Tenant
             PROVE  pending[t] = Cardinality(Reserved(t))
                    /\ Occupied(t, entries, orphans) + pending[t] <= MaxProcsPerTenant
  BY CapParts
<1>1. Reserved(t) = {} /\ MappedIn(t, entries) = {} /\ DrainingIn(t, orphans) = {}
  BY DEF Init, Reserved, Reserving, MappedIn, DrainingIn, BlankSpawn
<1>2. Cardinality(Reserved(t)) = 0 /\ Occupied(t, entries, orphans) = 0
  BY <1>1, FS_EmptySet DEF Occupied
<1>3. pending[t] = 0
  BY DEF Init
<1>4. QED
  BY <1>2, <1>3, BoundsAssumption

\* pool.go:42 and :570: for any number of servers, credential generations and
\* callers, what starts, serves and drains for a tenant stays within the cap,
\* and a reservation is given back exactly once.
THEOREM CapHolds == Spec => []CapRespected
BY InitCapped, NextCapped, PoolInvariant, PTL DEF Spec

-----------------------------------------------------------------------------
(* A reload *)

\* What a spawn has read is kept from then on, and dated before it can serve.
Dated(i) ==
    /\ spawn[i].pc \in {"factory", "stamp"} => spawn[i].built = 0
    /\ spawn[i].pc \in {"connect", "install"} \/ spawn[i].e = i => spawn[i].built \in 1..now
    /\ spawn[i].pc \in {"stamp", "connect", "install"} \/ spawn[i].e = i => spawn[i].def # NoDef

\* What a stale definition would be served from.
Serves(i) == i \in Pooled \/ WillInstall(i)

\* Not known to be from before date.
Recent(i, date) == spawn[i].built = 0 \/ spawn[i].built > date

\* A backend has the live definition, or the one that a rollback or the
\* eviction under way will make live or reach.
Fresh(i) ==
    LET s == spawn[i].key.server  d == spawn[i].def IN
    /\ step \in {"idle", "window", "publish"} => d = def[s]
    /\ step \in {"wire", "rollback"} =>
           d \in {prev[s], def[s]} /\ (d # prev[s] => Recent(i, windowStart))
    /\ step = "evict" => d = def[s] \/ (s \in toEvict /\ Recent(i, since))

ReloadTypes ==
    /\ published \in BOOLEAN
    /\ {rev, prev, failed} \subseteq Config \cup {NoConfig}
    /\ windowStart \in Nat /\ since \in Nat
    /\ toEvict \subseteq Server /\ serving \subseteq Id

\* What is live in each phase of an apply.
Phases ==
    /\ step \in ApplyStep
    /\ step # "idle" => rev \in Config /\ prev \in Config
    /\ step \in {"window", "publish"} => def = prev
    /\ step = "publish" => published
    /\ step = "wire" => def = (IF published THEN rev ELSE prev)
    /\ step = "rollback" => def = rev /\ failed = rev
    /\ step = "evict" => def = (IF failed = rev THEN prev ELSE rev)
    /\ step = "evict" /\ failed = rev => toEvict = {} \/ since = windowStart
    /\ step # "evict" => toEvict = {}
    /\ step \notin {"idle", "window"} => windowStart < now
    /\ since < now

\* What was serving when the window opened is from before it.
Earlier == \A i \in serving : Installed(i) /\ spawn[i].built <= windowStart

ReloadInv ==
    /\ IInv /\ CapRespected /\ ReloadTypes /\ Phases /\ Earlier
    /\ \A i \in Id : Dated(i)
    /\ \A i \in Id : Serves(i) => Fresh(i)

\* What a step of the pool may do to what spawn i carries: nothing, but for
\* dating it; give it the definition now live; or start it afresh.
Moves(i) ==
    \/ /\ spawn'[i].def = spawn[i].def /\ spawn'[i].key = spawn[i].key
       /\ \/ spawn'[i].built = spawn[i].built
          \/ spawn[i].built = 0 /\ spawn'[i].built = now
       /\ Serves(i)' => Serves(i)
       /\ Installed(i) => Installed(i)' /\ spawn'[i].built = spawn[i].built
    \/ /\ spawn[i].pc = "factory"
       /\ spawn'[i].def = def[spawn'[i].key.server] /\ spawn'[i].built = 0
    \/ spawn'[i].pc = "factory" /\ i \notin Pooled'

\* Nothing is pooled that was not, but for what an install adds.
LEMMA PooledGrowth ==
    ASSUME NEW x, \A k \in Keys : entries'[k] \in {entries[k], None, x},
           orphans' \subseteq Pooled
    PROVE  Pooled' \subseteq Pooled \cup ({x} \ {None})
BY DEF Pooled

\* A spawn that the step leaves alone carries what it carried.
LEMMA StillThere ==
    ASSUME NEW i \in Id, spawn'[i] = spawn[i], UNCHANGED now, Dated(i),
           i \in Pooled' => i \in Pooled
    PROVE  Dated(i)' /\ Moves(i)
<1>1. Dated(i)'
  BY DEF Dated
<1>2. Serves(i)' => Serves(i)
  BY DEF Serves, WillInstall
<1>3. Installed(i) => Installed(i)'
  BY DEF Installed
<1>4. QED
  BY <1>1, <1>2, <1>3 DEF Moves

\* The steps of one spawn.
LEMMA SpawnMoves ==
    ASSUME IInv, NEW i \in Id, SpawnStep(i), \A j \in Id : Dated(j), now >= 1
    PROVE  UNCHANGED <<def, now>> /\ \A j \in Id : Dated(j)' /\ Moves(j)
<1>0. TypeOK /\ spawn[i] \in SpawnType /\ now \in Nat /\ Dated(i)
      /\ spawn \in [Id -> SpawnType]
  BY DEF IInv, TypeOK
<1>f. /\ spawn[i].built \in Nat /\ spawn[i].e \in {None, i}
      /\ spawn[i].e = i => spawn[i].pc \in Ended
      /\ i # None /\ (i \in Pooled => spawn[i].pc \in Ended /\ spawn[i].e = i)
  <2>1. spawn[i].e \in {None, i} /\ (spawn[i].e = i => spawn[i].pc \in Ended)
    BY DEF IInv, Refs, SpawnRefs
  <2>2. i # None
    BY NoneAssumption
  <2>3. i \in Pooled => spawn[i].pc \in Ended /\ spawn[i].e = i
    BY PooledInstalled DEF Installed
  <2>4. spawn[i].built \in Nat
    BY <1>0 DEF SpawnType
  <2>5. QED
    BY <2>1, <2>2, <2>3, <2>4
<1>1. UNCHANGED <<def, now>> /\ orphans' \subseteq Pooled
  BY Zenon DEF SpawnStep, FactoryOk, FactoryErr, Stamp, ConnectOk, ConnectErr, recordFailure, releasePending,
         DiscardSpawn, InstallSpawn, UnmapSpawn, SignalDone, poolVars, Pooled
<1>2. UNCHANGED entries \/ (InstallSpawn(i) /\ ~spawn[i].stale /\ spawn[i].pc = "install")
  BY DEF SpawnStep, FactoryOk, FactoryErr, Stamp, ConnectOk, ConnectErr, recordFailure, releasePending,
         DiscardSpawn, InstallSpawn, UnmapSpawn, SignalDone, poolVars
<1>3. \A k \in Keys : entries'[k] \in {entries[k], None, i}
  BY <1>0, <1>2 DEF InstallSpawn, TypeOK
<1>4. Pooled' \subseteq Pooled \cup {i}
  BY <1>1, <1>3, PooledGrowth
<1>5. UNCHANGED entries => Pooled' \subseteq Pooled
  BY <1>1, PooledGrowth
<1>6. \A j \in Id \ {i} : spawn'[j] = spawn[j]
  BY <1>0, Zenon DEF SpawnStep, FactoryOk, FactoryErr, Stamp, ConnectOk, ConnectErr, recordFailure,
         releasePending, DiscardSpawn, InstallSpawn, UnmapSpawn, SignalDone, TypeOK
<1>7. \A j \in Id \ {i} : Dated(j)' /\ Moves(j)
  BY <1>1, <1>4, <1>6, StillThere
\* A step that keeps what the spawn read and when.
<1>8. ASSUME spawn'[i].def = spawn[i].def, spawn'[i].key = spawn[i].key,
             spawn'[i].built = spawn[i].built, spawn'[i].stale = spawn[i].stale,
             spawn'[i].pc \in SpawnPC, spawn[i].pc # "done",
             spawn[i].pc \in Ended => spawn'[i].pc \in Ended /\ spawn'[i].e = spawn[i].e,
             spawn'[i].pc # "factory", spawn'[i].pc = "stamp" => spawn[i].pc = "stamp",
             spawn'[i].pc \in {"connect", "install"} => spawn[i].pc \in {"connect", "install"},
             spawn'[i].e = spawn[i].e \/ (spawn[i].pc = "install" /\ ~spawn[i].stale),
             UNCHANGED entries \/ (~spawn[i].stale /\ spawn[i].pc = "install")
      PROVE  Dated(i)' /\ Moves(i)
  <2>1. Dated(i)'
    BY <1>0, <1>1, <1>8, <1>f DEF Dated
  <2>2. Serves(i)' => Serves(i)
    BY <1>4, <1>5, <1>8 DEF Serves, WillInstall
  <2>3. Installed(i) => Installed(i)'
    BY <1>8 DEF Installed
  <2>4. QED
    BY <1>8, <2>1, <2>2, <2>3 DEF Moves
<1>9. CASE FactoryOk(i)
  <2>1. PICK d : d = def[spawn[i].key.server]
    OBVIOUS
  <2>2. /\ spawn[i].pc = "factory" /\ d # NoDef
        /\ spawn' = [spawn EXCEPT ![i] = [spawn[i] EXCEPT !.pc = "stamp", !.def = d]]
    BY <1>9, <2>1, Zenon DEF FactoryOk
  <2>3. /\ spawn'[i].pc = "stamp" /\ spawn'[i].def = d /\ spawn'[i].built = spawn[i].built
        /\ spawn'[i].key = spawn[i].key /\ spawn'[i].e = spawn[i].e
    BY <1>0, <2>2 DEF SpawnType
  <2>4. Dated(i)'
    BY <1>0, <1>f, <2>2, <2>3 DEF Dated, Ended
  <2>5. QED
    BY <1>0, <1>7, <1>1, <2>1, <2>2, <2>3, <2>4 DEF Moves, Dated
<1>10. CASE Stamp(i)
  <2>1. /\ spawn[i].pc = "stamp"
        /\ spawn' = [spawn EXCEPT ![i] = [spawn[i] EXCEPT !.pc = "connect", !.built = now]]
        /\ UNCHANGED entries
    BY <1>10 DEF Stamp, poolVars
  <2>2. /\ spawn'[i].pc = "connect" /\ spawn'[i].def = spawn[i].def /\ spawn'[i].built = now
        /\ spawn'[i].key = spawn[i].key /\ spawn'[i].e = spawn[i].e
    BY <1>0, <2>1 DEF SpawnType
  <2>3. spawn'[i].stale = spawn[i].stale
    BY <1>0, <2>1, Zenon DEF SpawnType
  <2>4. Dated(i)'
    BY <1>0, <1>1, <1>f, <2>1, <2>2 DEF Dated, Ended
  <2>5. Serves(i)' => Serves(i)
    BY <1>5, <2>1, <2>3 DEF Serves, WillInstall
  <2>6. Moves(i)
    BY <1>0, <2>1, <2>2, <2>5 DEF Moves, Dated, Installed, Ended
  <2>7. QED
    BY <1>1, <1>7, <2>4, <2>6
<1>11. CASE \/ FactoryErr(i) \/ ConnectOk(i) \/ ConnectErr(i) \/ recordFailure(i)
            \/ releasePending(i) \/ DiscardSpawn(i) \/ UnmapSpawn(i) \/ SignalDone(i)
  <2>1. UNCHANGED entries
    BY <1>11 DEF FactoryErr, ConnectOk, ConnectErr, recordFailure, releasePending,
                 DiscardSpawn, UnmapSpawn, SignalDone, poolVars
  <2>2. /\ spawn'[i].def = spawn[i].def /\ spawn'[i].key = spawn[i].key
        /\ spawn'[i].built = spawn[i].built /\ spawn'[i].e = spawn[i].e
        /\ spawn'[i].stale = spawn[i].stale
        /\ \/ spawn[i].pc = "factory" /\ spawn'[i].pc = "unreserve"
           \/ spawn[i].pc = "connect" /\ spawn'[i].pc \in {"install", "failed"}
           \/ spawn[i].pc = "failed" /\ spawn'[i].pc = "unreserve"
           \/ spawn[i].pc \in {"unreserve", "install"} /\ spawn'[i].pc = "unmap"
           \/ spawn[i].pc = "unmap" /\ spawn'[i].pc = "signal"
           \/ spawn[i].pc = "signal" /\ spawn'[i].pc = "done"
    <3>1. CASE FactoryErr(i)
      BY <1>0, <3>1, Zenon DEF FactoryErr, SpawnType
    <3>2. CASE ConnectOk(i)
      BY <1>0, <3>2, Zenon DEF ConnectOk, SpawnType
    <3>3. CASE ConnectErr(i)
      BY <1>0, <3>3, Zenon DEF ConnectErr, SpawnType
    <3>4. CASE recordFailure(i)
      BY <1>0, <3>4, Zenon DEF recordFailure, SpawnType
    <3>5. CASE releasePending(i)
      BY <1>0, <3>5, Zenon DEF releasePending, SpawnType
    <3>6. CASE DiscardSpawn(i)
      BY <1>0, <3>6, Zenon DEF DiscardSpawn, SpawnType
    <3>7. CASE UnmapSpawn(i)
      BY <1>0, <3>7, Zenon DEF UnmapSpawn, SpawnType
    <3>8. CASE SignalDone(i)
      BY <1>0, <3>8, Zenon DEF SignalDone, SpawnType
    <3>9. QED
      BY <1>11, <3>1, <3>2, <3>3, <3>4, <3>5, <3>6, <3>7, <3>8
  <2>3. Dated(i)' /\ Moves(i)
    BY <1>8, <2>1, <2>2 DEF SpawnPC, Ended
  <2>4. QED
    BY <1>1, <1>7, <2>3
<1>12. CASE InstallSpawn(i)
  <2>1. spawn[i].pc = "install" /\ ~spawn[i].stale
    BY <1>12 DEF InstallSpawn
  <2>2. entries[spawn[i].key] = None
    BY <2>1 DEF IInv, Refs, SpawnRefs, Reserving
  <2>3. spawn' = [spawn EXCEPT ![i] = [spawn[i] EXCEPT !.pc = "unmap", !.e = i]]
    BY <1>12, <2>2 DEF InstallSpawn
  <2>4. /\ spawn'[i].def = spawn[i].def /\ spawn'[i].key = spawn[i].key
        /\ spawn'[i].built = spawn[i].built /\ spawn'[i].pc = "unmap"
    BY <1>0, <2>3 DEF SpawnType
  <2>5. spawn'[i].stale = spawn[i].stale
    BY <1>0, <2>3, Zenon DEF SpawnType
  <2>6. Dated(i)' /\ Moves(i)
    BY <1>8, <2>1, <2>4, <2>5 DEF SpawnPC, Ended
  <2>7. QED
    BY <1>1, <1>7, <2>6
<1>13. QED
  BY <1>9, <1>10, <1>11, <1>12 DEF SpawnStep

LEMMA GetSpawnMoves ==
    ASSUME IInv, NEW c \in Caller, NEW i \in Id, GetSpawn(c, i), \A j \in Id : Dated(j)
    PROVE  UNCHANGED <<def, now>> /\ \A j \in Id : Dated(j)' /\ Moves(j)
<1>0. TypeOK /\ spawn \in [Id -> SpawnType] /\ caller[c].key \in Keys
  BY Facts DEF IInv, TypeOK, CallerRef, GetSpawn, Miss
<1>1. Unused(i) /\ UNCHANGED <<def, now>> /\ Shrinks
  BY <1>0, ReplaceShape DEF GetSpawn, Miss
<1>2. Pooled' \subseteq Pooled
  BY <1>1, PooledGrowth DEF Shrinks
<1>3. PICK q : q = [BlankSpawn EXCEPT !.pc = "factory", !.key = caller[c].key]
  OBVIOUS
<1>4. spawn' = [spawn EXCEPT ![i] = q]
  BY <1>3 DEF GetSpawn
<1>5. q.pc = "factory" /\ q.built = 0 /\ q.e = None
  BY <1>3 DEF BlankSpawn
<1>6. spawn'[i] = q /\ \A j \in Id \ {i} : spawn'[j] = spawn[j]
  BY <1>0, <1>4
<1>7. i \notin Pooled' /\ i # None
  BY <1>1, <1>2, NoneAssumption DEF Unused, Pooled
<1>8. Dated(i)' /\ Moves(i)
  BY <1>5, <1>6, <1>7 DEF Dated, Moves
<1>9. \A j \in Id \ {i} : Dated(j)' /\ Moves(j)
  BY <1>1, <1>2, <1>6, StillThere
<1>10. QED
  BY <1>1, <1>8, <1>9

\* Every step of the pool.
LEMMA PoolMoves ==
    ASSUME IInv, PoolStep, \A j \in Id : Dated(j), now >= 1
    PROVE  UNCHANGED <<def, now>> /\ \A j \in Id : Dated(j)' /\ Moves(j)
<1>0. TypeOK
  BY DEF IInv
<1>1. ASSUME UNCHANGED <<spawn, def, now>>, Pooled' \subseteq Pooled
      PROVE  UNCHANGED <<def, now>> /\ \A j \in Id : Dated(j)' /\ Moves(j)
  BY <1>1, StillThere
<1>2. CASE UNCHANGED <<entries, orphans, spawn, def, now>>
  BY <1>1, <1>2 DEF Pooled
<1>3. ASSUME NEW c \in Caller, GetCircuitOpen(c) \/ GetAttach(c) \/ GetAtCap(c)
      PROVE  UNCHANGED <<def, now>> /\ \A j \in Id : Dated(j)' /\ Moves(j)
  <2>1. Miss(c) /\ UNCHANGED <<spawn, def, now>>
    BY <1>3 DEF GetCircuitOpen, GetAttach, GetAtCap
  <2>2. caller[c].key \in Keys
    BY <2>1, Facts DEF Miss, CallerRef
  <2>3. Shrinks
    BY <2>1, <2>2, ReplaceShape DEF Miss
  <2>4. Pooled' \subseteq Pooled
    BY <2>3, PooledGrowth DEF Shrinks
  <2>5. QED
    BY <1>1, <2>1, <2>4
<1>4. CASE reap \/ Shutdown
  <2>1. UNCHANGED <<spawn, def, now>>
    BY <1>4 DEF reap, Shutdown
  <2>2. (\A k \in Keys : entries'[k] \in {entries[k], None}) /\ orphans' \subseteq Pooled
    BY <1>4 DEF reap, Shutdown, Pooled
  <2>3. Pooled' \subseteq Pooled
    BY <2>2, PooledGrowth
  <2>4. QED
    BY <1>1, <2>1, <2>3
<1>5. ASSUME NEW c \in Caller, CallerStep(c)
      PROVE  UNCHANGED <<def, now>> /\ \A j \in Id : Dated(j)' /\ Moves(j)
  <2>1. \/ GetCircuitOpen(c) \/ GetAttach(c) \/ GetAtCap(c)
        \/ \E i \in Id : GetSpawn(c, i)
        \/ UNCHANGED <<entries, orphans, spawn, def, now>>
    BY <1>5 DEF CallerStep, GetClosed, GetHit, SpawnFailed, SpawnRetired, SpawnReady, AbandonSpawn,
                JoinSpawned, JoinTooLate, AcquireSlot, CancelSlot, LeaveQueue, StartCall,
                StartTooLate, Backout, ReleaseSlot, ReleaseEntry, poolVars
  <2>2. QED
    BY <1>2, <1>3, <2>1, GetSpawnMoves
<1>6. ASSUME NEW i \in Id, EnvStep(i)
      PROVE  UNCHANGED <<def, now>> /\ \A j \in Id : Dated(j)' /\ Moves(j)
  BY <1>2, <1>6 DEF EnvStep, ConnDies, CloseDone, DeadlinePasses, GoesIdle, poolVars
<1>7. CASE (\E c \in Caller, k \in Keys : Call(c, k)) \/ \E k \in Keys : CooldownEnds(k)
  BY <1>2, <1>7 DEF Call, CooldownEnds, poolVars
<1>8. QED
  BY <1>4, <1>5, <1>6, <1>7, SpawnMoves DEF PoolStep

LEMMA ServesFacts ==
    ASSUME ReloadInv, NEW i \in Id, Serves(i)
    PROVE  /\ spawn[i].key \in Keys /\ spawn[i].key.server \in Server
           /\ spawn[i].def # NoDef /\ Fresh(i) /\ Dated(i)
           /\ spawn[i].pc \notin {"free", "factory"}
           /\ spawn[i].built \in Nat
<1>1. IInv /\ Dated(i) /\ Fresh(i)
  BY DEF ReloadInv
<1>2. i \in Pooled => spawn[i].pc \in Ended /\ spawn[i].e = i
  BY <1>1, PooledInstalled DEF Installed
<1>3. spawn[i].pc \notin {"free", "factory"} /\ spawn[i].def # NoDef
  BY <1>1, <1>2 DEF Serves, WillInstall, Dated, Ended
<1>4. spawn[i].key \in Keys
  BY <1>1, <1>3 DEF IInv, Refs, SpawnRefs
<1>5. spawn[i].built \in Nat
  BY <1>1 DEF IInv, TypeOK, SpawnType
<1>6. QED
  BY <1>1, <1>3, <1>4, <1>5, KeysAssumption

\* Reading or writing the live config, or the clock, moves nothing in the pool.
LEMMA ConfigMoves ==
    ASSUME ReloadInv, UNCHANGED <<poolVars, spawn, entry, conn, caller>>,
           def' \in [Server -> Def \cup {NoDef}], now' \in Nat, now' >= now,
           ReloadTypes', Phases', Earlier',
           \A i \in Id : Serves(i) => Fresh(i)'
    PROVE  ReloadInv'
<1>0. TypeOK /\ CountersExact /\ CallerRefs /\ PoolRefs /\ SpawnRefs /\ ConnRefs
      /\ CapRespected /\ \A i \in Id : Dated(i)
  BY DEF ReloadInv, IInv, Refs
<1>1. UNCHANGED <<entries, orphans, spawning, pending, broken, closed>>
  BY DEF poolVars
<1>2. TypeOK'
  BY <1>0, <1>1 DEF TypeOK
<1>3. CallerRefs' /\ PoolRefs' /\ SpawnRefs' /\ ConnRefs'
  BY <1>0, <1>1 DEF CallerRefs, CallerRef, PoolRefs, Installed, SpawnRefs, ConnRefs, Pooled
<1>4. CountersExact'
  BY <1>0, CountersFrame
<1>5. CapRespected'
  BY <1>0, <1>1 DEF CapRespected, tenantCountLocked, Reserved, Dead
<1>6. \A i \in Id : Dated(i)'
  <2>1. now \in Nat
    BY <1>0 DEF TypeOK
  <2>2. QED
    BY <1>0, <2>1 DEF Dated
<1>7. \A i \in Id : Serves(i)' => Serves(i)
  BY <1>1 DEF Serves, WillInstall, Pooled
<1>8. QED
  BY <1>2, <1>3, <1>4, <1>5, <1>6, <1>7 DEF ReloadInv, IInv, Refs

LEMMA ReloadFacts ==
    ASSUME ReloadInv
    PROVE  /\ IInv /\ ReloadTypes /\ Phases /\ Earlier /\ CapRespected
           /\ now \in Nat /\ now >= 1 /\ def \in [Server -> Def \cup {NoDef}]
           /\ Pooled \subseteq Id /\ NoConfig \notin Config
<1>1. since \in Nat /\ since < now /\ now \in Nat
  BY DEF ReloadInv, ReloadTypes, Phases, IInv, TypeOK
<1>2. IInv
  BY DEF ReloadInv
<1>3. QED
  BY <1>1, <1>2, PooledInstalled, NoConfigAssumption DEF ReloadInv, IInv, TypeOK

\* The steps of Apply before the wire has answered.
LEMMA OpeningSteps ==
    ASSUME ReloadInv,
           \/ \E c \in Config : ApplyUnchanged(c) \/ ApplyBegin(c)
           \/ OpenWindow \/ Publish
    PROVE  ReloadInv'
<1>0. /\ IInv /\ ReloadTypes /\ Phases /\ Earlier
      /\ now \in Nat /\ now >= 1 /\ def \in [Server -> Def \cup {NoDef}]
      /\ Pooled \subseteq Id /\ NoConfig \notin Config
  BY ReloadFacts
<1>1. ASSUME NEW c \in Config, ApplyUnchanged(c) PROVE ReloadInv'
  <2>1. /\ step = "idle" /\ failed' = NoConfig
        /\ UNCHANGED <<poolVars, spawn, entry, conn, caller>> /\ UNCHANGED <<def, now>>
        /\ UNCHANGED <<step, rev, prev, windowStart, published, toEvict, since, serving>>
    BY <1>1 DEF ApplyUnchanged, vars
  <2>2. ReloadTypes'
    BY <1>0, <2>1 DEF ReloadTypes
  <2>3. Phases'
    BY <1>0, <2>1 DEF Phases
  <2>4. Earlier'
    BY <1>0, <2>1 DEF Earlier, Installed
  <2>5. \A i \in Id : Serves(i) => Fresh(i)'
    BY <2>1, ServesFacts DEF Fresh
  <2>6. QED
    BY <1>0, <2>1, <2>2, <2>3, <2>4, <2>5, ConfigMoves
<1>2. ASSUME NEW c \in Config, ApplyBegin(c) PROVE ReloadInv'
  <2>1. /\ step = "idle" /\ step' = "window" /\ rev' = c /\ prev' = def
        /\ UNCHANGED <<poolVars, spawn, entry, conn, caller>> /\ UNCHANGED <<def, now>>
        /\ UNCHANGED <<windowStart, published, toEvict, since, failed, serving>>
    BY <1>2 DEF ApplyBegin, vars
  <2>2. ReloadTypes'
    BY <1>0, <2>1 DEF ReloadTypes, Config
  <2>3. Phases'
    BY <1>0, <2>1 DEF Phases, ApplyStep, Config
  <2>4. Earlier'
    BY <1>0, <2>1 DEF Earlier, Installed
  <2>5. \A i \in Id : Serves(i) => Fresh(i)'
    BY <2>1, ServesFacts DEF Fresh
  <2>6. QED
    BY <1>0, <2>1, <2>2, <2>3, <2>4, <2>5, ConfigMoves
<1>3. CASE OpenWindow
  <2>1. /\ step = "window" /\ windowStart' = now /\ now' = now + 1
        /\ serving' = Pooled /\ step' = (IF failed = rev THEN "wire" ELSE "publish")
        /\ UNCHANGED <<poolVars, spawn, entry, conn, caller>> /\ UNCHANGED def
        /\ UNCHANGED <<rev, prev, toEvict, since, failed>>
    BY <1>3 DEF OpenWindow, failedBefore
  <2>2. published' \in BOOLEAN /\ (published' <=> failed # rev)
    BY <1>3 DEF OpenWindow, failedBefore
  <2>3. ReloadTypes'
    BY <1>0, <2>1, <2>2 DEF ReloadTypes
  <2>4. Phases'
    BY <1>0, <2>1, <2>2 DEF Phases, ApplyStep, ReloadTypes
  <2>5. Earlier'
    <3>1. ASSUME NEW i \in Pooled PROVE Installed(i) /\ spawn[i].built <= now
      <4>1. Installed(i) /\ i \in Id
        BY <1>0, PooledInstalled
      <4>2. spawn[i].built \in 1..now
        BY <4>1 DEF ReloadInv, Dated, Installed
      <4>3. QED
        BY <1>0, <4>1, <4>2
    <3>2. QED
      BY <2>1, <3>1 DEF Earlier, Installed
  <2>6. \A i \in Id : Serves(i) => Fresh(i)'
    <3>1. ASSUME NEW i \in Id, Serves(i) PROVE Fresh(i)'
      <4>1. spawn[i].key.server \in Server /\ Fresh(i) /\ def = prev
        BY <1>0, <2>1, <3>1, ServesFacts DEF Phases
      <4>2. QED
        BY <2>1, <4>1 DEF Fresh
    <3>2. QED
      BY <3>1
  <2>7. now' \in Nat /\ now' >= now
    BY <1>0, <2>1
  <2>8. QED
    BY <1>0, <2>1, <2>3, <2>4, <2>5, <2>6, <2>7, ConfigMoves
<1>4. CASE Publish
  <2>1. /\ step = "publish" /\ def' = rev /\ step' = "wire"
        /\ UNCHANGED <<poolVars, spawn, entry, conn, caller>> /\ UNCHANGED now
        /\ UNCHANGED <<rev, prev, windowStart, published, toEvict, since, failed, serving>>
    BY <1>4 DEF Publish
  <2>2. rev \in Config /\ published /\ def = prev
    BY <1>0, <2>1 DEF Phases
  <2>3. ReloadTypes'
    BY <1>0, <2>1 DEF ReloadTypes
  <2>4. Phases'
    BY <1>0, <2>1, <2>2 DEF Phases, ApplyStep
  <2>5. Earlier'
    BY <1>0, <2>1 DEF Earlier, Installed
  <2>6. \A i \in Id : Serves(i) => Fresh(i)'
    <3>1. ASSUME NEW i \in Id, Serves(i) PROVE Fresh(i)'
      <4>1. Fresh(i)
        BY <3>1, ServesFacts
      <4>2. QED
        BY <2>1, <2>2, <4>1 DEF Fresh
    <3>2. QED
      BY <3>1
  <2>7. def' \in [Server -> Def \cup {NoDef}]
    BY <2>1, <2>2 DEF Config
  <2>8. QED
    BY <1>0, <2>1, <2>3, <2>4, <2>5, <2>6, <2>7, ConfigMoves
<1>5. QED
  BY <1>1, <1>2, <1>3, <1>4

\* The wire's answer, and what Apply makes of it.
LEMMA ClosingSteps ==
    ASSUME ReloadInv, WireAccepts \/ WireRefuses \/ Rollback \/ ApplyEnd
    PROVE  ReloadInv'
<1>0. /\ IInv /\ ReloadTypes /\ Phases /\ Earlier
      /\ now \in Nat /\ now >= 1 /\ def \in [Server -> Def \cup {NoDef}]
      /\ Pooled \subseteq Id /\ NoConfig \notin Config
  BY ReloadFacts
<1>1. CASE WireAccepts
  <2>1. /\ step = "wire" /\ def' = rev /\ failed' = NoConfig /\ since' = 0 /\ step' = "evict"
        /\ toEvict' = Removed(prev, rev) \cup Changed(prev, rev)
        /\ UNCHANGED <<poolVars, spawn, entry, conn, caller>> /\ UNCHANGED now
        /\ UNCHANGED <<rev, prev, windowStart, published, serving>>
    BY <1>1 DEF WireAccepts
  <2>2. /\ rev \in Config /\ prev \in Config /\ windowStart < now
        /\ def = (IF published THEN rev ELSE prev)
    BY <1>0, <2>1 DEF Phases
  <2>3. ReloadTypes'
    BY <1>0, <2>1 DEF ReloadTypes, Removed, Changed
  <2>4. Phases'
    BY <1>0, <2>1, <2>2 DEF Phases, ApplyStep
  <2>5. Earlier'
    BY <1>0, <2>1 DEF Earlier, Installed
  <2>6. \A i \in Id : Serves(i) => Fresh(i)'
    <3>1. ASSUME NEW i \in Id, Serves(i) PROVE Fresh(i)'
      <4>1. /\ spawn[i].key.server \in Server /\ Fresh(i) /\ spawn[i].def # NoDef
            /\ spawn[i].built \in Nat
        BY <3>1, ServesFacts
      <4>2. QED
        BY <2>1, <2>2, <4>1 DEF Fresh, Recent, Removed, Changed
    <3>2. QED
      BY <3>1
  <2>7. def' \in [Server -> Def \cup {NoDef}]
    BY <2>1, <2>2 DEF Config
  <2>8. QED
    BY <1>0, <2>1, <2>3, <2>4, <2>5, <2>6, <2>7, ConfigMoves
<1>2. CASE WireRefuses
  <2>1. /\ step = "wire" /\ failed' = rev /\ step' = (IF published THEN "rollback" ELSE "evict")
        /\ UNCHANGED <<poolVars, spawn, entry, conn, caller>> /\ UNCHANGED <<def, now>>
        /\ UNCHANGED <<rev, prev, windowStart, published, toEvict, since, serving>>
    BY <1>2 DEF WireRefuses, vars
  <2>2. /\ rev \in Config /\ prev \in Config /\ windowStart < now /\ toEvict = {}
        /\ def = (IF published THEN rev ELSE prev)
    BY <1>0, <2>1 DEF Phases
  <2>3. ReloadTypes'
    BY <1>0, <2>1, <2>2 DEF ReloadTypes
  <2>4. Phases'
    BY <1>0, <2>1, <2>2 DEF Phases, ApplyStep
  <2>5. Earlier'
    BY <1>0, <2>1 DEF Earlier, Installed
  <2>6. \A i \in Id : Serves(i) => Fresh(i)'
    <3>1. ASSUME NEW i \in Id, Serves(i) PROVE Fresh(i)'
      <4>1. Fresh(i)
        BY <3>1, ServesFacts
      <4>2. QED
        BY <2>1, <2>2, <4>1 DEF Fresh, Recent
    <3>2. QED
      BY <3>1
  <2>7. QED
    BY <1>0, <2>1, <2>3, <2>4, <2>5, <2>6, ConfigMoves
<1>3. CASE Rollback
  <2>1. /\ step = "rollback" /\ def' = prev /\ since' = windowStart /\ step' = "evict"
        /\ toEvict' = Changed(prev, rev) \cup Added(prev, rev)
        /\ UNCHANGED <<poolVars, spawn, entry, conn, caller>> /\ UNCHANGED now
        /\ UNCHANGED <<rev, prev, windowStart, published, failed, serving>>
    BY <1>3 DEF Rollback
  <2>2. /\ rev \in Config /\ prev \in Config /\ windowStart < now
        /\ def = rev /\ failed = rev
    BY <1>0, <2>1 DEF Phases
  <2>3. ReloadTypes'
    BY <1>0, <2>1 DEF ReloadTypes, Added, Changed
  <2>4. Phases'
    BY <1>0, <2>1, <2>2 DEF Phases, ApplyStep
  <2>5. Earlier'
    BY <1>0, <2>1 DEF Earlier, Installed
  <2>6. \A i \in Id : Serves(i) => Fresh(i)'
    <3>1. ASSUME NEW i \in Id, Serves(i) PROVE Fresh(i)'
      <4>1. /\ spawn[i].key.server \in Server /\ Fresh(i) /\ spawn[i].def # NoDef
        BY <3>1, ServesFacts
      <4>2. QED
        BY <2>1, <2>2, <4>1 DEF Fresh, Recent, Added, Changed
    <3>2. QED
      BY <3>1
  <2>7. def' \in [Server -> Def \cup {NoDef}]
    BY <2>1, <2>2 DEF Config
  <2>8. QED
    BY <1>0, <2>1, <2>3, <2>4, <2>5, <2>6, <2>7, ConfigMoves
<1>4. CASE ApplyEnd
  <2>1. /\ step = "evict" /\ toEvict = {} /\ step' = "idle"
        /\ rev' = NoConfig /\ prev' = NoConfig /\ windowStart' = 0 /\ since' = 0
        /\ serving' = {}
        /\ UNCHANGED <<poolVars, spawn, entry, conn, caller>> /\ UNCHANGED <<def, now>>
        /\ UNCHANGED <<toEvict, failed>>
    BY <1>4 DEF ApplyEnd, vars
  <2>2. published' \in BOOLEAN
    BY <1>4 DEF ApplyEnd
  <2>3. ReloadTypes'
    BY <1>0, <2>1, <2>2 DEF ReloadTypes
  <2>4. Phases'
    BY <1>0, <2>1 DEF Phases, ApplyStep
  <2>5. Earlier'
    BY <2>1 DEF Earlier
  <2>6. \A i \in Id : Serves(i) => Fresh(i)'
    <3>1. ASSUME NEW i \in Id, Serves(i) PROVE Fresh(i)'
      <4>1. Fresh(i)
        BY <3>1, ServesFacts
      <4>2. QED
        BY <2>1, <4>1 DEF Fresh
    <3>2. QED
      BY <3>1
  <2>7. QED
    BY <1>0, <2>1, <2>3, <2>4, <2>5, <2>6, ConfigMoves
<1>5. QED
  BY <1>1, <1>2, <1>3, <1>4

\* The pool at work during a reload, whatever phase the apply is in.
LEMMA PoolKeepsReloadInv ==
    ASSUME ReloadInv, PoolStep, serving' = serving \cap Pooled',
           UNCHANGED <<step, rev, prev, windowStart, published, toEvict, since, failed>>
    PROVE  ReloadInv'
<1>0. /\ IInv /\ ReloadTypes /\ Phases /\ Earlier /\ CapRespected
      /\ now \in Nat /\ now >= 1 /\ Pooled \subseteq Id
  BY ReloadFacts
<1>1. [Next]_vars
  BY DEF Next
<1>2. IInv'
  BY <1>0, <1>1, NextInv
<1>3. CapRespected'
  BY <1>0, <1>1, <1>2, NextCapped
<1>4. UNCHANGED <<def, now>> /\ \A i \in Id : Dated(i)' /\ Moves(i)
  BY <1>0, PoolMoves DEF ReloadInv
<1>5. ReloadTypes'
  BY <1>0 DEF ReloadTypes
<1>6. Phases'
  BY <1>0, <1>4 DEF Phases
<1>7. Earlier'
  <2>1. ASSUME NEW i \in serving' PROVE Installed(i)' /\ spawn'[i].built <= windowStart
    <3>1. i \in serving /\ i \in Id /\ Installed(i) /\ spawn[i].built <= windowStart /\ i \in Pooled'
      BY <1>0, <2>1 DEF Earlier, ReloadTypes
    <3>2. spawn[i].pc # "factory"
      BY <3>1 DEF Installed, Ended
    <3>3. QED
      BY <1>4, <3>1, <3>2 DEF Moves
  <2>2. QED
    BY <2>1 DEF Earlier
<1>8. ASSUME NEW i \in Id, Serves(i)' PROVE Fresh(i)'
  <2>1. CASE /\ spawn'[i].def = spawn[i].def /\ spawn'[i].key = spawn[i].key
             /\ spawn'[i].built = spawn[i].built \/ (spawn[i].built = 0 /\ spawn'[i].built = now)
             /\ Serves(i)
    <3>1. Fresh(i) /\ spawn[i].built \in Nat
      BY <2>1, ServesFacts
    <3>2. /\ step \notin {"idle", "window"} => windowStart < now
          /\ since < now
      BY <1>0 DEF Phases
    <3>3. /\ step \notin {"idle", "window"} /\ Recent(i, windowStart) => Recent(i, windowStart)'
          /\ Recent(i, since) => Recent(i, since)'
      BY <2>1, <3>1, <3>2 DEF Recent
    <3>4. QED
      BY <1>4, <2>1, <3>1, <3>3 DEF Fresh
  <2>2. CASE spawn'[i].def = def[spawn'[i].key.server] /\ spawn'[i].built = 0
    BY <1>4, <2>2 DEF Fresh, Recent
  <2>3. CASE spawn'[i].pc = "factory" /\ i \notin Pooled'
    BY <1>8, <2>3 DEF Serves, WillInstall
  <2>4. QED
    BY <1>4, <1>8, <2>1, <2>2, <2>3 DEF Moves
<1>9. QED
  BY <1>2, <1>3, <1>4, <1>5, <1>6, <1>7, <1>8 DEF ReloadInv

\* What is left of a server once it has been evicted, and what the eviction
\* may close: backends defined after its date.
LEMMA EvictLeaves ==
    ASSUME IInv, NEW s \in Server, NEW date, evictServer(s, date)
    PROVE  /\ UNCHANGED <<def, now>> /\ Pooled' \subseteq Pooled
           /\ \A i \in Id : /\ spawn'[i].pc = spawn[i].pc /\ spawn'[i].key = spawn[i].key
                            /\ spawn'[i].e = spawn[i].e /\ spawn'[i].def = spawn[i].def
                            /\ spawn'[i].built = spawn[i].built
                            /\ WillInstall(i)' => WillInstall(i)
           /\ \A i \in Pooled' : spawn[i].key.server = s => ~(spawn[i].built > date)
           /\ \A i \in Id : WillInstall(i)' /\ spawn[i].key.server = s => ~Recent(i, date)
           /\ \A i \in Id : ~(spawn[i].built > date) => conn'[i] = conn[i]
<1> DEFINE victims == {k \in Keys : /\ k.server = s
                                    /\ entries[k] # None
                                    /\ definedAfter(entries[k], date)}
           lost    == {i \in orphans : spawn[i].key.server = s /\ definedAfter(i, date)}
           running == {spawning[k] : k \in {j \in Keys : j.server = s /\ spawning[j] # None}}
           hit(i)  == i \in running /\ (spawn[i].built = 0 \/ spawn[i].built > date)
<1>0. TypeOK /\ PoolRefs /\ SpawnRefs /\ Pooled \subseteq Id
  BY PooledInstalled DEF IInv, Refs
<1>1. /\ UNCHANGED <<def, now>>
      /\ entries' = [k \in Keys |-> IF k \in victims THEN None ELSE entries[k]]
      /\ orphans' = orphans \ lost
      /\ conn' = ClosedBy({entries[k] : k \in victims} \cup lost)
  BY DEF evictServer
<1>2. Pooled' \subseteq Pooled
  BY <1>1 DEF Pooled
<1>3. ASSUME NEW i \in Pooled', spawn[i].key.server = s, spawn[i].built > date PROVE FALSE
  <2>1. CASE i \in orphans'
    BY <1>1, <1>3, <2>1 DEF definedAfter
  <2>2. ASSUME NEW k \in Keys, entries'[k] # None, i = entries'[k] PROVE FALSE
    <3>1. k \notin victims /\ entries[k] = i /\ i # None
      BY <1>1, <2>2
    <3>2. spawn[i].key = k
      BY <1>0, <3>1 DEF PoolRefs
    <3>3. QED
      BY <1>3, <3>1, <3>2 DEF definedAfter
  <2>3. QED
    BY <2>1, <2>2 DEF Pooled
<1>4. \A i \in Id : ~(spawn[i].built > date) => conn'[i] = conn[i]
  <2>1. ASSUME NEW i \in {entries[k] : k \in victims} \cup lost PROVE spawn[i].built > date
    BY DEF definedAfter
  <2>2. QED
    BY <1>0, <1>1, <2>1, ClosedByShape
<1>5. ASSUME NEW i \in Id
      PROVE  /\ spawn'[i].pc = spawn[i].pc /\ spawn'[i].key = spawn[i].key
             /\ spawn'[i].e = spawn[i].e /\ spawn'[i].def = spawn[i].def
             /\ spawn'[i].built = spawn[i].built
             /\ WillInstall(i)' => WillInstall(i) /\ ~hit(i)
  <2>1. spawn' = [j \in Id |-> IF hit(j) THEN [spawn[j] EXCEPT !.stale = TRUE] ELSE spawn[j]]
    BY Zenon DEF evictServer
  <2>2. spawn'[i] = IF hit(i) THEN [spawn[i] EXCEPT !.stale = TRUE] ELSE spawn[i]
    BY <2>1, Zenon
  <2>3. spawn[i] \in SpawnType
    BY <1>0 DEF TypeOK
  <2> HIDE DEF hit
  <2>4. CASE hit(i)
    BY <2>2, <2>3, <2>4, StaleShape, Zenon DEF WillInstall
  <2>5. CASE ~hit(i)
    BY <2>2, <2>5, Zenon DEF WillInstall
  <2>6. QED
    BY <2>4, <2>5
<1>6. ASSUME NEW i \in Id, WillInstall(i)', spawn[i].key.server = s PROVE ~Recent(i, date)
  <2>1. WillInstall(i) /\ ~hit(i)
    BY <1>5, <1>6
  <2>2. spawning[spawn[i].key] = i /\ spawn[i].key \in Keys /\ i # None
    BY <1>0, <2>1, NoneAssumption DEF WillInstall, SpawnRefs, Reserving
  <2>3. i \in running
    BY <1>6, <2>2
  <2>4. QED
    BY <2>1, <2>3 DEF Recent
<1>7. QED
  BY <1>1, <1>2, <1>3, <1>4, <1>5, <1>6

LEMMA EvictKeepsReloadInv ==
    ASSUME ReloadInv, NEW s \in Server, Evict(s)
    PROVE  ReloadInv'
<1>0. /\ IInv /\ ReloadTypes /\ Phases /\ Earlier /\ CapRespected
      /\ now \in Nat /\ now >= 1 /\ Pooled \subseteq Id
  BY ReloadFacts
<1>1. /\ step = "evict" /\ evictServer(s, since) /\ toEvict' = toEvict \ {s}
      /\ UNCHANGED <<step, rev, prev, windowStart, published, since, failed, serving>>
  BY DEF Evict
<1>2. since \in 0..now
  BY <1>0 DEF Phases, ReloadTypes
<1>3. IInv'
  BY <1>0, <1>1, EvictStep
<1>4. CapRespected'
  BY <1>0, <1>1, <1>2, <1>3, DropCapped
<1>5. /\ UNCHANGED <<def, now>> /\ Pooled' \subseteq Pooled
      /\ \A i \in Id : /\ spawn'[i].pc = spawn[i].pc /\ spawn'[i].key = spawn[i].key
                       /\ spawn'[i].e = spawn[i].e /\ spawn'[i].def = spawn[i].def
                       /\ spawn'[i].built = spawn[i].built
                       /\ WillInstall(i)' => WillInstall(i)
      /\ \A i \in Pooled' : spawn[i].key.server = s => ~(spawn[i].built > since)
      /\ \A i \in Id : WillInstall(i)' /\ spawn[i].key.server = s => ~Recent(i, since)
  BY <1>0, <1>1, EvictLeaves
<1>6. ReloadTypes'
  BY <1>0, <1>1 DEF ReloadTypes
<1>7. Phases'
  BY <1>0, <1>1, <1>5 DEF Phases
<1>8. Earlier'
  BY <1>0, <1>1, <1>5 DEF Earlier, Installed, ReloadTypes
<1>9. \A i \in Id : Dated(i)'
  BY <1>5 DEF ReloadInv, Dated
<1>10. ASSUME NEW i \in Id, Serves(i)' PROVE Fresh(i)'
  <2>1. Serves(i)
    BY <1>5, <1>10 DEF Serves
  <2>2. Fresh(i) /\ Dated(i)
    BY <2>1, ServesFacts
  <2>3. spawn[i].key.server = s => ~Recent(i, since)
    <3>1. CASE i \in Pooled'
      <4>1. spawn[i].e = i
        BY <1>0, <1>5, <3>1, PooledInstalled DEF Installed
      <4>2. spawn[i].built # 0
        BY <1>0, <2>2, <4>1 DEF Dated
      <4>3. QED
        BY <1>5, <3>1, <4>2 DEF Recent
    <3>2. QED
      BY <1>5, <1>10, <3>1 DEF Serves
  <2>4. QED
    BY <1>1, <1>5, <2>2, <2>3 DEF Fresh, Recent
<1>11. QED
  BY <1>3, <1>4, <1>6, <1>7, <1>8, <1>9, <1>10 DEF ReloadInv

LEMMA InitReload == ReloadInit => ReloadInv
<1> SUFFICES ASSUME ReloadInit PROVE ReloadInv
  OBVIOUS
<1>1. Init /\ IInv
  BY InitInv DEF ReloadInit
<1>2. CapRespected
  BY <1>1, InitCapped
<1>3. ReloadTypes /\ Phases
  <2>1. /\ step = "idle" /\ toEvict = {} /\ serving = {} /\ since = 0 /\ windowStart = 0
        /\ rev = NoConfig /\ prev = NoConfig /\ failed = NoConfig /\ now = 1
    BY <1>1 DEF ReloadInit, Init
  <2>2. published \in BOOLEAN
    BY DEF ReloadInit
  <2>3. QED
    BY <2>1, <2>2 DEF ReloadTypes, Phases, ApplyStep
<1>4. Earlier
  BY DEF ReloadInit, Earlier
<1>5. ASSUME NEW i \in Id PROVE Dated(i) /\ ~Serves(i)
  <2>1. spawn[i].pc = "free" /\ spawn[i].e = None /\ i \notin Pooled
    BY <1>1 DEF Init, BlankSpawn, Pooled
  <2>2. i # None
    BY NoneAssumption
  <2>3. QED
    BY <2>1, <2>2 DEF Dated, Serves, WillInstall
<1>6. QED
  BY <1>1, <1>2, <1>3, <1>4, <1>5 DEF ReloadInv

LEMMA NextReload == ReloadInv /\ [ReloadNext]_allVars => ReloadInv'
<1> SUFFICES ASSUME ReloadInv, [ReloadNext]_allVars PROVE ReloadInv'
  OBVIOUS
<1>1. CASE /\ PoolStep
           /\ serving' = serving \cap Pooled'
           /\ UNCHANGED <<step, rev, prev, windowStart, published, toEvict, since, failed>>
  BY <1>1, PoolKeepsReloadInv
<1>2. CASE Apply
  BY <1>2, OpeningSteps, ClosingSteps, EvictKeepsReloadInv DEF Apply
<1>3. CASE UNCHANGED allVars
  <2>1. UNCHANGED <<poolVars, spawn, entry, conn, caller>> /\ UNCHANGED <<def, now>>
        /\ UNCHANGED applyVars
    BY <1>3 DEF allVars, vars
  <2>2. ReloadTypes' /\ Phases' /\ Earlier'
    BY <2>1 DEF ReloadInv, ReloadTypes, Phases, Earlier, Installed, applyVars
  <2>3. \A i \in Id : Serves(i) => Fresh(i)'
    BY <2>1 DEF ReloadInv, Fresh, Recent, applyVars
  <2>4. now \in Nat /\ def \in [Server -> Def \cup {NoDef}]
    BY ReloadFacts
  <2>5. QED
    BY <2>1, <2>2, <2>3, <2>4, ConfigMoves
<1>4. QED
  BY <1>1, <1>2, <1>3 DEF ReloadNext

\* The inductive invariant of a reload in progress.
THEOREM ReloadInvariant == ReloadSpec => []ReloadInv
BY InitReload, NextReload, PTL DEF ReloadSpec

\* reconcile.go:31: the reconciler's state keeps its types through every
\* interleaving of an apply with the pool.
THEOREM ReloadTypeCorrect == ReloadSpec => []ReloadTypeOK
<1>1. ReloadInv => ReloadTypeOK
  BY DEF ReloadInv, ReloadTypes, Phases, IInv, ReloadTypeOK
<1>2. QED
  BY <1>1, ReloadInvariant, PTL

\* reconcile.go:119 and :222: for any servers, definitions and revisions, and
\* however many reloads, once an apply is over no backend that serves, drains
\* or is about to be installed was built from another definition than the
\* live one.
THEOREM DefinitionsStayFresh == ReloadSpec => []DefinitionsFresh
<1>1. ReloadInv => DefinitionsFresh
  BY DEF ReloadInv, Serves, Fresh, DefinitionsFresh
<1>2. QED
  BY <1>1, ReloadInvariant, PTL

\* pool.go:42: the cap holds through reloads as well, their evictions
\* included.
THEOREM CapHoldsUnderReload == ReloadSpec => []CapRespected
<1>1. ReloadInv => CapRespected
  BY DEF ReloadInv
<1>2. QED
  BY <1>1, ReloadInvariant, PTL

\* reconcile.go:121: the eviction of a refused revision closes nothing that
\* was pooled before the revision became reachable.
THEOREM RefusedRevisionSpares == ReloadSpec => RefusedSparesPrev
<1> DEFINE Spared == \A i \in Id :
              step = "evict" /\ failed = rev /\ (\E s \in Server : Evict(s)) /\ i \in serving
              => conn'[i] = conn[i]
<1>1. ReloadInv /\ [ReloadNext]_allVars => [Spared]_allVars
  <2> SUFFICES ASSUME ReloadInv, NEW i \in Id, step = "evict", failed = rev,
                      NEW s \in Server, Evict(s), i \in serving
               PROVE  conn'[i] = conn[i]
    OBVIOUS
  <2>1. IInv /\ Phases /\ Earlier /\ ReloadTypes
    BY ReloadFacts
  <2>2. s \in toEvict /\ evictServer(s, since)
    BY DEF Evict
  <2>3. since = windowStart /\ windowStart \in Nat
    BY <2>1, <2>2 DEF Phases, ReloadTypes
  <2>4. spawn[i].built <= windowStart /\ spawn[i].built \in Nat
    BY <2>1 DEF Earlier, IInv, TypeOK, SpawnType
  <2>5. ~(spawn[i].built > since)
    BY <2>3, <2>4
  <2>6. QED
    BY <2>1, <2>2, <2>5, EvictLeaves
<1>2. QED
  BY <1>1, ReloadInvariant, PTL DEF ReloadSpec, RefusedSparesPrev
=============================================================================
