--------------------------- MODULE CredCacheProofs ---------------------------
(***************************************************************************)
(* The safety of the credential cache for every number of callers,         *)
(* rotations and sweeps.                                                   *)
(*                                                                         *)
(* None of the three invariants is inductive alone.  OneConversation needs *)
(* nothing more than the types.  InvalidatedStaysOut needs that a refresh  *)
(* which began before an Invalidate knows that the entry moved.            *)
(* GenNamesMaterial needs that no generation is ahead of globalGen and     *)
(* that whatever was served under the entry's generation is the material   *)
(* the entry remembers; NoChurn needs that what it remembers is what was   *)
(* last stored.                                                            *)
(***************************************************************************)
EXTENDS CredCache, TLAPS

\* An answer has been read before it is delivered, and a stale refresh knows it.
Conversations ==
    /\ \A c \in Caller : pc[c] = "answering" => answer \in Nat
    /\ refresh.old => refresh.on /\ refresh.moved

\* TypeOK in two parts: the flags, and the rest.
Flags == present \in BOOLEAN /\ backoff \in BOOLEAN /\ window \in BOOLEAN

Values ==
    /\ source \in Nat /\ globalGen \in Nat /\ sweeps \in Nat
    /\ creds \in Creds \cup {None}
    /\ life \in {"early", "due", "expired"}
    /\ gen \in Nat
    /\ gone \in Nat \cup {None}
    /\ refresh \in Refresh
    /\ holder \in Caller \cup {None}
    /\ pc \in [Caller -> {"idle", "start", "waiting", "asking", "answering"}]
    /\ answer \in Nat \cup {None}
    /\ served \subseteq [gen : Nat, mat : Nat]
    /\ last \in Nat \cup {None}

Generations ==
    /\ gen <= globalGen
    /\ \A a \in served : a.gen <= globalGen
    /\ last = Material
    /\ Material # None => \A a \in served : a.gen = gen => a.mat = Material

CacheInv ==
    /\ TypeOK
    /\ OneConversation
    /\ InvalidatedStaysOut
    /\ Conversations
    /\ Generations
    /\ GenNamesMaterial

-----------------------------------------------------------------------------

\* CredCache.Init: the empty cache satisfies the invariant.
LEMMA InitInv == Init => CacheInv
<1> SUFFICES ASSUME Init PROVE CacheInv
  OBVIOUS
<1>1. Flags
  BY DEF Init, Flags
<1>2. Values
  BY DEF Init, Values, Refresh, NoRefresh
<1>3. OneConversation /\ InvalidatedStaysOut /\ Conversations
  BY DEF Init, OneConversation, InvalidatedStaysOut, Conversations, NoRefresh
<1>4. Generations /\ GenNamesMaterial
  BY DEF Init, Generations, GenNamesMaterial, Material
<1> QED
  BY <1>1, <1>2, <1>3, <1>4 DEF CacheInv, TypeOK, Flags, Values

\* Every step of CredCache sets a flag to TRUE, to FALSE or not at all.
LEMMA FlagsPreserved == CacheInv /\ [Next]_vars => Flags'
<1> SUFFICES ASSUME CacheInv, [Next]_vars PROVE Flags'
  OBVIOUS
<1> USE NoneAssumption DEF CacheInv, TypeOK, Flags
<1>1. ASSUME NEW c \in Caller, Call(c) PROVE Flags'
  BY <1>1 DEF Call, Goes, WakeAll, envVars, entryVars, callVars, Locks, Valid
<1>2. ASSUME NEW c \in Caller, ServeValid(c) PROVE Flags'
  BY <1>2 DEF ServeValid, Goes, WakeAll, envVars, entryVars, callVars, Locks, Valid
<1>3. ASSUME NEW c \in Caller, WaitRefresh(c) PROVE Flags'
  BY <1>3 DEF WaitRefresh, Goes, WakeAll, envVars, entryVars, callVars, Locks, Valid
<1>4. ASSUME NEW c \in Caller, FailFast(c) PROVE Flags'
  BY <1>4 DEF FailFast, Goes, WakeAll, envVars, entryVars, callVars, Locks, Valid
<1>5. ASSUME NEW c \in Caller, Ask(c) PROVE Flags'
  BY <1>5 DEF Ask, Goes, WakeAll, envVars, entryVars, callVars, Locks, Valid
<1>6. ASSUME NEW c \in Caller, SourceReads(c) PROVE Flags'
  BY <1>6 DEF SourceReads, Goes, WakeAll, envVars, entryVars, callVars, Locks, Valid
<1>7. ASSUME NEW c \in Caller, ResolveOk(c) PROVE Flags'
  BY <1>7 DEF ResolveOk, Goes, WakeAll, envVars, entryVars, callVars, Locks, Valid, store, Material
<1>8. ASSUME NEW c \in Caller, ResolveErr(c) PROVE Flags'
  BY <1>8 DEF ResolveErr, Goes, WakeAll, envVars, entryVars, callVars, Locks, Valid
<1>9. ASSUME NEW c \in Caller, WaitCancelled(c) PROVE Flags'
  BY <1>9 DEF WaitCancelled, Goes, WakeAll, envVars, entryVars, callVars, Locks, Valid
<1>10. CASE RefreshReads
  BY <1>10 DEF RefreshReads, Goes, WakeAll, envVars, entryVars, callVars, Locks, Valid
<1>11. CASE RefreshSuperseded
  BY <1>11 DEF RefreshSuperseded, Goes, WakeAll, envVars, entryVars, callVars, Locks, Valid
<1>12. CASE RefreshOk
  BY <1>12 DEF RefreshOk, Goes, WakeAll, envVars, entryVars, callVars, Locks, Valid, store, Material
<1>13. CASE RefreshErr
  BY <1>13 DEF RefreshErr, Goes, WakeAll, envVars, entryVars, callVars, Locks, Valid
<1>14. CASE Invalidate
  BY <1>14 DEF Invalidate, Goes, WakeAll, envVars, entryVars, callVars, Locks, Valid
<1>15. CASE Sweep
  BY <1>15 DEF Sweep, Goes, WakeAll, envVars, entryVars, callVars, Locks, Valid
<1>16. CASE Rotate
  BY <1>16 DEF Rotate, Goes, WakeAll, envVars, entryVars, callVars, Locks, Valid
<1>17. CASE Age
  BY <1>17 DEF Age, Goes, WakeAll, envVars, entryVars, callVars, Locks, Valid
<1>18. CASE BackoffEnds
  BY <1>18 DEF BackoffEnds, Goes, WakeAll, envVars, entryVars, callVars, Locks, Valid
<1>19. CASE WindowEnds
  BY <1>19 DEF WindowEnds, Goes, WakeAll, envVars, entryVars, callVars, Locks, Valid
<1>20. CASE UNCHANGED vars
  BY <1>20 DEF vars, Goes, WakeAll, envVars, entryVars, callVars, Locks, Valid
<1> QED
  BY <1>1, <1>2, <1>3, <1>4, <1>5, <1>6, <1>7, <1>8, <1>9, <1>10, <1>11, <1>12, <1>13, <1>14, <1>15, <1>16, <1>17, <1>18, <1>19, <1>20 DEF Next, Resolves, refreshAhead

\* Every step of CredCache keeps the types; a stored answer is a material.
LEMMA ValuesPreserved == CacheInv /\ [Next]_vars => Values'
<1> SUFFICES ASSUME CacheInv, [Next]_vars PROVE Values'
  OBVIOUS
<1> USE NoneAssumption DEF CacheInv, TypeOK, Values, Conversations, Creds, Refresh, NoRefresh
<1>1. ASSUME NEW c \in Caller, Call(c) PROVE Values'
  BY <1>1 DEF Call, Goes, WakeAll, envVars, entryVars, callVars, Locks, Valid
<1>2. ASSUME NEW c \in Caller, ServeValid(c) PROVE Values'
  BY <1>2 DEF ServeValid, Goes, WakeAll, envVars, entryVars, callVars, Locks, Valid
<1>3. ASSUME NEW c \in Caller, WaitRefresh(c) PROVE Values'
  BY <1>3 DEF WaitRefresh, Goes, WakeAll, envVars, entryVars, callVars, Locks, Valid
<1>4. ASSUME NEW c \in Caller, FailFast(c) PROVE Values'
  BY <1>4 DEF FailFast, Goes, WakeAll, envVars, entryVars, callVars, Locks, Valid
<1>5. ASSUME NEW c \in Caller, Ask(c) PROVE Values'
  BY <1>5 DEF Ask, Goes, WakeAll, envVars, entryVars, callVars, Locks, Valid
<1>6. ASSUME NEW c \in Caller, SourceReads(c) PROVE Values'
  BY <1>6 DEF SourceReads, Goes, WakeAll, envVars, entryVars, callVars, Locks, Valid
<1>7. ASSUME NEW c \in Caller, ResolveOk(c) PROVE Values'
  BY <1>7 DEF ResolveOk, Goes, WakeAll, envVars, entryVars, callVars, Locks, Valid, store, Material
<1>8. ASSUME NEW c \in Caller, ResolveErr(c) PROVE Values'
  BY <1>8 DEF ResolveErr, Goes, WakeAll, envVars, entryVars, callVars, Locks, Valid
<1>9. ASSUME NEW c \in Caller, WaitCancelled(c) PROVE Values'
  BY <1>9 DEF WaitCancelled, Goes, WakeAll, envVars, entryVars, callVars, Locks, Valid
<1>10. CASE RefreshReads
  BY <1>10 DEF RefreshReads, Goes, WakeAll, envVars, entryVars, callVars, Locks, Valid
<1>11. CASE RefreshSuperseded
  BY <1>11 DEF RefreshSuperseded, Goes, WakeAll, envVars, entryVars, callVars, Locks, Valid
<1>12. CASE RefreshOk
  BY <1>12 DEF RefreshOk, Goes, WakeAll, envVars, entryVars, callVars, Locks, Valid, store, Material
<1>13. CASE RefreshErr
  BY <1>13 DEF RefreshErr, Goes, WakeAll, envVars, entryVars, callVars, Locks, Valid
<1>14. CASE Invalidate
  BY <1>14 DEF Invalidate, Goes, WakeAll, envVars, entryVars, callVars, Locks, Valid
<1>15. CASE Sweep
  BY <1>15 DEF Sweep, Goes, WakeAll, envVars, entryVars, callVars, Locks, Valid
<1>16. CASE Rotate
  BY <1>16 DEF Rotate, Goes, WakeAll, envVars, entryVars, callVars, Locks, Valid
<1>17. CASE Age
  BY <1>17 DEF Age, Goes, WakeAll, envVars, entryVars, callVars, Locks, Valid
<1>18. CASE BackoffEnds
  BY <1>18 DEF BackoffEnds, Goes, WakeAll, envVars, entryVars, callVars, Locks, Valid
<1>19. CASE WindowEnds
  BY <1>19 DEF WindowEnds, Goes, WakeAll, envVars, entryVars, callVars, Locks, Valid
<1>20. CASE UNCHANGED vars
  BY <1>20 DEF vars, Goes, WakeAll, envVars, entryVars, callVars, Locks, Valid
<1> QED
  BY <1>1, <1>2, <1>3, <1>4, <1>5, <1>6, <1>7, <1>8, <1>9, <1>10, <1>11, <1>12, <1>13, <1>14, <1>15, <1>16, <1>17, <1>18, <1>19, <1>20 DEF Next, Resolves, refreshAhead

\* Every step keeps one conversation with the source at a time.
LEMMA ConversationPreserved == CacheInv /\ [Next]_vars => OneConversation'
<1> SUFFICES ASSUME CacheInv, [Next]_vars PROVE OneConversation'
  OBVIOUS
<1> USE NoneAssumption DEF CacheInv, TypeOK, OneConversation, Refresh, NoRefresh
<1>1. ASSUME NEW c \in Caller, Call(c) PROVE OneConversation'
  BY <1>1 DEF Call, Goes, WakeAll, envVars, entryVars, callVars, Locks, Valid
<1>2. ASSUME NEW c \in Caller, ServeValid(c) PROVE OneConversation'
  BY <1>2 DEF ServeValid, Goes, WakeAll, envVars, entryVars, callVars, Locks, Valid
<1>3. ASSUME NEW c \in Caller, WaitRefresh(c) PROVE OneConversation'
  BY <1>3 DEF WaitRefresh, Goes, WakeAll, envVars, entryVars, callVars, Locks, Valid
<1>4. ASSUME NEW c \in Caller, FailFast(c) PROVE OneConversation'
  BY <1>4 DEF FailFast, Goes, WakeAll, envVars, entryVars, callVars, Locks, Valid
<1>5. ASSUME NEW c \in Caller, Ask(c) PROVE OneConversation'
  BY <1>5 DEF Ask, Goes, WakeAll, envVars, entryVars, callVars, Locks, Valid
<1>6. ASSUME NEW c \in Caller, SourceReads(c) PROVE OneConversation'
  BY <1>6 DEF SourceReads, Goes, WakeAll, envVars, entryVars, callVars, Locks, Valid
<1>7. ASSUME NEW c \in Caller, ResolveOk(c) PROVE OneConversation'
  BY <1>7 DEF ResolveOk, Goes, WakeAll, envVars, entryVars, callVars, Locks, Valid, store, Material
<1>8. ASSUME NEW c \in Caller, ResolveErr(c) PROVE OneConversation'
  BY <1>8 DEF ResolveErr, Goes, WakeAll, envVars, entryVars, callVars, Locks, Valid
<1>9. ASSUME NEW c \in Caller, WaitCancelled(c) PROVE OneConversation'
  BY <1>9 DEF WaitCancelled, Goes, WakeAll, envVars, entryVars, callVars, Locks, Valid
<1>10. CASE RefreshReads
  BY <1>10 DEF RefreshReads, Goes, WakeAll, envVars, entryVars, callVars, Locks, Valid
<1>11. CASE RefreshSuperseded
  BY <1>11 DEF RefreshSuperseded, Goes, WakeAll, envVars, entryVars, callVars, Locks, Valid
<1>12. CASE RefreshOk
  BY <1>12 DEF RefreshOk, Goes, WakeAll, envVars, entryVars, callVars, Locks, Valid, store, Material
<1>13. CASE RefreshErr
  BY <1>13 DEF RefreshErr, Goes, WakeAll, envVars, entryVars, callVars, Locks, Valid
<1>14. CASE Invalidate
  BY <1>14 DEF Invalidate, Goes, WakeAll, envVars, entryVars, callVars, Locks, Valid
<1>15. CASE Sweep
  BY <1>15 DEF Sweep, Goes, WakeAll, envVars, entryVars, callVars, Locks, Valid
<1>16. CASE Rotate
  BY <1>16 DEF Rotate, Goes, WakeAll, envVars, entryVars, callVars, Locks, Valid
<1>17. CASE Age
  BY <1>17 DEF Age, Goes, WakeAll, envVars, entryVars, callVars, Locks, Valid
<1>18. CASE BackoffEnds
  BY <1>18 DEF BackoffEnds, Goes, WakeAll, envVars, entryVars, callVars, Locks, Valid
<1>19. CASE WindowEnds
  BY <1>19 DEF WindowEnds, Goes, WakeAll, envVars, entryVars, callVars, Locks, Valid
<1>20. CASE UNCHANGED vars
  BY <1>20 DEF vars, Goes, WakeAll, envVars, entryVars, callVars, Locks, Valid
<1> QED
  BY <1>1, <1>2, <1>3, <1>4, <1>5, <1>6, <1>7, <1>8, <1>9, <1>10, <1>11, <1>12, <1>13, <1>14, <1>15, <1>16, <1>17, <1>18, <1>19, <1>20 DEF Next, Resolves, refreshAhead

\* Every step keeps a refresh that Invalidate overtook aware of it, and an answer in hand.
LEMMA StaleKnown == CacheInv /\ [Next]_vars => Conversations'
<1> SUFFICES ASSUME CacheInv, [Next]_vars PROVE Conversations'
  OBVIOUS
<1> USE NoneAssumption DEF CacheInv, TypeOK, OneConversation, Conversations, Refresh, NoRefresh
<1>1. ASSUME NEW c \in Caller, Call(c) PROVE Conversations'
  BY <1>1 DEF Call, Goes, WakeAll, envVars, entryVars, callVars, Locks, Valid
<1>2. ASSUME NEW c \in Caller, ServeValid(c) PROVE Conversations'
  BY <1>2 DEF ServeValid, Goes, WakeAll, envVars, entryVars, callVars, Locks, Valid
<1>3. ASSUME NEW c \in Caller, WaitRefresh(c) PROVE Conversations'
  BY <1>3 DEF WaitRefresh, Goes, WakeAll, envVars, entryVars, callVars, Locks, Valid
<1>4. ASSUME NEW c \in Caller, FailFast(c) PROVE Conversations'
  BY <1>4 DEF FailFast, Goes, WakeAll, envVars, entryVars, callVars, Locks, Valid
<1>5. ASSUME NEW c \in Caller, Ask(c) PROVE Conversations'
  BY <1>5 DEF Ask, Goes, WakeAll, envVars, entryVars, callVars, Locks, Valid
<1>6. ASSUME NEW c \in Caller, SourceReads(c) PROVE Conversations'
  BY <1>6 DEF SourceReads, Goes, WakeAll, envVars, entryVars, callVars, Locks, Valid
<1>7. ASSUME NEW c \in Caller, ResolveOk(c) PROVE Conversations'
  BY <1>7 DEF ResolveOk, Goes, WakeAll, envVars, entryVars, callVars, Locks, Valid, store, Material
<1>8. ASSUME NEW c \in Caller, ResolveErr(c) PROVE Conversations'
  BY <1>8 DEF ResolveErr, Goes, WakeAll, envVars, entryVars, callVars, Locks, Valid
<1>9. ASSUME NEW c \in Caller, WaitCancelled(c) PROVE Conversations'
  BY <1>9 DEF WaitCancelled, Goes, WakeAll, envVars, entryVars, callVars, Locks, Valid
<1>10. CASE RefreshReads
  BY <1>10 DEF RefreshReads, Goes, WakeAll, envVars, entryVars, callVars, Locks, Valid
<1>11. CASE RefreshSuperseded
  BY <1>11 DEF RefreshSuperseded, Goes, WakeAll, envVars, entryVars, callVars, Locks, Valid
<1>12. CASE RefreshOk
  BY <1>12 DEF RefreshOk, Goes, WakeAll, envVars, entryVars, callVars, Locks, Valid, store, Material
<1>13. CASE RefreshErr
  BY <1>13 DEF RefreshErr, Goes, WakeAll, envVars, entryVars, callVars, Locks, Valid
<1>14. CASE Invalidate
  BY <1>14 DEF Invalidate, Goes, WakeAll, envVars, entryVars, callVars, Locks, Valid
<1>15. CASE Sweep
  BY <1>15 DEF Sweep, Goes, WakeAll, envVars, entryVars, callVars, Locks, Valid
<1>16. CASE Rotate
  BY <1>16 DEF Rotate, Goes, WakeAll, envVars, entryVars, callVars, Locks, Valid
<1>17. CASE Age
  BY <1>17 DEF Age, Goes, WakeAll, envVars, entryVars, callVars, Locks, Valid
<1>18. CASE BackoffEnds
  BY <1>18 DEF BackoffEnds, Goes, WakeAll, envVars, entryVars, callVars, Locks, Valid
<1>19. CASE WindowEnds
  BY <1>19 DEF WindowEnds, Goes, WakeAll, envVars, entryVars, callVars, Locks, Valid
<1>20. CASE UNCHANGED vars
  BY <1>20 DEF vars, Goes, WakeAll, envVars, entryVars, callVars, Locks, Valid
<1> QED
  BY <1>1, <1>2, <1>3, <1>4, <1>5, <1>6, <1>7, <1>8, <1>9, <1>10, <1>11, <1>12, <1>13, <1>14, <1>15, <1>16, <1>17, <1>18, <1>19, <1>20 DEF Next, Resolves, refreshAhead

\* Every step keeps a credential asked for before an Invalidate out of the cache.
LEMMA OutPreserved == CacheInv /\ [Next]_vars => InvalidatedStaysOut'
<1> SUFFICES ASSUME CacheInv, [Next]_vars PROVE InvalidatedStaysOut'
  OBVIOUS
<1> USE NoneAssumption DEF CacheInv, TypeOK, InvalidatedStaysOut, Conversations, Creds, Refresh
<1>1. ASSUME NEW c \in Caller, Call(c) PROVE InvalidatedStaysOut'
  BY <1>1 DEF Call, Goes, WakeAll, envVars, entryVars, callVars, Locks, Valid
<1>2. ASSUME NEW c \in Caller, ServeValid(c) PROVE InvalidatedStaysOut'
  BY <1>2 DEF ServeValid, Goes, WakeAll, envVars, entryVars, callVars, Locks, Valid
<1>3. ASSUME NEW c \in Caller, WaitRefresh(c) PROVE InvalidatedStaysOut'
  BY <1>3 DEF WaitRefresh, Goes, WakeAll, envVars, entryVars, callVars, Locks, Valid
<1>4. ASSUME NEW c \in Caller, FailFast(c) PROVE InvalidatedStaysOut'
  BY <1>4 DEF FailFast, Goes, WakeAll, envVars, entryVars, callVars, Locks, Valid
<1>5. ASSUME NEW c \in Caller, Ask(c) PROVE InvalidatedStaysOut'
  BY <1>5 DEF Ask, Goes, WakeAll, envVars, entryVars, callVars, Locks, Valid
<1>6. ASSUME NEW c \in Caller, SourceReads(c) PROVE InvalidatedStaysOut'
  BY <1>6 DEF SourceReads, Goes, WakeAll, envVars, entryVars, callVars, Locks, Valid
<1>7. ASSUME NEW c \in Caller, ResolveOk(c) PROVE InvalidatedStaysOut'
  BY <1>7 DEF ResolveOk, Goes, WakeAll, envVars, entryVars, callVars, Locks, Valid, store, Material
<1>8. ASSUME NEW c \in Caller, ResolveErr(c) PROVE InvalidatedStaysOut'
  BY <1>8 DEF ResolveErr, Goes, WakeAll, envVars, entryVars, callVars, Locks, Valid
<1>9. ASSUME NEW c \in Caller, WaitCancelled(c) PROVE InvalidatedStaysOut'
  BY <1>9 DEF WaitCancelled, Goes, WakeAll, envVars, entryVars, callVars, Locks, Valid
<1>10. CASE RefreshReads
  BY <1>10 DEF RefreshReads, Goes, WakeAll, envVars, entryVars, callVars, Locks, Valid
<1>11. CASE RefreshSuperseded
  BY <1>11 DEF RefreshSuperseded, Goes, WakeAll, envVars, entryVars, callVars, Locks, Valid
<1>12. CASE RefreshOk
  BY <1>12 DEF RefreshOk, Goes, WakeAll, envVars, entryVars, callVars, Locks, Valid, store, Material
<1>13. CASE RefreshErr
  BY <1>13 DEF RefreshErr, Goes, WakeAll, envVars, entryVars, callVars, Locks, Valid
<1>14. CASE Invalidate
  BY <1>14 DEF Invalidate, Goes, WakeAll, envVars, entryVars, callVars, Locks, Valid
<1>15. CASE Sweep
  BY <1>15 DEF Sweep, Goes, WakeAll, envVars, entryVars, callVars, Locks, Valid
<1>16. CASE Rotate
  BY <1>16 DEF Rotate, Goes, WakeAll, envVars, entryVars, callVars, Locks, Valid
<1>17. CASE Age
  BY <1>17 DEF Age, Goes, WakeAll, envVars, entryVars, callVars, Locks, Valid
<1>18. CASE BackoffEnds
  BY <1>18 DEF BackoffEnds, Goes, WakeAll, envVars, entryVars, callVars, Locks, Valid
<1>19. CASE WindowEnds
  BY <1>19 DEF WindowEnds, Goes, WakeAll, envVars, entryVars, callVars, Locks, Valid
<1>20. CASE UNCHANGED vars
  BY <1>20 DEF vars, Goes, WakeAll, envVars, entryVars, callVars, Locks, Valid
<1> QED
  BY <1>1, <1>2, <1>3, <1>4, <1>5, <1>6, <1>7, <1>8, <1>9, <1>10, <1>11, <1>12, <1>13, <1>14, <1>15, <1>16, <1>17, <1>18, <1>19, <1>20 DEF Next, Resolves, refreshAhead

\* store: what is recorded and handed out keeps generations and materials
\* together, whether the material moved or came back unchanged.
LEMMA StoreKeeps ==
  ASSUME CacheInv, NEW m \in Nat, NEW o \in BOOLEAN, store(m, o),
         served' \subseteq served \cup {[gen |-> gen', mat |-> m]}
  PROVE  Generations' /\ GenNamesMaterial'
<1> DEFINE given == [gen |-> gen', mat |-> m]
<1>1. /\ creds' = [mat |-> m, old |-> o] /\ last' = m
      /\ Material' = m /\ last' = Material'
  BY NoneAssumption DEF store, Material, Creds
<1>2. \A a \in served' : a \in served \/ (a.gen = gen' /\ a.mat = m)
  OBVIOUS
<1>3. /\ gen \in Nat /\ globalGen \in Nat /\ gen <= globalGen
      /\ \A a \in served : a.gen \in Nat /\ a.gen <= globalGen
  BY DEF CacheInv, TypeOK, Generations
<1>4. CASE Material # m
  <2>1. gen' = globalGen + 1 /\ globalGen' = globalGen + 1
    BY <1>4 DEF store
  <2>2. \A a \in served : a.gen # gen'
    BY <1>3, <2>1
  <2> QED
    BY <1>1, <1>2, <1>3, <2>1, <2>2 DEF CacheInv, Generations, GenNamesMaterial
<1>5. CASE Material = m
  <2>1. gen' = gen /\ globalGen' = globalGen
    BY <1>5 DEF store
  <2>2. \A a \in served : a.gen = gen => a.mat = m
    BY <1>5, NoneAssumption DEF CacheInv, Generations
  <2> QED
    BY <1>1, <1>2, <1>3, <2>1, <2>2 DEF CacheInv, Generations, GenNamesMaterial
<1> QED
  BY <1>4, <1>5

\* Every step keeps the entry's generation and its material together.
LEMMA GenerationsPreserved == CacheInv /\ [Next]_vars => Generations' /\ GenNamesMaterial'
<1> SUFFICES ASSUME CacheInv, [Next]_vars PROVE Generations' /\ GenNamesMaterial'
  OBVIOUS
<1>1. ASSUME NEW c \in Caller, Call(c) PROVE Generations' /\ GenNamesMaterial'
  BY NoneAssumption, <1>1 DEF CacheInv, TypeOK, Generations, GenNamesMaterial, Material, Creds, Call, Goes, WakeAll, envVars, entryVars, callVars, Locks, Valid
<1>2. ASSUME NEW c \in Caller, ServeValid(c) PROVE Generations' /\ GenNamesMaterial'
  BY NoneAssumption, <1>2 DEF CacheInv, TypeOK, Generations, GenNamesMaterial, Material, Creds, ServeValid, Goes, WakeAll, envVars, entryVars, callVars, Locks, Valid
<1>3. ASSUME NEW c \in Caller, WaitRefresh(c) PROVE Generations' /\ GenNamesMaterial'
  BY NoneAssumption, <1>3 DEF CacheInv, TypeOK, Generations, GenNamesMaterial, Material, Creds, WaitRefresh, Goes, WakeAll, envVars, entryVars, callVars, Locks, Valid
<1>4. ASSUME NEW c \in Caller, FailFast(c) PROVE Generations' /\ GenNamesMaterial'
  BY NoneAssumption, <1>4 DEF CacheInv, TypeOK, Generations, GenNamesMaterial, Material, Creds, FailFast, Goes, WakeAll, envVars, entryVars, callVars, Locks, Valid
<1>5. ASSUME NEW c \in Caller, Ask(c) PROVE Generations' /\ GenNamesMaterial'
  BY NoneAssumption, <1>5 DEF CacheInv, TypeOK, Generations, GenNamesMaterial, Material, Creds, Ask, Goes, WakeAll, envVars, entryVars, callVars, Locks, Valid
<1>6. ASSUME NEW c \in Caller, SourceReads(c) PROVE Generations' /\ GenNamesMaterial'
  BY NoneAssumption, <1>6 DEF CacheInv, TypeOK, Generations, GenNamesMaterial, Material, Creds, SourceReads, Goes, WakeAll, envVars, entryVars, callVars, Locks, Valid
<1>7. ASSUME NEW c \in Caller, ResolveOk(c) PROVE Generations' /\ GenNamesMaterial'
  <2>1. answer \in Nat
    BY <1>7 DEF ResolveOk, CacheInv, Conversations
  <2>2. store(answer, FALSE) /\ served' \subseteq served \cup {[gen |-> gen', mat |-> answer]}
    BY <1>7 DEF ResolveOk
  <2> QED
    BY <2>1, <2>2, StoreKeeps
<1>8. ASSUME NEW c \in Caller, ResolveErr(c) PROVE Generations' /\ GenNamesMaterial'
  BY NoneAssumption, <1>8 DEF CacheInv, TypeOK, Generations, GenNamesMaterial, Material, Creds, ResolveErr, Goes, WakeAll, envVars, entryVars, callVars, Locks, Valid
<1>9. ASSUME NEW c \in Caller, WaitCancelled(c) PROVE Generations' /\ GenNamesMaterial'
  BY NoneAssumption, <1>9 DEF CacheInv, TypeOK, Generations, GenNamesMaterial, Material, Creds, WaitCancelled, Goes, WakeAll, envVars, entryVars, callVars, Locks, Valid
<1>10. CASE RefreshReads
  BY NoneAssumption, <1>10 DEF CacheInv, TypeOK, Generations, GenNamesMaterial, Material, Creds, RefreshReads, Goes, WakeAll, envVars, entryVars, callVars, Locks, Valid
<1>11. CASE RefreshSuperseded
  BY NoneAssumption, <1>11 DEF CacheInv, TypeOK, Generations, GenNamesMaterial, Material, Creds, RefreshSuperseded, Goes, WakeAll, envVars, entryVars, callVars, Locks, Valid
<1>12. CASE RefreshOk
  <2>1. refresh.mat \in Nat /\ refresh.old \in BOOLEAN
    BY <1>12 DEF RefreshOk, CacheInv, TypeOK, Refresh
  <2>2. store(refresh.mat, refresh.old) /\ served' = served
    BY <1>12 DEF RefreshOk
  <2> QED
    BY <2>1, <2>2, StoreKeeps
<1>13. CASE RefreshErr
  BY NoneAssumption, <1>13 DEF CacheInv, TypeOK, Generations, GenNamesMaterial, Material, Creds, RefreshErr, Goes, WakeAll, envVars, entryVars, callVars, Locks, Valid
<1>14. CASE Invalidate
  BY NoneAssumption, <1>14 DEF CacheInv, TypeOK, Generations, GenNamesMaterial, Material, Creds, Invalidate, Goes, WakeAll, envVars, entryVars, callVars, Locks, Valid
<1>15. CASE Sweep
  BY NoneAssumption, <1>15 DEF CacheInv, TypeOK, Generations, GenNamesMaterial, Material, Creds, Sweep, Goes, WakeAll, envVars, entryVars, callVars, Locks, Valid
<1>16. CASE Rotate
  BY NoneAssumption, <1>16 DEF CacheInv, TypeOK, Generations, GenNamesMaterial, Material, Creds, Rotate, Goes, WakeAll, envVars, entryVars, callVars, Locks, Valid
<1>17. CASE Age
  BY NoneAssumption, <1>17 DEF CacheInv, TypeOK, Generations, GenNamesMaterial, Material, Creds, Age, Goes, WakeAll, envVars, entryVars, callVars, Locks, Valid
<1>18. CASE BackoffEnds
  BY NoneAssumption, <1>18 DEF CacheInv, TypeOK, Generations, GenNamesMaterial, Material, Creds, BackoffEnds, Goes, WakeAll, envVars, entryVars, callVars, Locks, Valid
<1>19. CASE WindowEnds
  BY NoneAssumption, <1>19 DEF CacheInv, TypeOK, Generations, GenNamesMaterial, Material, Creds, WindowEnds, Goes, WakeAll, envVars, entryVars, callVars, Locks, Valid
<1>20. CASE UNCHANGED vars
  BY NoneAssumption, <1>20 DEF CacheInv, TypeOK, Generations, GenNamesMaterial, Material, Creds, vars, Goes, WakeAll, envVars, entryVars, callVars, Locks, Valid
<1> QED
  BY <1>1, <1>2, <1>3, <1>4, <1>5, <1>6, <1>7, <1>8, <1>9, <1>10, <1>11, <1>12, <1>13, <1>14, <1>15, <1>16, <1>17, <1>18, <1>19, <1>20 DEF Next, Resolves, refreshAhead

\* No step gives unchanged material a new generation.
LEMMA ChurnStep == CacheInv /\ [Next]_vars => (gen' # gen /\ creds' # None => creds'.mat # last)
<1> SUFFICES ASSUME CacheInv, [Next]_vars PROVE (gen' # gen /\ creds' # None => creds'.mat # last)
  OBVIOUS
<1> USE NoneAssumption DEF CacheInv, TypeOK, Conversations, Generations, Creds, Refresh, Material
<1>1. ASSUME NEW c \in Caller, Call(c) PROVE (gen' # gen /\ creds' # None => creds'.mat # last)
  BY <1>1 DEF Call, Goes, WakeAll, envVars, entryVars, callVars, Locks, Valid
<1>2. ASSUME NEW c \in Caller, ServeValid(c) PROVE (gen' # gen /\ creds' # None => creds'.mat # last)
  BY <1>2 DEF ServeValid, Goes, WakeAll, envVars, entryVars, callVars, Locks, Valid
<1>3. ASSUME NEW c \in Caller, WaitRefresh(c) PROVE (gen' # gen /\ creds' # None => creds'.mat # last)
  BY <1>3 DEF WaitRefresh, Goes, WakeAll, envVars, entryVars, callVars, Locks, Valid
<1>4. ASSUME NEW c \in Caller, FailFast(c) PROVE (gen' # gen /\ creds' # None => creds'.mat # last)
  BY <1>4 DEF FailFast, Goes, WakeAll, envVars, entryVars, callVars, Locks, Valid
<1>5. ASSUME NEW c \in Caller, Ask(c) PROVE (gen' # gen /\ creds' # None => creds'.mat # last)
  BY <1>5 DEF Ask, Goes, WakeAll, envVars, entryVars, callVars, Locks, Valid
<1>6. ASSUME NEW c \in Caller, SourceReads(c) PROVE (gen' # gen /\ creds' # None => creds'.mat # last)
  BY <1>6 DEF SourceReads, Goes, WakeAll, envVars, entryVars, callVars, Locks, Valid
<1>7. ASSUME NEW c \in Caller, ResolveOk(c) PROVE (gen' # gen /\ creds' # None => creds'.mat # last)
  BY <1>7 DEF ResolveOk, Goes, WakeAll, envVars, entryVars, callVars, Locks, Valid, store, Material
<1>8. ASSUME NEW c \in Caller, ResolveErr(c) PROVE (gen' # gen /\ creds' # None => creds'.mat # last)
  BY <1>8 DEF ResolveErr, Goes, WakeAll, envVars, entryVars, callVars, Locks, Valid
<1>9. ASSUME NEW c \in Caller, WaitCancelled(c) PROVE (gen' # gen /\ creds' # None => creds'.mat # last)
  BY <1>9 DEF WaitCancelled, Goes, WakeAll, envVars, entryVars, callVars, Locks, Valid
<1>10. CASE RefreshReads
  BY <1>10 DEF RefreshReads, Goes, WakeAll, envVars, entryVars, callVars, Locks, Valid
<1>11. CASE RefreshSuperseded
  BY <1>11 DEF RefreshSuperseded, Goes, WakeAll, envVars, entryVars, callVars, Locks, Valid
<1>12. CASE RefreshOk
  BY <1>12 DEF RefreshOk, Goes, WakeAll, envVars, entryVars, callVars, Locks, Valid, store, Material
<1>13. CASE RefreshErr
  BY <1>13 DEF RefreshErr, Goes, WakeAll, envVars, entryVars, callVars, Locks, Valid
<1>14. CASE Invalidate
  BY <1>14 DEF Invalidate, Goes, WakeAll, envVars, entryVars, callVars, Locks, Valid
<1>15. CASE Sweep
  BY <1>15 DEF Sweep, Goes, WakeAll, envVars, entryVars, callVars, Locks, Valid
<1>16. CASE Rotate
  BY <1>16 DEF Rotate, Goes, WakeAll, envVars, entryVars, callVars, Locks, Valid
<1>17. CASE Age
  BY <1>17 DEF Age, Goes, WakeAll, envVars, entryVars, callVars, Locks, Valid
<1>18. CASE BackoffEnds
  BY <1>18 DEF BackoffEnds, Goes, WakeAll, envVars, entryVars, callVars, Locks, Valid
<1>19. CASE WindowEnds
  BY <1>19 DEF WindowEnds, Goes, WakeAll, envVars, entryVars, callVars, Locks, Valid
<1>20. CASE UNCHANGED vars
  BY <1>20 DEF vars, Goes, WakeAll, envVars, entryVars, callVars, Locks, Valid
<1> QED
  BY <1>1, <1>2, <1>3, <1>4, <1>5, <1>6, <1>7, <1>8, <1>9, <1>10, <1>11, <1>12, <1>13, <1>14, <1>15, <1>16, <1>17, <1>18, <1>19, <1>20 DEF Next, Resolves, refreshAhead

-----------------------------------------------------------------------------

\* The cache's inductive invariant holds in every reachable state.
THEOREM CacheInvariant == Spec => []CacheInv
<1>1. CacheInv /\ [Next]_vars => CacheInv'
  BY FlagsPreserved, ValuesPreserved, ConversationPreserved, StaleKnown, OutPreserved, GenerationsPreserved
     DEF CacheInv, TypeOK, Flags, Values
<1> QED
  BY InitInv, <1>1, PTL DEF Spec

\* cached.go:162: a foreground resolve and a refresh never run side by side.
THEOREM SingleFlight == Spec => []OneConversation
<1>1. CacheInv => OneConversation
  BY DEF CacheInv
<1> QED
  BY CacheInvariant, <1>1, PTL

\* cached.go:211: a refresh overtaken by Invalidate cannot bring the rejected
\* credential back.
THEOREM NoResurrection == Spec => []InvalidatedStaysOut
<1>1. CacheInv => InvalidatedStaysOut
  BY DEF CacheInv
<1> QED
  BY CacheInvariant, <1>1, PTL

\* cached.go:44: a generation names one material.
THEOREM NoAlias == Spec => []GenNamesMaterial
<1>1. CacheInv => GenNamesMaterial
  BY DEF CacheInv
<1> QED
  BY CacheInvariant, <1>1, PTL

\* cached.go:62: unchanged material keeps its generation.
THEOREM StableGeneration == Spec => NoChurn
<1>1. CacheInv /\ [Next]_vars => [gen' # gen /\ creds' # None => creds'.mat # last]_vars
  BY ChurnStep
<1> QED
  BY CacheInvariant, <1>1, PTL DEF Spec, NoChurn
=============================================================================
