------------------------------ MODULE MuxProofs ------------------------------
(***************************************************************************)
(* The safety of Mux for any number of calls and any pipes.                *)
(*                                                                         *)
(* An answer reaches its call because no two calls share a muxed id        *)
(* (Names), an entry of calls or tokens is its call's own and there only   *)
(* while Call may still leave through unregister (Tables), and every       *)
(* message on its way carries the id of the call it is about (Mail).       *)
(* That its notifications come first is a second invariant on top of this  *)
(* one (NotesInv), which counts in the two pipes taken as one.             *)
(***************************************************************************)
EXTENDS Mux, FiniteSetTheorems, FunctionTheorems, SequenceTheorems, TLAPS

\* TypeOK in parts: the flags, the tables and places, the reader's state.
\* The pipes are in Mail.
Flags ==
    /\ dead \in BOOLEAN
    /\ token \in [Caller -> BOOLEAN]
    /\ ctx \in [Caller -> BOOLEAN]
    /\ scan \in BOOLEAN
    /\ closing \in BOOLEAN
    /\ proc \in {"up", "exited", "reaped"}

Places ==
    /\ seq \in 0..Cardinality(Caller)
    /\ calls \in [Ids -> Caller \cup {None}]
    /\ tokens \in [Ids -> Caller \cup {None}]
    /\ pc \in [Caller -> CallPC]
    /\ id \in [Caller -> Ids \cup {None}]
    /\ outcome \in [Caller -> {"none", "answer", "cancelled", "dead", "writeError"}]
    /\ sent \in 0..MaxTraffic

Routed == [msg : Response \cup Notification, to : Caller]

Reading ==
    /\ resp \in [Caller -> Response \cup {None}]
    /\ heard \in [Caller -> Nat]
    /\ reader \in {"read", "deliver", "reject", "ended"}
    /\ held \in Routed \cup {None}
    /\ reader = "deliver" => held \in Routed
    /\ held # None => reader = "deliver"
    /\ told \in [Caller -> Nat]

\* Muxed ids are handed out in order, each to one call.
Started == {c \in Caller : pc[c] # "idle"}

Names ==
    /\ seq = Cardinality(Started)
    /\ \A c \in Started : id[c] \in 1..seq
    /\ \A c, d \in Started : id[c] = id[d] => c = d

Tables ==
    \A i \in Ids, c \in Caller :
        calls[i] = c \/ tokens[i] = c => id[c] = i /\ pc[c] \in {"write", "wait"}

\* Messages about a call exist once it has written its request.
Posted == {"wait", "cancelled", "died", "cancel", "done"}

About(m) == id[m.from] = m.id /\ pc[m.from] \in Posted

Said == {m \in Response \cup Notification : About(m)} \cup ServerRequest
Heard == {m \in [kind : {"request", "cancelled"}, id : Ids, from : Caller] : About(m)}
             \cup [kind : {"reject"}]

Mail ==
    /\ lines \in Seq(Said)
    /\ stdout \in Seq(Said)
    /\ stdin \in Seq(Heard)
    /\ asked \subseteq {r \in [id : Ids, from : Caller] : About(r)}

Mine ==
    /\ reader = "deliver" => held.msg.from = held.to /\ pc[held.to] \in Posted
    /\ \A c \in Caller : resp[c] # None => resp[c].from = c /\ pc[c] \in Posted

Death ==
    /\ dead => reader = "ended"
    /\ \A c \in Caller : pc[c] = "died" \/ outcome[c] = "dead" => dead
    /\ \A c \in Caller : outcome[c] = "dead" => resp[c] = None

MuxInv == Flags /\ Places /\ Reading /\ Names /\ Tables /\ Mail /\ Mine /\ Death

-----------------------------------------------------------------------------
(* Facts about the pipes *)

\* What Head, Tail, Append and the scanner's prefix do to a pipe's type.
LEMMA PipeFacts ==
    ASSUME NEW S, NEW s \in Seq(S)
    PROVE  /\ s # <<>> => Head(s) \in S /\ Tail(s) \in Seq(S)
           /\ \A m \in S : Append(s, m) \in Seq(S)
           /\ \A n \in 0..Len(s) : SubSeq(s, 1, n) \in Seq(S)
<1>1. s # <<>> => Head(s) \in S /\ Tail(s) \in Seq(S)
  BY HeadTailProperties
<1>2. \A m \in S : Append(s, m) \in Seq(S)
  BY AppendProperties
<1>3. ASSUME NEW n \in 0..Len(s) PROVE SubSeq(s, 1, n) \in Seq(S)
  BY <1>3
<1> QED
  BY <1>1, <1>2, <1>3

\* A pipe of messages is a pipe of any larger set.
LEMMA PipeMono ==
    ASSUME NEW S, NEW T, S \subseteq T
    PROVE  Seq(S) \subseteq Seq(T)
<1> SUFFICES ASSUME NEW s \in Seq(S) PROVE s \in Seq(T)
  OBVIOUS
<1>1. s \in [1..Len(s) -> S] /\ Len(s) \in Nat
  OBVIOUS
<1>2. s \in [1..Len(s) -> T]
  BY <1>1
<1> QED
  BY <1>1, <1>2

\* Ids exist.
LEMMA IdsFact == Cardinality(Caller) \in Nat
  BY CallerAssumption, FS_CardinalityType

\* A call that has not started finds an id left.
LEMMA IdLeft ==
    ASSUME Places, Names, NEW c \in Caller, pc[c] = "idle"
    PROVE  seq + 1 \in Ids /\ Cardinality(Started \cup {c}) = seq + 1
<1>1. IsFiniteSet(Started) /\ c \notin Started /\ Started \cup {c} \subseteq Caller
  BY CallerAssumption, FS_Subset DEF Started
<1>2. Cardinality(Started \cup {c}) = Cardinality(Started) + 1
  BY <1>1, FS_AddElement
<1>3. Cardinality(Started \cup {c}) <= Cardinality(Caller)
  BY <1>1, CallerAssumption, FS_Subset
<1> QED
  BY <1>2, <1>3, IdsFact DEF Names, Places, Ids

\* A step that keeps posted calls posted, under their ids, keeps what every
\* message is about.
LEMMA AboutKept ==
    ASSUME Places, \A c \in Caller : pc[c] \in Posted => pc'[c] \in Posted /\ id'[c] = id[c]
    PROVE  /\ \A m \in Response \cup Notification : About(m) => About(m)'
           /\ Said \subseteq Said'
           /\ Heard \subseteq Heard'
           /\ {r \in [id : Ids, from : Caller] : About(r)} \subseteq {r \in [id : Ids, from : Caller] : About(r)'}
<1>1. \A m \in Response \cup Notification : About(m) => About(m)'
  BY DEF About, Response, Notification
<1>2. \A m \in [kind : {"request", "cancelled"}, id : Ids, from : Caller] : About(m) => About(m)'
  BY DEF About
<1>3. \A r \in [id : Ids, from : Caller] : About(r) => About(r)'
  BY DEF About
<1>4. Said \subseteq Said'
  BY <1>1 DEF Said
<1>5. Heard \subseteq Heard'
  BY <1>2 DEF Heard
<1> QED
  BY <1>1, <1>3, <1>4, <1>5

-----------------------------------------------------------------------------

\* Init: an empty connection.
LEMMA InitInv == Init => MuxInv
<1> SUFFICES ASSUME Init PROVE MuxInv
  OBVIOUS
<1>1. Flags /\ Reading /\ Tables /\ Mine /\ Death
  BY CallerAssumption DEF Init, Flags, Reading, Tables, Mine, Death, Ids
<1>2. Places
  BY IdsFact, BoundAssumption DEF Init, Places, Ids, CallPC
<1>3. Names
  <2>1. Started = {}
    BY DEF Init, Started
  <2> QED
    BY <2>1, FS_EmptySet DEF Init, Names
<1>4. Mail
  BY DEF Init, Mail
<1> QED
  BY <1>1, <1>2, <1>3, <1>4 DEF MuxInv

\* Every step of Mux keeps its flags Boolean.
LEMMA FlagsPreserved ==
    ASSUME Flags, [Next]_vars
    PROVE  Flags'
<1> USE DEF Flags
<1>1. ASSUME NEW c \in Caller, Start(c) PROVE Flags'
  BY <1>1 DEF Start, Goes, readVars, connVars, procVars
<1>2. ASSUME NEW c \in Caller, Register(c) PROVE Flags'
  BY <1>2 DEF Register, Goes, readVars, connVars, procVars
<1>3. ASSUME NEW c \in Caller, RefuseDead(c) PROVE Flags'
  BY <1>3 DEF RefuseDead, Goes, Returns, muxVars, readVars, connVars, procVars
<1>4. ASSUME NEW c \in Caller, WriteRequest(c) PROVE Flags'
  BY <1>4 DEF WriteRequest, Goes, Send, muxVars, readVars, procVars
<1>5. ASSUME NEW c \in Caller, WriteErr(c) PROVE Flags'
  BY <1>5 DEF WriteErr, Goes, Returns, unregister, readVars, connVars, procVars
<1>6. ASSUME NEW c \in Caller, Answered(c) PROVE Flags'
  BY <1>6 DEF Answered, Goes, Returns, unregister, readVars, connVars, procVars
<1>7. ASSUME NEW c \in Caller, CtxDone(c) PROVE Flags'
  BY <1>7 DEF CtxDone, Goes, unregister, readVars, connVars, procVars
<1>8. ASSUME NEW c \in Caller, Died(c) PROVE Flags'
  BY <1>8 DEF Died, Goes, unregister, readVars, connVars, procVars
<1>9. ASSUME NEW c \in Caller, LandedAnyway(c) PROVE Flags'
  BY <1>9 DEF LandedAnyway, Goes, Returns, muxVars, readVars, connVars, procVars
<1>10. ASSUME NEW c \in Caller, ReturnDead(c) PROVE Flags'
  BY <1>10 DEF ReturnDead, Goes, Returns, muxVars, readVars, connVars, procVars
<1>11. ASSUME NEW c \in Caller, GivesUp(c) PROVE Flags'
  BY <1>11 DEF GivesUp, Goes, muxVars, readVars, connVars, procVars
<1>12. ASSUME NEW c \in Caller, WriteCancel(c) PROVE Flags'
  BY <1>12 DEF WriteCancel, Goes, Returns, Send, muxVars, readVars, connVars, procVars
<1>13. ASSUME NEW c \in Caller, Cancel(c) PROVE Flags'
  BY <1>13 DEF Cancel, muxVars, readVars, connVars, procVars
<1>14. CASE Read
  BY <1>14 DEF Read, callVars, muxVars, procVars
<1>15. CASE routeResponse
  BY <1>15 DEF routeResponse, callVars, muxVars, connVars, procVars
<1>16. CASE routeNotification
  BY <1>16 DEF routeNotification, callVars, muxVars, connVars, procVars
<1>17. CASE RejectRequest
  BY <1>17 DEF RejectRequest, Send, callVars, muxVars, connVars, procVars
<1>18. CASE ReadErr
  BY <1>18 DEF ReadErr, callVars, connVars, procVars
<1>19. CASE stdoutLoop
  BY <1>19 DEF stdoutLoop, callVars, muxVars, readVars, procVars
<1>20. CASE ScanEOF
  BY <1>20 DEF ScanEOF, callVars, muxVars, readVars, procVars
<1>21. CASE ScanErr
  BY <1>21 DEF ScanErr, callVars, muxVars, readVars, procVars
<1>22. CASE waitLoop
  BY <1>22 DEF waitLoop, callVars, muxVars, readVars
<1>23. CASE Close
  BY <1>23 DEF Close, callVars, muxVars, readVars, procVars
<1>24. CASE signalGroup
  BY <1>24 DEF signalGroup, callVars, muxVars, readVars, connVars
<1>25. CASE ProcReads
  BY <1>25 DEF ProcReads, callVars, muxVars, readVars
<1>26. CASE Replies
  BY <1>26 DEF Replies, Says, callVars, muxVars, readVars
<1>27. CASE Notifies
  BY <1>27 DEF Notifies, Says, callVars, muxVars, readVars
<1>28. CASE Requests
  BY <1>28 DEF Requests, Says, callVars, muxVars, readVars
<1>29. CASE Exit
  BY <1>29 DEF Exit, callVars, muxVars, readVars, connVars
<1>30. CASE UNCHANGED vars
  BY <1>30 DEF vars, callVars, muxVars, readVars, connVars, procVars
<1> QED
  BY <1>1, <1>2, <1>3, <1>4, <1>5, <1>6, <1>7, <1>8, <1>9, <1>10,
     <1>11, <1>12, <1>13, <1>14, <1>15, <1>16, <1>17, <1>18, <1>19, <1>20,
     <1>21, <1>22, <1>23, <1>24, <1>25, <1>26, <1>27, <1>28, <1>29, <1>30 DEF Next, Call, readLoop, Process

\* Every step keeps the tables and places typed.
LEMMA PlacesPreserved ==
    ASSUME Places, Names, [Next]_vars
    PROVE  Places'
<1> USE IdsFact, BoundAssumption DEF Places, CallPC
<1>1. ASSUME NEW c \in Caller, Start(c) PROVE Places'
  <2>1. seq + 1 \in Ids
    BY <1>1, IdLeft DEF Start
  <2>2. seq' \in 0..Cardinality(Caller)
    BY <1>1, <2>1 DEF Start, Ids
  <2> QED
    BY <1>1, <2>1, <2>2 DEF Start, Goes, readVars, connVars, procVars
<1>2. ASSUME NEW c \in Caller, Register(c) PROVE Places'
  BY <1>2 DEF Register, Goes, readVars, connVars, procVars
<1>3. ASSUME NEW c \in Caller, RefuseDead(c) PROVE Places'
  BY <1>3 DEF RefuseDead, Goes, Returns, muxVars, readVars, connVars, procVars
<1>4. ASSUME NEW c \in Caller, WriteRequest(c) PROVE Places'
  BY <1>4 DEF WriteRequest, Goes, Send, muxVars, readVars, procVars
<1>5. ASSUME NEW c \in Caller, WriteErr(c) PROVE Places'
  BY <1>5 DEF WriteErr, Goes, Returns, unregister, readVars, connVars, procVars
<1>6. ASSUME NEW c \in Caller, Answered(c) PROVE Places'
  BY <1>6 DEF Answered, Goes, Returns, unregister, readVars, connVars, procVars
<1>7. ASSUME NEW c \in Caller, CtxDone(c) PROVE Places'
  BY <1>7 DEF CtxDone, Goes, unregister, readVars, connVars, procVars
<1>8. ASSUME NEW c \in Caller, Died(c) PROVE Places'
  BY <1>8 DEF Died, Goes, unregister, readVars, connVars, procVars
<1>9. ASSUME NEW c \in Caller, LandedAnyway(c) PROVE Places'
  BY <1>9 DEF LandedAnyway, Goes, Returns, muxVars, readVars, connVars, procVars
<1>10. ASSUME NEW c \in Caller, ReturnDead(c) PROVE Places'
  BY <1>10 DEF ReturnDead, Goes, Returns, muxVars, readVars, connVars, procVars
<1>11. ASSUME NEW c \in Caller, GivesUp(c) PROVE Places'
  BY <1>11 DEF GivesUp, Goes, muxVars, readVars, connVars, procVars
<1>12. ASSUME NEW c \in Caller, WriteCancel(c) PROVE Places'
  BY <1>12 DEF WriteCancel, Goes, Returns, Send, muxVars, readVars, connVars, procVars
<1>13. ASSUME NEW c \in Caller, Cancel(c) PROVE Places'
  BY <1>13 DEF Cancel, muxVars, readVars, connVars, procVars
<1>14. CASE Read
  BY <1>14 DEF Read, callVars, muxVars, procVars
<1>15. CASE routeResponse
  BY <1>15 DEF routeResponse, callVars, muxVars, connVars, procVars
<1>16. CASE routeNotification
  BY <1>16 DEF routeNotification, callVars, muxVars, connVars, procVars
<1>17. CASE RejectRequest
  BY <1>17 DEF RejectRequest, Send, callVars, muxVars, connVars, procVars
<1>18. CASE ReadErr
  BY <1>18 DEF ReadErr, callVars, connVars, procVars
<1>19. CASE stdoutLoop
  BY <1>19 DEF stdoutLoop, callVars, muxVars, readVars, procVars
<1>20. CASE ScanEOF
  BY <1>20 DEF ScanEOF, callVars, muxVars, readVars, procVars
<1>21. CASE ScanErr
  BY <1>21 DEF ScanErr, callVars, muxVars, readVars, procVars
<1>22. CASE waitLoop
  BY <1>22 DEF waitLoop, callVars, muxVars, readVars
<1>23. CASE Close
  BY <1>23 DEF Close, callVars, muxVars, readVars, procVars
<1>24. CASE signalGroup
  BY <1>24 DEF signalGroup, callVars, muxVars, readVars, connVars
<1>25. CASE ProcReads
  BY <1>25 DEF ProcReads, callVars, muxVars, readVars
<1>26. CASE Replies
  BY <1>26 DEF Replies, Says, callVars, muxVars, readVars
<1>27. CASE Notifies
  BY <1>27 DEF Notifies, Says, callVars, muxVars, readVars
<1>28. CASE Requests
  BY <1>28 DEF Requests, Says, callVars, muxVars, readVars
<1>29. CASE Exit
  BY <1>29 DEF Exit, callVars, muxVars, readVars, connVars
<1>30. CASE UNCHANGED vars
  BY <1>30 DEF vars, callVars, muxVars, readVars, connVars, procVars
<1> QED
  BY <1>1, <1>2, <1>3, <1>4, <1>5, <1>6, <1>7, <1>8, <1>9, <1>10,
     <1>11, <1>12, <1>13, <1>14, <1>15, <1>16, <1>17, <1>18, <1>19, <1>20,
     <1>21, <1>22, <1>23, <1>24, <1>25, <1>26, <1>27, <1>28, <1>29, <1>30 DEF Next, Call, readLoop, Process

\* Every step keeps what readLoop holds and has handed over typed.
LEMMA ReadingPreserved ==
    ASSUME Places, Reading, Mail, [Next]_vars
    PROVE  Reading'
<1> USE DEF Reading, Routed
<1>1. ASSUME NEW c \in Caller, Start(c) PROVE Reading'
  BY <1>1 DEF Start, Goes, readVars, connVars, procVars
<1>2. ASSUME NEW c \in Caller, Register(c) PROVE Reading'
  BY <1>2 DEF Register, Goes, readVars, connVars, procVars
<1>3. ASSUME NEW c \in Caller, RefuseDead(c) PROVE Reading'
  BY <1>3 DEF RefuseDead, Goes, Returns, muxVars, readVars, connVars, procVars
<1>4. ASSUME NEW c \in Caller, WriteRequest(c) PROVE Reading'
  BY <1>4 DEF WriteRequest, Goes, Send, muxVars, readVars, procVars
<1>5. ASSUME NEW c \in Caller, WriteErr(c) PROVE Reading'
  BY <1>5 DEF WriteErr, Goes, Returns, unregister, readVars, connVars, procVars
<1>6. ASSUME NEW c \in Caller, Answered(c) PROVE Reading'
  BY <1>6 DEF Answered, Goes, Returns, unregister, readVars, connVars, procVars
<1>7. ASSUME NEW c \in Caller, CtxDone(c) PROVE Reading'
  BY <1>7 DEF CtxDone, Goes, unregister, readVars, connVars, procVars
<1>8. ASSUME NEW c \in Caller, Died(c) PROVE Reading'
  BY <1>8 DEF Died, Goes, unregister, readVars, connVars, procVars
<1>9. ASSUME NEW c \in Caller, LandedAnyway(c) PROVE Reading'
  BY <1>9 DEF LandedAnyway, Goes, Returns, muxVars, readVars, connVars, procVars
<1>10. ASSUME NEW c \in Caller, ReturnDead(c) PROVE Reading'
  BY <1>10 DEF ReturnDead, Goes, Returns, muxVars, readVars, connVars, procVars
<1>11. ASSUME NEW c \in Caller, GivesUp(c) PROVE Reading'
  BY <1>11 DEF GivesUp, Goes, muxVars, readVars, connVars, procVars
<1>12. ASSUME NEW c \in Caller, WriteCancel(c) PROVE Reading'
  BY <1>12 DEF WriteCancel, Goes, Returns, Send, muxVars, readVars, connVars, procVars
<1>13. ASSUME NEW c \in Caller, Cancel(c) PROVE Reading'
  BY <1>13 DEF Cancel, muxVars, readVars, connVars, procVars
<1>14. CASE Read
  <2>1. Head(lines) \in Said
    BY <1>14, PipeFacts DEF Read, Mail
  <2>2. Head(lines).kind # "request" => Head(lines) \in Response \cup Notification
    BY <2>1 DEF Said, ServerRequest
  <2>3. Head(lines).kind # "request" => Lookup(Head(lines)) \in Caller \cup {None}
    BY <2>2 DEF Lookup, Places, Response, Notification
  <2>4. (reader' = "deliver" => held' \in Routed) /\ (held' # None => reader' = "deliver")
    BY <1>14, <2>2, <2>3 DEF Read
  <2>5. held' \in Routed \cup {None} /\ reader' \in {"read", "deliver", "reject", "ended"}
    BY <1>14, <2>2, <2>3 DEF Read
  <2> QED
    BY <1>14, <2>4, <2>5 DEF Read, callVars, muxVars, procVars
<1>15. CASE routeResponse
  <2>1. held.msg \in Response /\ held.to \in Caller
    BY <1>15 DEF routeResponse, Notification
  <2> QED
    BY <1>15, <2>1 DEF routeResponse, callVars, muxVars, connVars, procVars
<1>16. CASE routeNotification
  BY <1>16 DEF routeNotification, callVars, muxVars, connVars, procVars
<1>17. CASE RejectRequest
  BY <1>17 DEF RejectRequest, Send, callVars, muxVars, connVars, procVars
<1>18. CASE ReadErr
  BY <1>18 DEF ReadErr, callVars, connVars, procVars
<1>19. CASE stdoutLoop
  BY <1>19 DEF stdoutLoop, callVars, muxVars, readVars, procVars
<1>20. CASE ScanEOF
  BY <1>20 DEF ScanEOF, callVars, muxVars, readVars, procVars
<1>21. CASE ScanErr
  BY <1>21 DEF ScanErr, callVars, muxVars, readVars, procVars
<1>22. CASE waitLoop
  BY <1>22 DEF waitLoop, callVars, muxVars, readVars
<1>23. CASE Close
  BY <1>23 DEF Close, callVars, muxVars, readVars, procVars
<1>24. CASE signalGroup
  BY <1>24 DEF signalGroup, callVars, muxVars, readVars, connVars
<1>25. CASE ProcReads
  BY <1>25 DEF ProcReads, callVars, muxVars, readVars
<1>26. CASE Replies
  BY <1>26 DEF Replies, Says, callVars, muxVars, readVars
<1>27. CASE Notifies
  <2>1. PICK r \in asked : told' = [told EXCEPT ![r.from] = @ + 1]
    BY <1>27 DEF Notifies
  <2>2. told' \in [Caller -> Nat]
    BY <2>1 DEF Mail
  <2> QED
    BY <1>27, <2>2 DEF Notifies, Says, callVars, muxVars, readVars
<1>28. CASE Requests
  BY <1>28 DEF Requests, Says, callVars, muxVars, readVars
<1>29. CASE Exit
  BY <1>29 DEF Exit, callVars, muxVars, readVars, connVars
<1>30. CASE UNCHANGED vars
  BY <1>30 DEF vars, callVars, muxVars, readVars, connVars, procVars
<1> QED
  BY <1>1, <1>2, <1>3, <1>4, <1>5, <1>6, <1>7, <1>8, <1>9, <1>10,
     <1>11, <1>12, <1>13, <1>14, <1>15, <1>16, <1>17, <1>18, <1>19, <1>20,
     <1>21, <1>22, <1>23, <1>24, <1>25, <1>26, <1>27, <1>28, <1>29, <1>30 DEF Next, Call, readLoop, Process

\* Every step keeps muxed ids apart.
LEMMA NamesPreserved ==
    ASSUME Places, Names, [Next]_vars
    PROVE  Names'
<1> USE DEF Names
<1>1. ASSUME NEW c \in Caller, Start(c) PROVE Names'
  <2>1. Started' = Started \cup {c} /\ c \notin Started /\ pc[c] = "idle"
    BY <1>1 DEF Start, Goes, Started, Places
  <2>2. Cardinality(Started') = seq + 1 /\ seq' = seq + 1 /\ seq \in Nat
    BY <1>1, <2>1, IdLeft DEF Start, Places
  <2>3. id' = [id EXCEPT ![c] = seq + 1]
    BY <1>1 DEF Start
  <2>4. Started \subseteq Caller
    BY DEF Started
  <2>5. \A d \in Started' : id'[d] \in 1..seq'
    BY <2>1, <2>2, <2>3, <2>4 DEF Places
  <2>6. \A d, e \in Started' : id'[d] = id'[e] => d = e
    BY <2>1, <2>2, <2>3, <2>4 DEF Places
  <2> QED
    BY <2>2, <2>5, <2>6
<1>2. ASSUME NEW c \in Caller, Register(c) PROVE Names'
  <2>1. Started' = Started
    BY <1>2 DEF Register, Places, Started, Goes, readVars, connVars, procVars
  <2>2. id' = id /\ seq' = seq
    BY <1>2 DEF Register, Goes, readVars, connVars, procVars
  <2> QED
    BY <2>1, <2>2
<1>3. ASSUME NEW c \in Caller, RefuseDead(c) PROVE Names'
  <2>1. Started' = Started
    BY <1>3 DEF RefuseDead, Places, Started, Goes, Returns, muxVars, readVars, connVars, procVars
  <2>2. id' = id /\ seq' = seq
    BY <1>3 DEF RefuseDead, Goes, Returns, muxVars, readVars, connVars, procVars
  <2> QED
    BY <2>1, <2>2
<1>4. ASSUME NEW c \in Caller, WriteRequest(c) PROVE Names'
  <2>1. Started' = Started
    BY <1>4 DEF WriteRequest, Places, Started, Goes, Send, muxVars, readVars, procVars
  <2>2. id' = id /\ seq' = seq
    BY <1>4 DEF WriteRequest, Goes, Send, muxVars, readVars, procVars
  <2> QED
    BY <2>1, <2>2
<1>5. ASSUME NEW c \in Caller, WriteErr(c) PROVE Names'
  <2>1. Started' = Started
    BY <1>5 DEF WriteErr, Places, Started, Goes, Returns, unregister, readVars, connVars, procVars
  <2>2. id' = id /\ seq' = seq
    BY <1>5 DEF WriteErr, Goes, Returns, unregister, readVars, connVars, procVars
  <2> QED
    BY <2>1, <2>2
<1>6. ASSUME NEW c \in Caller, Answered(c) PROVE Names'
  <2>1. Started' = Started
    BY <1>6 DEF Answered, Places, Started, Goes, Returns, unregister, readVars, connVars, procVars
  <2>2. id' = id /\ seq' = seq
    BY <1>6 DEF Answered, Goes, Returns, unregister, readVars, connVars, procVars
  <2> QED
    BY <2>1, <2>2
<1>7. ASSUME NEW c \in Caller, CtxDone(c) PROVE Names'
  <2>1. Started' = Started
    BY <1>7 DEF CtxDone, Places, Started, Goes, unregister, readVars, connVars, procVars
  <2>2. id' = id /\ seq' = seq
    BY <1>7 DEF CtxDone, Goes, unregister, readVars, connVars, procVars
  <2> QED
    BY <2>1, <2>2
<1>8. ASSUME NEW c \in Caller, Died(c) PROVE Names'
  <2>1. Started' = Started
    BY <1>8 DEF Died, Places, Started, Goes, unregister, readVars, connVars, procVars
  <2>2. id' = id /\ seq' = seq
    BY <1>8 DEF Died, Goes, unregister, readVars, connVars, procVars
  <2> QED
    BY <2>1, <2>2
<1>9. ASSUME NEW c \in Caller, LandedAnyway(c) PROVE Names'
  <2>1. Started' = Started
    BY <1>9 DEF LandedAnyway, Places, Started, Goes, Returns, muxVars, readVars, connVars, procVars
  <2>2. id' = id /\ seq' = seq
    BY <1>9 DEF LandedAnyway, Goes, Returns, muxVars, readVars, connVars, procVars
  <2> QED
    BY <2>1, <2>2
<1>10. ASSUME NEW c \in Caller, ReturnDead(c) PROVE Names'
  <2>1. Started' = Started
    BY <1>10 DEF ReturnDead, Places, Started, Goes, Returns, muxVars, readVars, connVars, procVars
  <2>2. id' = id /\ seq' = seq
    BY <1>10 DEF ReturnDead, Goes, Returns, muxVars, readVars, connVars, procVars
  <2> QED
    BY <2>1, <2>2
<1>11. ASSUME NEW c \in Caller, GivesUp(c) PROVE Names'
  <2>1. Started' = Started
    BY <1>11 DEF GivesUp, Places, Started, Goes, muxVars, readVars, connVars, procVars
  <2>2. id' = id /\ seq' = seq
    BY <1>11 DEF GivesUp, Goes, muxVars, readVars, connVars, procVars
  <2> QED
    BY <2>1, <2>2
<1>12. ASSUME NEW c \in Caller, WriteCancel(c) PROVE Names'
  <2>1. Started' = Started
    BY <1>12 DEF WriteCancel, Places, Started, Goes, Returns, Send, muxVars, readVars, connVars, procVars
  <2>2. id' = id /\ seq' = seq
    BY <1>12 DEF WriteCancel, Goes, Returns, Send, muxVars, readVars, connVars, procVars
  <2> QED
    BY <2>1, <2>2
<1>13. ASSUME NEW c \in Caller, Cancel(c) PROVE Names'
  <2>1. Started' = Started
    BY <1>13 DEF Cancel, Places, Started, muxVars, readVars, connVars, procVars
  <2>2. id' = id /\ seq' = seq
    BY <1>13 DEF Cancel, muxVars, readVars, connVars, procVars
  <2> QED
    BY <2>1, <2>2
<1>14. CASE Read
  <2>1. Started' = Started
    BY <1>14 DEF Read, Places, Started, callVars, muxVars, procVars
  <2>2. id' = id /\ seq' = seq
    BY <1>14 DEF Read, callVars, muxVars, procVars
  <2> QED
    BY <2>1, <2>2
<1>15. CASE routeResponse
  <2>1. Started' = Started
    BY <1>15 DEF routeResponse, Places, Started, callVars, muxVars, connVars, procVars
  <2>2. id' = id /\ seq' = seq
    BY <1>15 DEF routeResponse, callVars, muxVars, connVars, procVars
  <2> QED
    BY <2>1, <2>2
<1>16. CASE routeNotification
  <2>1. Started' = Started
    BY <1>16 DEF routeNotification, Places, Started, callVars, muxVars, connVars, procVars
  <2>2. id' = id /\ seq' = seq
    BY <1>16 DEF routeNotification, callVars, muxVars, connVars, procVars
  <2> QED
    BY <2>1, <2>2
<1>17. CASE RejectRequest
  <2>1. Started' = Started
    BY <1>17 DEF RejectRequest, Places, Started, Send, callVars, muxVars, connVars, procVars
  <2>2. id' = id /\ seq' = seq
    BY <1>17 DEF RejectRequest, Send, callVars, muxVars, connVars, procVars
  <2> QED
    BY <2>1, <2>2
<1>18. CASE ReadErr
  <2>1. Started' = Started
    BY <1>18 DEF ReadErr, Places, Started, callVars, connVars, procVars
  <2>2. id' = id /\ seq' = seq
    BY <1>18 DEF ReadErr, callVars, connVars, procVars
  <2> QED
    BY <2>1, <2>2
<1>19. CASE stdoutLoop
  <2>1. Started' = Started
    BY <1>19 DEF stdoutLoop, Places, Started, callVars, muxVars, readVars, procVars
  <2>2. id' = id /\ seq' = seq
    BY <1>19 DEF stdoutLoop, callVars, muxVars, readVars, procVars
  <2> QED
    BY <2>1, <2>2
<1>20. CASE ScanEOF
  <2>1. Started' = Started
    BY <1>20 DEF ScanEOF, Places, Started, callVars, muxVars, readVars, procVars
  <2>2. id' = id /\ seq' = seq
    BY <1>20 DEF ScanEOF, callVars, muxVars, readVars, procVars
  <2> QED
    BY <2>1, <2>2
<1>21. CASE ScanErr
  <2>1. Started' = Started
    BY <1>21 DEF ScanErr, Places, Started, callVars, muxVars, readVars, procVars
  <2>2. id' = id /\ seq' = seq
    BY <1>21 DEF ScanErr, callVars, muxVars, readVars, procVars
  <2> QED
    BY <2>1, <2>2
<1>22. CASE waitLoop
  <2>1. Started' = Started
    BY <1>22 DEF waitLoop, Places, Started, callVars, muxVars, readVars
  <2>2. id' = id /\ seq' = seq
    BY <1>22 DEF waitLoop, callVars, muxVars, readVars
  <2> QED
    BY <2>1, <2>2
<1>23. CASE Close
  <2>1. Started' = Started
    BY <1>23 DEF Close, Places, Started, callVars, muxVars, readVars, procVars
  <2>2. id' = id /\ seq' = seq
    BY <1>23 DEF Close, callVars, muxVars, readVars, procVars
  <2> QED
    BY <2>1, <2>2
<1>24. CASE signalGroup
  <2>1. Started' = Started
    BY <1>24 DEF signalGroup, Places, Started, callVars, muxVars, readVars, connVars
  <2>2. id' = id /\ seq' = seq
    BY <1>24 DEF signalGroup, callVars, muxVars, readVars, connVars
  <2> QED
    BY <2>1, <2>2
<1>25. CASE ProcReads
  <2>1. Started' = Started
    BY <1>25 DEF ProcReads, Places, Started, callVars, muxVars, readVars
  <2>2. id' = id /\ seq' = seq
    BY <1>25 DEF ProcReads, callVars, muxVars, readVars
  <2> QED
    BY <2>1, <2>2
<1>26. CASE Replies
  <2>1. Started' = Started
    BY <1>26 DEF Replies, Places, Started, Says, callVars, muxVars, readVars
  <2>2. id' = id /\ seq' = seq
    BY <1>26 DEF Replies, Says, callVars, muxVars, readVars
  <2> QED
    BY <2>1, <2>2
<1>27. CASE Notifies
  <2>1. Started' = Started
    BY <1>27 DEF Notifies, Places, Started, Says, callVars, muxVars, readVars
  <2>2. id' = id /\ seq' = seq
    BY <1>27 DEF Notifies, Says, callVars, muxVars, readVars
  <2> QED
    BY <2>1, <2>2
<1>28. CASE Requests
  <2>1. Started' = Started
    BY <1>28 DEF Requests, Places, Started, Says, callVars, muxVars, readVars
  <2>2. id' = id /\ seq' = seq
    BY <1>28 DEF Requests, Says, callVars, muxVars, readVars
  <2> QED
    BY <2>1, <2>2
<1>29. CASE Exit
  <2>1. Started' = Started
    BY <1>29 DEF Exit, Places, Started, callVars, muxVars, readVars, connVars
  <2>2. id' = id /\ seq' = seq
    BY <1>29 DEF Exit, callVars, muxVars, readVars, connVars
  <2> QED
    BY <2>1, <2>2
<1>30. CASE UNCHANGED vars
  <2>1. Started' = Started
    BY <1>30 DEF vars, Places, Started, callVars, muxVars, readVars, connVars, procVars
  <2>2. id' = id /\ seq' = seq
    BY <1>30 DEF vars, callVars, muxVars, readVars, connVars, procVars
  <2> QED
    BY <2>1, <2>2
<1> QED
  BY <1>1, <1>2, <1>3, <1>4, <1>5, <1>6, <1>7, <1>8, <1>9, <1>10,
     <1>11, <1>12, <1>13, <1>14, <1>15, <1>16, <1>17, <1>18, <1>19, <1>20,
     <1>21, <1>22, <1>23, <1>24, <1>25, <1>26, <1>27, <1>28, <1>29, <1>30 DEF Next, Call, readLoop, Process

\* Every step keeps calls and tokens to calls on their way.
LEMMA TablesPreserved ==
    ASSUME Places, Names, Tables, [Next]_vars
    PROVE  Tables'
<1> USE CallerAssumption DEF Tables
<1>1. ASSUME NEW c \in Caller, Start(c) PROVE Tables'
  BY <1>1 DEF Start, Goes, readVars, connVars, procVars
<1>2. ASSUME NEW c \in Caller, Register(c) PROVE Tables'
  <2>1. c \in Started /\ id' = id /\ id[c] \in Ids /\ pc' = [pc EXCEPT ![c] = "write"]
    BY <1>2, IdsFact DEF Register, Goes, Names, Started, Places, Ids
  <2>2. \A d \in Caller : pc[d] \in {"write", "wait"} => d \in Started
    BY DEF Started
  <2>3. \A d \in Caller : pc[d] \in {"write", "wait"} /\ id[d] = id[c] => d = c
    BY <2>1, <2>2 DEF Names
  <2>4. \A i \in Ids, d \in Caller : calls'[i] = d \/ tokens'[i] = d =>
           \/ i = id[c] /\ d = c
           \/ calls[i] = d \/ tokens[i] = d
    BY <1>2, <2>1 DEF Register, Places
  <2> QED
    BY <1>2, <2>1, <2>3, <2>4 DEF Places, Register
<1>3. ASSUME NEW c \in Caller, RefuseDead(c) PROVE Tables'
  BY <1>3 DEF RefuseDead, Goes, Returns, muxVars, readVars, connVars, procVars
<1>4. ASSUME NEW c \in Caller, WriteRequest(c) PROVE Tables'
  BY <1>4 DEF WriteRequest, Goes, Send, muxVars, readVars, procVars
<1>5. ASSUME NEW c \in Caller, WriteErr(c) PROVE Tables'
  <2>0. id[c] \in Ids
    BY <1>5, IdsFact DEF WriteErr, Names, Started, Places, Ids
  <2>1. pc[c] \in {"write", "wait"} /\ id' = id /\ id[c] \in Ids
    BY <1>5, <2>0 DEF WriteErr, Returns
  <2>2. calls' = [calls EXCEPT ![id[c]] = None] /\ tokens' = [tokens EXCEPT ![id[c]] = None]
    BY <1>5 DEF WriteErr, unregister
  <2>3. \A d \in Caller : d # c => pc'[d] = pc[d]
    BY <1>5 DEF WriteErr, Places, Goes, Returns, unregister, readVars, connVars, procVars
  <2> QED
    BY <2>1, <2>2, <2>3 DEF Places
<1>6. ASSUME NEW c \in Caller, Answered(c) PROVE Tables'
  <2>0. id[c] \in Ids
    BY <1>6, IdsFact DEF Answered, Names, Started, Places, Ids
  <2>1. pc[c] \in {"write", "wait"} /\ id' = id /\ id[c] \in Ids
    BY <1>6, <2>0 DEF Answered, Returns
  <2>2. calls' = [calls EXCEPT ![id[c]] = None] /\ tokens' = [tokens EXCEPT ![id[c]] = None]
    BY <1>6 DEF Answered, unregister
  <2>3. \A d \in Caller : d # c => pc'[d] = pc[d]
    BY <1>6 DEF Answered, Places, Goes, Returns, unregister, readVars, connVars, procVars
  <2> QED
    BY <2>1, <2>2, <2>3 DEF Places
<1>7. ASSUME NEW c \in Caller, CtxDone(c) PROVE Tables'
  <2>0. id[c] \in Ids
    BY <1>7, IdsFact DEF CtxDone, Names, Started, Places, Ids
  <2>1. pc[c] \in {"write", "wait"} /\ id' = id /\ id[c] \in Ids
    BY <1>7, <2>0 DEF CtxDone, Returns
  <2>2. calls' = [calls EXCEPT ![id[c]] = None] /\ tokens' = [tokens EXCEPT ![id[c]] = None]
    BY <1>7 DEF CtxDone, unregister
  <2>3. \A d \in Caller : d # c => pc'[d] = pc[d]
    BY <1>7 DEF CtxDone, Places, Goes, unregister, readVars, connVars, procVars
  <2> QED
    BY <2>1, <2>2, <2>3 DEF Places
<1>8. ASSUME NEW c \in Caller, Died(c) PROVE Tables'
  <2>0. id[c] \in Ids
    BY <1>8, IdsFact DEF Died, Names, Started, Places, Ids
  <2>1. pc[c] \in {"write", "wait"} /\ id' = id /\ id[c] \in Ids
    BY <1>8, <2>0 DEF Died, Returns
  <2>2. calls' = [calls EXCEPT ![id[c]] = None] /\ tokens' = [tokens EXCEPT ![id[c]] = None]
    BY <1>8 DEF Died, unregister
  <2>3. \A d \in Caller : d # c => pc'[d] = pc[d]
    BY <1>8 DEF Died, Places, Goes, unregister, readVars, connVars, procVars
  <2> QED
    BY <2>1, <2>2, <2>3 DEF Places
<1>9. ASSUME NEW c \in Caller, LandedAnyway(c) PROVE Tables'
  BY <1>9 DEF LandedAnyway, Goes, Returns, muxVars, readVars, connVars, procVars
<1>10. ASSUME NEW c \in Caller, ReturnDead(c) PROVE Tables'
  BY <1>10 DEF ReturnDead, Goes, Returns, muxVars, readVars, connVars, procVars
<1>11. ASSUME NEW c \in Caller, GivesUp(c) PROVE Tables'
  BY <1>11 DEF GivesUp, Goes, muxVars, readVars, connVars, procVars
<1>12. ASSUME NEW c \in Caller, WriteCancel(c) PROVE Tables'
  BY <1>12 DEF WriteCancel, Goes, Returns, Send, muxVars, readVars, connVars, procVars
<1>13. ASSUME NEW c \in Caller, Cancel(c) PROVE Tables'
  BY <1>13 DEF Cancel, muxVars, readVars, connVars, procVars
<1>14. CASE Read
  BY <1>14 DEF Read, callVars, muxVars, procVars
<1>15. CASE routeResponse
  BY <1>15 DEF routeResponse, callVars, muxVars, connVars, procVars
<1>16. CASE routeNotification
  BY <1>16 DEF routeNotification, callVars, muxVars, connVars, procVars
<1>17. CASE RejectRequest
  BY <1>17 DEF RejectRequest, Send, callVars, muxVars, connVars, procVars
<1>18. CASE ReadErr
  BY <1>18 DEF ReadErr, callVars, connVars, procVars
<1>19. CASE stdoutLoop
  BY <1>19 DEF stdoutLoop, callVars, muxVars, readVars, procVars
<1>20. CASE ScanEOF
  BY <1>20 DEF ScanEOF, callVars, muxVars, readVars, procVars
<1>21. CASE ScanErr
  BY <1>21 DEF ScanErr, callVars, muxVars, readVars, procVars
<1>22. CASE waitLoop
  BY <1>22 DEF waitLoop, callVars, muxVars, readVars
<1>23. CASE Close
  BY <1>23 DEF Close, callVars, muxVars, readVars, procVars
<1>24. CASE signalGroup
  BY <1>24 DEF signalGroup, callVars, muxVars, readVars, connVars
<1>25. CASE ProcReads
  BY <1>25 DEF ProcReads, callVars, muxVars, readVars
<1>26. CASE Replies
  BY <1>26 DEF Replies, Says, callVars, muxVars, readVars
<1>27. CASE Notifies
  BY <1>27 DEF Notifies, Says, callVars, muxVars, readVars
<1>28. CASE Requests
  BY <1>28 DEF Requests, Says, callVars, muxVars, readVars
<1>29. CASE Exit
  BY <1>29 DEF Exit, callVars, muxVars, readVars, connVars
<1>30. CASE UNCHANGED vars
  BY <1>30 DEF vars, callVars, muxVars, readVars, connVars, procVars
<1> QED
  BY <1>1, <1>2, <1>3, <1>4, <1>5, <1>6, <1>7, <1>8, <1>9, <1>10,
     <1>11, <1>12, <1>13, <1>14, <1>15, <1>16, <1>17, <1>18, <1>19, <1>20,
     <1>21, <1>22, <1>23, <1>24, <1>25, <1>26, <1>27, <1>28, <1>29, <1>30 DEF Next, Call, readLoop, Process

\* Every step keeps messages about calls that were posted.
LEMMA MailPreserved ==
    ASSUME Places, Reading, Names, Mail, [Next]_vars
    PROVE  Mail'
<1> USE DEF Mail
<1>1. ASSUME NEW c \in Caller, Start(c) PROVE Mail'
  <2>1. Said \subseteq Said' /\ Heard \subseteq Heard' /\ asked \subseteq {r \in [id : Ids, from : Caller] : About(r)'}
    BY <1>1, AboutKept DEF Start, Places, Posted, Goes, readVars, connVars, procVars
  <2>2. lines \in Seq(Said') /\ stdout \in Seq(Said') /\ stdin \in Seq(Heard')
    BY <2>1, PipeMono, Zenon
  <2> QED
    BY <1>1, <2>1, <2>2, PipeFacts DEF Start, Goes, readVars, connVars, procVars
<1>2. ASSUME NEW c \in Caller, Register(c) PROVE Mail'
  <2>1. Said \subseteq Said' /\ Heard \subseteq Heard' /\ asked \subseteq {r \in [id : Ids, from : Caller] : About(r)'}
    BY <1>2, AboutKept DEF Register, Places, Posted, Goes, readVars, connVars, procVars
  <2>2. lines \in Seq(Said') /\ stdout \in Seq(Said') /\ stdin \in Seq(Heard')
    BY <2>1, PipeMono, Zenon
  <2> QED
    BY <1>2, <2>1, <2>2, PipeFacts DEF Register, Goes, readVars, connVars, procVars
<1>3. ASSUME NEW c \in Caller, RefuseDead(c) PROVE Mail'
  <2>1. Said \subseteq Said' /\ Heard \subseteq Heard' /\ asked \subseteq {r \in [id : Ids, from : Caller] : About(r)'}
    BY <1>3, AboutKept DEF RefuseDead, Places, Posted, Goes, Returns, muxVars, readVars, connVars, procVars
  <2>2. lines \in Seq(Said') /\ stdout \in Seq(Said') /\ stdin \in Seq(Heard')
    BY <2>1, PipeMono, Zenon
  <2> QED
    BY <1>3, <2>1, <2>2, PipeFacts DEF RefuseDead, Goes, Returns, muxVars, readVars, connVars, procVars
<1>4. ASSUME NEW c \in Caller, WriteRequest(c) PROVE Mail'
  <2>1. Said \subseteq Said' /\ Heard \subseteq Heard' /\ asked \subseteq {r \in [id : Ids, from : Caller] : About(r)'}
    BY <1>4, AboutKept DEF WriteRequest, Places, Posted, Goes, Send, muxVars, readVars, procVars
  <2>2. lines \in Seq(Said') /\ stdout \in Seq(Said') /\ stdin \in Seq(Heard')
    BY <2>1, PipeMono, Zenon
  <2>0. id[c] \in Ids
    BY <1>4, IdsFact DEF WriteRequest, Places, Names, Started, Ids
  <2>3. id[c] \in Ids /\ id' = id /\ pc'[c] = "wait"
    BY <1>4, <2>0 DEF WriteRequest, Places, Goes
  <2>4. [kind |-> "request", id |-> id[c], from |-> c] \in Heard'
    BY <2>3 DEF Heard, About, Posted
  <2> QED
    BY <1>4, <2>1, <2>2, <2>4, PipeFacts DEF WriteRequest, Goes, Send, muxVars, readVars, procVars
<1>5. ASSUME NEW c \in Caller, WriteErr(c) PROVE Mail'
  <2>1. Said \subseteq Said' /\ Heard \subseteq Heard' /\ asked \subseteq {r \in [id : Ids, from : Caller] : About(r)'}
    BY <1>5, AboutKept DEF WriteErr, Places, Posted, Goes, Returns, unregister, readVars, connVars, procVars
  <2>2. lines \in Seq(Said') /\ stdout \in Seq(Said') /\ stdin \in Seq(Heard')
    BY <2>1, PipeMono, Zenon
  <2> QED
    BY <1>5, <2>1, <2>2, PipeFacts DEF WriteErr, Goes, Returns, unregister, readVars, connVars, procVars
<1>6. ASSUME NEW c \in Caller, Answered(c) PROVE Mail'
  <2>1. Said \subseteq Said' /\ Heard \subseteq Heard' /\ asked \subseteq {r \in [id : Ids, from : Caller] : About(r)'}
    BY <1>6, AboutKept DEF Answered, Places, Posted, Goes, Returns, unregister, readVars, connVars, procVars
  <2>2. lines \in Seq(Said') /\ stdout \in Seq(Said') /\ stdin \in Seq(Heard')
    BY <2>1, PipeMono, Zenon
  <2> QED
    BY <1>6, <2>1, <2>2, PipeFacts DEF Answered, Goes, Returns, unregister, readVars, connVars, procVars
<1>7. ASSUME NEW c \in Caller, CtxDone(c) PROVE Mail'
  <2>1. Said \subseteq Said' /\ Heard \subseteq Heard' /\ asked \subseteq {r \in [id : Ids, from : Caller] : About(r)'}
    BY <1>7, AboutKept DEF CtxDone, Places, Posted, Goes, unregister, readVars, connVars, procVars
  <2>2. lines \in Seq(Said') /\ stdout \in Seq(Said') /\ stdin \in Seq(Heard')
    BY <2>1, PipeMono, Zenon
  <2> QED
    BY <1>7, <2>1, <2>2, PipeFacts DEF CtxDone, Goes, unregister, readVars, connVars, procVars
<1>8. ASSUME NEW c \in Caller, Died(c) PROVE Mail'
  <2>1. Said \subseteq Said' /\ Heard \subseteq Heard' /\ asked \subseteq {r \in [id : Ids, from : Caller] : About(r)'}
    BY <1>8, AboutKept DEF Died, Places, Posted, Goes, unregister, readVars, connVars, procVars
  <2>2. lines \in Seq(Said') /\ stdout \in Seq(Said') /\ stdin \in Seq(Heard')
    BY <2>1, PipeMono, Zenon
  <2> QED
    BY <1>8, <2>1, <2>2, PipeFacts DEF Died, Goes, unregister, readVars, connVars, procVars
<1>9. ASSUME NEW c \in Caller, LandedAnyway(c) PROVE Mail'
  <2>1. Said \subseteq Said' /\ Heard \subseteq Heard' /\ asked \subseteq {r \in [id : Ids, from : Caller] : About(r)'}
    BY <1>9, AboutKept DEF LandedAnyway, Places, Posted, Goes, Returns, muxVars, readVars, connVars, procVars
  <2>2. lines \in Seq(Said') /\ stdout \in Seq(Said') /\ stdin \in Seq(Heard')
    BY <2>1, PipeMono, Zenon
  <2> QED
    BY <1>9, <2>1, <2>2, PipeFacts DEF LandedAnyway, Goes, Returns, muxVars, readVars, connVars, procVars
<1>10. ASSUME NEW c \in Caller, ReturnDead(c) PROVE Mail'
  <2>1. Said \subseteq Said' /\ Heard \subseteq Heard' /\ asked \subseteq {r \in [id : Ids, from : Caller] : About(r)'}
    BY <1>10, AboutKept DEF ReturnDead, Places, Posted, Goes, Returns, muxVars, readVars, connVars, procVars
  <2>2. lines \in Seq(Said') /\ stdout \in Seq(Said') /\ stdin \in Seq(Heard')
    BY <2>1, PipeMono, Zenon
  <2> QED
    BY <1>10, <2>1, <2>2, PipeFacts DEF ReturnDead, Goes, Returns, muxVars, readVars, connVars, procVars
<1>11. ASSUME NEW c \in Caller, GivesUp(c) PROVE Mail'
  <2>1. Said \subseteq Said' /\ Heard \subseteq Heard' /\ asked \subseteq {r \in [id : Ids, from : Caller] : About(r)'}
    BY <1>11, AboutKept DEF GivesUp, Places, Posted, Goes, muxVars, readVars, connVars, procVars
  <2>2. lines \in Seq(Said') /\ stdout \in Seq(Said') /\ stdin \in Seq(Heard')
    BY <2>1, PipeMono, Zenon
  <2> QED
    BY <1>11, <2>1, <2>2, PipeFacts DEF GivesUp, Goes, muxVars, readVars, connVars, procVars
<1>12. ASSUME NEW c \in Caller, WriteCancel(c) PROVE Mail'
  <2>1. Said \subseteq Said' /\ Heard \subseteq Heard' /\ asked \subseteq {r \in [id : Ids, from : Caller] : About(r)'}
    BY <1>12, AboutKept DEF WriteCancel, Places, Posted, Goes, Returns, Send, muxVars, readVars, connVars, procVars
  <2>2. lines \in Seq(Said') /\ stdout \in Seq(Said') /\ stdin \in Seq(Heard')
    BY <2>1, PipeMono, Zenon
  <2>3. id[c] \in Ids /\ id' = id /\ pc'[c] = "done"
    BY <1>12, IdsFact DEF WriteCancel, Places, Names, Started, Ids, Goes, Returns, Send, muxVars, readVars, connVars, procVars
  <2>4. [kind |-> "cancelled", id |-> id[c], from |-> c] \in Heard'
    BY <2>3 DEF Heard, About, Posted
  <2>5. stdin' \in Seq(Heard')
    BY <1>12, <2>2, <2>4, PipeFacts DEF WriteCancel, Goes, Returns, Send, muxVars, readVars, connVars, procVars
  <2> QED
    BY <1>12, <2>1, <2>2, <2>5 DEF WriteCancel, Goes, Returns, Send, muxVars, readVars, connVars, procVars
<1>13. ASSUME NEW c \in Caller, Cancel(c) PROVE Mail'
  <2>1. Said \subseteq Said' /\ Heard \subseteq Heard' /\ asked \subseteq {r \in [id : Ids, from : Caller] : About(r)'}
    BY <1>13, AboutKept DEF Cancel, Places, Posted, muxVars, readVars, connVars, procVars
  <2>2. lines \in Seq(Said') /\ stdout \in Seq(Said') /\ stdin \in Seq(Heard')
    BY <2>1, PipeMono, Zenon
  <2> QED
    BY <1>13, <2>1, <2>2, PipeFacts DEF Cancel, muxVars, readVars, connVars, procVars
<1>14. CASE Read
  <2>1. Said \subseteq Said' /\ Heard \subseteq Heard' /\ asked \subseteq {r \in [id : Ids, from : Caller] : About(r)'}
    BY <1>14, AboutKept DEF Read, Places, Posted, callVars, muxVars, procVars
  <2>2. lines \in Seq(Said') /\ stdout \in Seq(Said') /\ stdin \in Seq(Heard')
    BY <2>1, PipeMono, Zenon
  <2> QED
    BY <1>14, <2>1, <2>2, PipeFacts DEF Read, callVars, muxVars, procVars
<1>15. CASE routeResponse
  <2>1. Said \subseteq Said' /\ Heard \subseteq Heard' /\ asked \subseteq {r \in [id : Ids, from : Caller] : About(r)'}
    BY <1>15, AboutKept DEF routeResponse, Places, Posted, callVars, muxVars, connVars, procVars
  <2>2. lines \in Seq(Said') /\ stdout \in Seq(Said') /\ stdin \in Seq(Heard')
    BY <2>1, PipeMono, Zenon
  <2> QED
    BY <1>15, <2>1, <2>2, PipeFacts DEF routeResponse, callVars, muxVars, connVars, procVars
<1>16. CASE routeNotification
  <2>1. Said \subseteq Said' /\ Heard \subseteq Heard' /\ asked \subseteq {r \in [id : Ids, from : Caller] : About(r)'}
    BY <1>16, AboutKept DEF routeNotification, Places, Posted, callVars, muxVars, connVars, procVars
  <2>2. lines \in Seq(Said') /\ stdout \in Seq(Said') /\ stdin \in Seq(Heard')
    BY <2>1, PipeMono, Zenon
  <2> QED
    BY <1>16, <2>1, <2>2, PipeFacts DEF routeNotification, callVars, muxVars, connVars, procVars
<1>17. CASE RejectRequest
  <2>1. Said \subseteq Said' /\ Heard \subseteq Heard' /\ asked \subseteq {r \in [id : Ids, from : Caller] : About(r)'}
    BY <1>17, AboutKept DEF RejectRequest, Places, Posted, Send, callVars, muxVars, connVars, procVars
  <2>2. lines \in Seq(Said') /\ stdout \in Seq(Said') /\ stdin \in Seq(Heard')
    BY <2>1, PipeMono, Zenon
  <2>3. [kind |-> "reject"] \in Heard'
    BY DEF Heard
  <2>4. stdin' \in Seq(Heard')
    BY <1>17, <2>2, <2>3, PipeFacts DEF RejectRequest, Send, callVars, muxVars, connVars, procVars
  <2> QED
    BY <1>17, <2>1, <2>2, <2>4 DEF RejectRequest, Send, callVars, muxVars, connVars, procVars
<1>18. CASE ReadErr
  <2>1. Said \subseteq Said' /\ Heard \subseteq Heard' /\ asked \subseteq {r \in [id : Ids, from : Caller] : About(r)'}
    BY <1>18, AboutKept DEF ReadErr, Places, Posted, callVars, connVars, procVars
  <2>2. lines \in Seq(Said') /\ stdout \in Seq(Said') /\ stdin \in Seq(Heard')
    BY <2>1, PipeMono, Zenon
  <2> QED
    BY <1>18, <2>1, <2>2, PipeFacts DEF ReadErr, callVars, connVars, procVars
<1>19. CASE stdoutLoop
  <2>1. Said \subseteq Said' /\ Heard \subseteq Heard' /\ asked \subseteq {r \in [id : Ids, from : Caller] : About(r)'}
    BY <1>19, AboutKept DEF stdoutLoop, Places, Posted, callVars, muxVars, readVars, procVars
  <2>2. lines \in Seq(Said') /\ stdout \in Seq(Said') /\ stdin \in Seq(Heard')
    BY <2>1, PipeMono, Zenon
  <2> QED
    BY <1>19, <2>1, <2>2, PipeFacts DEF stdoutLoop, callVars, muxVars, readVars, procVars
<1>20. CASE ScanEOF
  <2>1. Said \subseteq Said' /\ Heard \subseteq Heard' /\ asked \subseteq {r \in [id : Ids, from : Caller] : About(r)'}
    BY <1>20, AboutKept DEF ScanEOF, Places, Posted, callVars, muxVars, readVars, procVars
  <2>2. lines \in Seq(Said') /\ stdout \in Seq(Said') /\ stdin \in Seq(Heard')
    BY <2>1, PipeMono, Zenon
  <2> QED
    BY <1>20, <2>1, <2>2, PipeFacts DEF ScanEOF, callVars, muxVars, readVars, procVars
<1>21. CASE ScanErr
  <2>1. Said \subseteq Said' /\ Heard \subseteq Heard' /\ asked \subseteq {r \in [id : Ids, from : Caller] : About(r)'}
    BY <1>21, AboutKept DEF ScanErr, Places, Posted, callVars, muxVars, readVars, procVars
  <2>2. lines \in Seq(Said') /\ stdout \in Seq(Said') /\ stdin \in Seq(Heard')
    BY <2>1, PipeMono, Zenon
  <2> QED
    BY <1>21, <2>1, <2>2, PipeFacts DEF ScanErr, callVars, muxVars, readVars, procVars
<1>22. CASE waitLoop
  <2>1. Said \subseteq Said' /\ Heard \subseteq Heard' /\ asked \subseteq {r \in [id : Ids, from : Caller] : About(r)'}
    BY <1>22, AboutKept DEF waitLoop, Places, Posted, callVars, muxVars, readVars
  <2>2. lines \in Seq(Said') /\ stdout \in Seq(Said') /\ stdin \in Seq(Heard')
    BY <2>1, PipeMono, Zenon
  <2> QED
    BY <1>22, <2>1, <2>2, PipeFacts DEF waitLoop, callVars, muxVars, readVars
<1>23. CASE Close
  <2>1. Said \subseteq Said' /\ Heard \subseteq Heard' /\ asked \subseteq {r \in [id : Ids, from : Caller] : About(r)'}
    BY <1>23, AboutKept DEF Close, Places, Posted, callVars, muxVars, readVars, procVars
  <2>2. lines \in Seq(Said') /\ stdout \in Seq(Said') /\ stdin \in Seq(Heard')
    BY <2>1, PipeMono, Zenon
  <2> QED
    BY <1>23, <2>1, <2>2, PipeFacts DEF Close, callVars, muxVars, readVars, procVars
<1>24. CASE signalGroup
  <2>1. Said \subseteq Said' /\ Heard \subseteq Heard' /\ asked \subseteq {r \in [id : Ids, from : Caller] : About(r)'}
    BY <1>24, AboutKept DEF signalGroup, Places, Posted, callVars, muxVars, readVars, connVars
  <2>2. lines \in Seq(Said') /\ stdout \in Seq(Said') /\ stdin \in Seq(Heard')
    BY <2>1, PipeMono, Zenon
  <2> QED
    BY <1>24, <2>1, <2>2, PipeFacts DEF signalGroup, callVars, muxVars, readVars, connVars
<1>25. CASE ProcReads
  <2>1. Said \subseteq Said' /\ Heard \subseteq Heard' /\ asked \subseteq {r \in [id : Ids, from : Caller] : About(r)'}
    BY <1>25, AboutKept DEF ProcReads, Places, Posted, callVars, muxVars, readVars
  <2>2. lines \in Seq(Said') /\ stdout \in Seq(Said') /\ stdin \in Seq(Heard')
    BY <2>1, PipeMono, Zenon
  <2>3. Head(stdin) \in Heard /\ Tail(stdin) \in Seq(Heard')
    BY <1>25, <2>2, PipeFacts DEF ProcReads
  <2>4. Head(stdin).kind = "request" =>
           [id |-> Head(stdin).id, from |-> Head(stdin).from] \in {r \in [id : Ids, from : Caller] : About(r)}
    BY <2>3 DEF Heard, About
  <2>5. pc' = pc /\ id' = id
    BY <1>25 DEF ProcReads, callVars, muxVars, readVars
  <2>6. asked' \subseteq {r \in [id : Ids, from : Caller] : About(r)'}
    BY <1>25, <2>1, <2>4, <2>5 DEF ProcReads, About
  <2> QED
    BY <1>25, <2>2, <2>3, <2>6 DEF ProcReads, callVars, muxVars, readVars
<1>26. CASE Replies
  <2>1. Said \subseteq Said' /\ Heard \subseteq Heard' /\ asked \subseteq {r \in [id : Ids, from : Caller] : About(r)'}
    BY <1>26, AboutKept DEF Replies, Places, Posted, Says, callVars, muxVars, readVars
  <2>2. lines \in Seq(Said') /\ stdout \in Seq(Said') /\ stdin \in Seq(Heard')
    BY <2>1, PipeMono, Zenon
  <2>3. PICK r \in asked :
           Says([kind |-> "response", id |-> r.id, from |-> r.from, notes |-> told[r.from]])
    BY <1>26 DEF Replies
  <2> DEFINE m == [kind |-> "response", id |-> r.id, from |-> r.from, notes |-> told[r.from]]
  <2>4. m \in Said
    BY DEF Said, About, Response, Notification, Reading
  <2> HIDE DEF m
  <2>5. stdout' = Append(stdout, m)
    BY <2>3 DEF Says, m
  <2>6. stdout' \in Seq(Said')
    BY <2>1, <2>2, <2>4, <2>5, PipeFacts
  <2> QED
    BY <2>1, <2>2, <2>3, <2>6 DEF Says, callVars, muxVars, readVars
<1>27. CASE Notifies
  <2>1. Said \subseteq Said' /\ Heard \subseteq Heard' /\ asked \subseteq {r \in [id : Ids, from : Caller] : About(r)'}
    BY <1>27, AboutKept DEF Notifies, Places, Posted, Says, callVars, muxVars, readVars
  <2>2. lines \in Seq(Said') /\ stdout \in Seq(Said') /\ stdin \in Seq(Heard')
    BY <2>1, PipeMono, Zenon
  <2>3. PICK r \in asked, k \in {"progress", "event"} :
           Says([kind |-> k, id |-> r.id, from |-> r.from])
    BY <1>27 DEF Notifies
  <2> DEFINE m == [kind |-> k, id |-> r.id, from |-> r.from]
  <2>4. m \in Said
    BY DEF Said, About, Response, Notification, Reading
  <2> HIDE DEF m
  <2>5. stdout' = Append(stdout, m)
    BY <2>3 DEF Says, m
  <2>6. stdout' \in Seq(Said')
    BY <2>1, <2>2, <2>4, <2>5, PipeFacts
  <2> QED
    BY <2>1, <2>2, <2>3, <2>6 DEF Says, callVars, muxVars, readVars
<1>28. CASE Requests
  <2>1. Said \subseteq Said' /\ Heard \subseteq Heard' /\ asked \subseteq {r \in [id : Ids, from : Caller] : About(r)'}
    BY <1>28, AboutKept DEF Requests, Places, Posted, Says, callVars, muxVars, readVars
  <2>2. lines \in Seq(Said') /\ stdout \in Seq(Said') /\ stdin \in Seq(Heard')
    BY <2>1, PipeMono, Zenon
  <2>3. [kind |-> "request"] \in Said'
    BY DEF Said, ServerRequest
  <2>4. stdout' \in Seq(Said')
    BY <1>28, <2>2, <2>3, PipeFacts DEF Requests, Says, callVars, muxVars, readVars
  <2> QED
    BY <1>28, <2>1, <2>2, <2>4 DEF Requests, Says, callVars, muxVars, readVars
<1>29. CASE Exit
  <2>1. Said \subseteq Said' /\ Heard \subseteq Heard' /\ asked \subseteq {r \in [id : Ids, from : Caller] : About(r)'}
    BY <1>29, AboutKept DEF Exit, Places, Posted, callVars, muxVars, readVars, connVars
  <2>2. lines \in Seq(Said') /\ stdout \in Seq(Said') /\ stdin \in Seq(Heard')
    BY <2>1, PipeMono, Zenon
  <2> QED
    BY <1>29, <2>1, <2>2, PipeFacts DEF Exit, callVars, muxVars, readVars, connVars
<1>30. CASE UNCHANGED vars
  <2>1. Said \subseteq Said' /\ Heard \subseteq Heard' /\ asked \subseteq {r \in [id : Ids, from : Caller] : About(r)'}
    BY <1>30, AboutKept DEF vars, Places, Posted, callVars, muxVars, readVars, connVars, procVars
  <2>2. lines \in Seq(Said') /\ stdout \in Seq(Said') /\ stdin \in Seq(Heard')
    BY <2>1, PipeMono, Zenon
  <2> QED
    BY <1>30, <2>1, <2>2, PipeFacts DEF vars, callVars, muxVars, readVars, connVars, procVars
<1> QED
  BY <1>1, <1>2, <1>3, <1>4, <1>5, <1>6, <1>7, <1>8, <1>9, <1>10,
     <1>11, <1>12, <1>13, <1>14, <1>15, <1>16, <1>17, <1>18, <1>19, <1>20,
     <1>21, <1>22, <1>23, <1>24, <1>25, <1>26, <1>27, <1>28, <1>29, <1>30 DEF Next, Call, readLoop, Process

\* Every step hands a message to the call it is about.
LEMMA MinePreserved ==
    ASSUME Places, Reading, Names, Tables, Mail, Mine, [Next]_vars
    PROVE  Mine'
<1> USE DEF Mine, Posted
<1>1. ASSUME NEW c \in Caller, Start(c) PROVE Mine'
  BY <1>1 DEF Start, Places, Reading, Routed, Goes, readVars, connVars, procVars
<1>2. ASSUME NEW c \in Caller, Register(c) PROVE Mine'
  BY <1>2 DEF Register, Places, Reading, Routed, Goes, readVars, connVars, procVars
<1>3. ASSUME NEW c \in Caller, RefuseDead(c) PROVE Mine'
  BY <1>3 DEF RefuseDead, Places, Reading, Routed, Goes, Returns, muxVars, readVars, connVars, procVars
<1>4. ASSUME NEW c \in Caller, WriteRequest(c) PROVE Mine'
  BY <1>4 DEF WriteRequest, Places, Reading, Routed, Goes, Send, muxVars, readVars, procVars
<1>5. ASSUME NEW c \in Caller, WriteErr(c) PROVE Mine'
  BY <1>5 DEF WriteErr, Places, Reading, Routed, Goes, Returns, unregister, readVars, connVars, procVars
<1>6. ASSUME NEW c \in Caller, Answered(c) PROVE Mine'
  BY <1>6 DEF Answered, Places, Reading, Routed, Goes, Returns, unregister, readVars, connVars, procVars
<1>7. ASSUME NEW c \in Caller, CtxDone(c) PROVE Mine'
  BY <1>7 DEF CtxDone, Places, Reading, Routed, Goes, unregister, readVars, connVars, procVars
<1>8. ASSUME NEW c \in Caller, Died(c) PROVE Mine'
  BY <1>8 DEF Died, Places, Reading, Routed, Goes, unregister, readVars, connVars, procVars
<1>9. ASSUME NEW c \in Caller, LandedAnyway(c) PROVE Mine'
  BY <1>9 DEF LandedAnyway, Places, Reading, Routed, Goes, Returns, muxVars, readVars, connVars, procVars
<1>10. ASSUME NEW c \in Caller, ReturnDead(c) PROVE Mine'
  BY <1>10 DEF ReturnDead, Places, Reading, Routed, Goes, Returns, muxVars, readVars, connVars, procVars
<1>11. ASSUME NEW c \in Caller, GivesUp(c) PROVE Mine'
  BY <1>11 DEF GivesUp, Places, Reading, Routed, Goes, muxVars, readVars, connVars, procVars
<1>12. ASSUME NEW c \in Caller, WriteCancel(c) PROVE Mine'
  BY <1>12 DEF WriteCancel, Places, Reading, Routed, Goes, Returns, Send, muxVars, readVars, connVars, procVars
<1>13. ASSUME NEW c \in Caller, Cancel(c) PROVE Mine'
  BY <1>13 DEF Cancel, Places, Reading, Routed, muxVars, readVars, connVars, procVars
<1>14. CASE Read
  <2> DEFINE m == Head(lines)
  <2>1. m \in Said
    BY <1>14, PipeFacts DEF Read, Mail
  <2>2. ASSUME m.kind # "request", Lookup(m) # None
        PROVE  Lookup(m) = m.from /\ pc[m.from] \in Posted
    <3>1. m \in Response \cup Notification /\ About(m)
      BY <2>1, <2>2 DEF Said, ServerRequest
    <3>2. m.id \in Ids /\ m.from \in Caller /\ id[m.from] = m.id /\ pc[m.from] \in Posted
      BY <3>1 DEF Response, Notification, About
    <3>3. Lookup(m) \in Caller /\ (calls[m.id] = Lookup(m) \/ tokens[m.id] = Lookup(m))
      BY <2>2, <3>2 DEF Lookup, Places
    <3>4. id[Lookup(m)] = m.id /\ pc[Lookup(m)] \in {"write", "wait"}
      BY <3>2, <3>3 DEF Tables
    <3> QED
      BY <3>2, <3>3, <3>4 DEF Names, Started
  <2> HIDE DEF m
  <2>3. reader' = "deliver" => held'.msg.from = held'.to /\ pc[held'.to] \in Posted
    BY <1>14, <2>2 DEF Read, m
  <2> QED
    BY <1>14, <2>3 DEF Read, callVars, muxVars, procVars
<1>15. CASE routeResponse
  <2>1. held.msg \in Response /\ held.to \in Caller
    BY <1>15 DEF routeResponse, Notification, Reading, Routed
  <2> QED
    BY <1>15, <2>1 DEF routeResponse, Reading, callVars, muxVars, connVars, procVars
<1>16. CASE routeNotification
  BY <1>16 DEF routeNotification, Places, Reading, Routed, callVars, muxVars, connVars, procVars
<1>17. CASE RejectRequest
  BY <1>17 DEF RejectRequest, Places, Reading, Routed, Send, callVars, muxVars, connVars, procVars
<1>18. CASE ReadErr
  BY <1>18 DEF ReadErr, Places, Reading, Routed, callVars, connVars, procVars
<1>19. CASE stdoutLoop
  BY <1>19 DEF stdoutLoop, Places, Reading, Routed, callVars, muxVars, readVars, procVars
<1>20. CASE ScanEOF
  BY <1>20 DEF ScanEOF, Places, Reading, Routed, callVars, muxVars, readVars, procVars
<1>21. CASE ScanErr
  BY <1>21 DEF ScanErr, Places, Reading, Routed, callVars, muxVars, readVars, procVars
<1>22. CASE waitLoop
  BY <1>22 DEF waitLoop, Places, Reading, Routed, callVars, muxVars, readVars
<1>23. CASE Close
  BY <1>23 DEF Close, Places, Reading, Routed, callVars, muxVars, readVars, procVars
<1>24. CASE signalGroup
  BY <1>24 DEF signalGroup, Places, Reading, Routed, callVars, muxVars, readVars, connVars
<1>25. CASE ProcReads
  BY <1>25 DEF ProcReads, Places, Reading, Routed, callVars, muxVars, readVars
<1>26. CASE Replies
  BY <1>26 DEF Replies, Places, Reading, Routed, Says, callVars, muxVars, readVars
<1>27. CASE Notifies
  BY <1>27 DEF Notifies, Places, Reading, Routed, Says, callVars, muxVars, readVars
<1>28. CASE Requests
  BY <1>28 DEF Requests, Places, Reading, Routed, Says, callVars, muxVars, readVars
<1>29. CASE Exit
  BY <1>29 DEF Exit, Places, Reading, Routed, callVars, muxVars, readVars, connVars
<1>30. CASE UNCHANGED vars
  BY <1>30 DEF vars, Places, Reading, Routed, callVars, muxVars, readVars, connVars, procVars
<1> QED
  BY <1>1, <1>2, <1>3, <1>4, <1>5, <1>6, <1>7, <1>8, <1>9, <1>10,
     <1>11, <1>12, <1>13, <1>14, <1>15, <1>16, <1>17, <1>18, <1>19, <1>20,
     <1>21, <1>22, <1>23, <1>24, <1>25, <1>26, <1>27, <1>28, <1>29, <1>30 DEF Next, Call, readLoop, Process

\* Every step keeps a call reported dead unanswered.
LEMMA DeathPreserved ==
    ASSUME Places, Reading, Mine, Death, [Next]_vars
    PROVE  Death'
<1> USE DEF Death, Posted
<1>1. ASSUME NEW c \in Caller, Start(c) PROVE Death'
  BY <1>1 DEF Start, Goes, readVars, connVars, procVars
<1>2. ASSUME NEW c \in Caller, Register(c) PROVE Death'
  BY <1>2 DEF Register, Goes, readVars, connVars, procVars
<1>3. ASSUME NEW c \in Caller, RefuseDead(c) PROVE Death'
  <2>1. resp[c] = None
    BY <1>3 DEF RefuseDead, Mine
  <2> QED
    BY <1>3, <2>1 DEF RefuseDead, Places, Goes, Returns, muxVars, readVars, connVars, procVars
<1>4. ASSUME NEW c \in Caller, WriteRequest(c) PROVE Death'
  BY <1>4 DEF WriteRequest, Goes, Send, muxVars, readVars, procVars
<1>5. ASSUME NEW c \in Caller, WriteErr(c) PROVE Death'
  BY <1>5 DEF WriteErr, Goes, Returns, unregister, readVars, connVars, procVars
<1>6. ASSUME NEW c \in Caller, Answered(c) PROVE Death'
  BY <1>6 DEF Answered, Goes, Returns, unregister, readVars, connVars, procVars
<1>7. ASSUME NEW c \in Caller, CtxDone(c) PROVE Death'
  BY <1>7 DEF CtxDone, Goes, unregister, readVars, connVars, procVars
<1>8. ASSUME NEW c \in Caller, Died(c) PROVE Death'
  BY <1>8 DEF Died, Goes, unregister, readVars, connVars, procVars
<1>9. ASSUME NEW c \in Caller, LandedAnyway(c) PROVE Death'
  BY <1>9 DEF LandedAnyway, Goes, Returns, muxVars, readVars, connVars, procVars
<1>10. ASSUME NEW c \in Caller, ReturnDead(c) PROVE Death'
  BY <1>10 DEF ReturnDead, Goes, Returns, muxVars, readVars, connVars, procVars
<1>11. ASSUME NEW c \in Caller, GivesUp(c) PROVE Death'
  BY <1>11 DEF GivesUp, Goes, muxVars, readVars, connVars, procVars
<1>12. ASSUME NEW c \in Caller, WriteCancel(c) PROVE Death'
  BY <1>12 DEF WriteCancel, Goes, Returns, Send, muxVars, readVars, connVars, procVars
<1>13. ASSUME NEW c \in Caller, Cancel(c) PROVE Death'
  BY <1>13 DEF Cancel, muxVars, readVars, connVars, procVars
<1>14. CASE Read
  BY <1>14 DEF Read, callVars, muxVars, procVars
<1>15. CASE routeResponse
  BY <1>15 DEF routeResponse, callVars, muxVars, connVars, procVars
<1>16. CASE routeNotification
  BY <1>16 DEF routeNotification, callVars, muxVars, connVars, procVars
<1>17. CASE RejectRequest
  BY <1>17 DEF RejectRequest, Send, callVars, muxVars, connVars, procVars
<1>18. CASE ReadErr
  BY <1>18 DEF ReadErr, callVars, connVars, procVars
<1>19. CASE stdoutLoop
  BY <1>19 DEF stdoutLoop, callVars, muxVars, readVars, procVars
<1>20. CASE ScanEOF
  BY <1>20 DEF ScanEOF, callVars, muxVars, readVars, procVars
<1>21. CASE ScanErr
  BY <1>21 DEF ScanErr, callVars, muxVars, readVars, procVars
<1>22. CASE waitLoop
  BY <1>22 DEF waitLoop, callVars, muxVars, readVars
<1>23. CASE Close
  BY <1>23 DEF Close, callVars, muxVars, readVars, procVars
<1>24. CASE signalGroup
  BY <1>24 DEF signalGroup, callVars, muxVars, readVars, connVars
<1>25. CASE ProcReads
  BY <1>25 DEF ProcReads, callVars, muxVars, readVars
<1>26. CASE Replies
  BY <1>26 DEF Replies, Says, callVars, muxVars, readVars
<1>27. CASE Notifies
  BY <1>27 DEF Notifies, Says, callVars, muxVars, readVars
<1>28. CASE Requests
  BY <1>28 DEF Requests, Says, callVars, muxVars, readVars
<1>29. CASE Exit
  BY <1>29 DEF Exit, callVars, muxVars, readVars, connVars
<1>30. CASE UNCHANGED vars
  BY <1>30 DEF vars, callVars, muxVars, readVars, connVars, procVars
<1> QED
  BY <1>1, <1>2, <1>3, <1>4, <1>5, <1>6, <1>7, <1>8, <1>9, <1>10,
     <1>11, <1>12, <1>13, <1>14, <1>15, <1>16, <1>17, <1>18, <1>19, <1>20,
     <1>21, <1>22, <1>23, <1>24, <1>25, <1>26, <1>27, <1>28, <1>29, <1>30 DEF Next, Call, readLoop, Process

-----------------------------------------------------------------------------

\* MuxInv is an invariant of Mux.
THEOREM Invariance == Spec => []MuxInv
<1>1. ASSUME MuxInv, [Next]_vars PROVE MuxInv'
  BY <1>1, FlagsPreserved, PlacesPreserved, ReadingPreserved, NamesPreserved,
     TablesPreserved, MailPreserved, MinePreserved, DeathPreserved DEF MuxInv
<1> QED
  BY InitInv, <1>1, PTL DEF Spec

\* Every variable of Mux keeps its type: the ids suffice, and readLoop never
\* routes to a call it did not find.
THEOREM MuxTypeCorrect == Spec => []TypeOK
<1>1. MuxInv => TypeOK
  <2> SUFFICES ASSUME MuxInv PROVE TypeOK
    OBVIOUS
  <2>1. Said \subseteq Outgoing /\ Heard \subseteq Incoming
    BY DEF Said, Heard, Outgoing, Incoming
  <2>2. lines \in Seq(Outgoing) /\ stdout \in Seq(Outgoing) /\ stdin \in Seq(Incoming)
    BY <2>1, PipeMono, Zenon DEF MuxInv, Mail
  <2>3. asked \subseteq [id : Ids, from : Caller]
    BY DEF MuxInv, Mail
  <2> QED
    BY <2>2, <2>3 DEF MuxInv, Flags, Places, Reading, Routed, TypeOK
<1> QED
  BY Invariance, <1>1, PTL

\* Mux.Call: for any number of calls, what a call is given answers its own
\* request.
THEOREM AnswersAreMine == Spec => []AnswerIsMine
<1>1. MuxInv => AnswerIsMine
  BY DEF MuxInv, Mine, Reading, AnswerIsMine
<1> QED
  BY Invariance, <1>1, PTL

\* Mux.Call: no exit leaves an entry in calls or tokens.
THEOREM NothingLeaks == Spec => []NoLeak
<1>1. MuxInv => NoLeak
  BY DEF MuxInv, Tables, NoLeak
<1> QED
  BY Invariance, <1>1, PTL

\* Mux.Call: a response that has landed is never reported as a dead
\* connection.
THEOREM LandedAlwaysWins == Spec => []LandedWins
<1>1. MuxInv => LandedWins
  BY DEF MuxInv, Death, LandedWins
<1> QED
  BY Invariance, <1>1, PTL

-----------------------------------------------------------------------------
(* Notifications before the answer *)

\* While a call is registered no notification about it is dropped; readLoop
\* takes messages in order.  So what a call has been given, and what is ahead of
\* its answer in the pipes, are together all that was sent before the answer.

Pipe == lines \o stdout

IsNote(c, m) == m.kind \in {"progress", "event"} /\ m.from = c

\* The notifications about c among the first k messages of s, and their number.
NoteSet(c, s, k) == {j \in 1..k : IsNote(c, s[j])}

Notes(c, s, k) == Cardinality(NoteSet(c, s, k))

Handing(c) == reader = "deliver" /\ held.msg.kind # "response" /\ held.to = c

\* What c has been given, the notification readLoop is about to give it included.
Given(c) == heard[c] + (IF Handing(c) THEN 1 ELSE 0)

Entered ==
    \A c \in Caller : pc[c] \in {"write", "wait"} =>
        calls[id[c]] = c /\ (token[c] => tokens[id[c]] = c)

\* Progress is reported only to a call that asked for it, and nothing to one
\* that has not written its request.
Tokened ==
    /\ \A k \in 1..Len(Pipe) : Pipe[k].kind = "progress" => token[Pipe[k].from]
    /\ \A c \in Caller : pc[c] \notin Posted => told[c] = 0

Ahead(c) ==
    /\ \A k \in 1..Len(Pipe) :
          Pipe[k].kind = "response" /\ Pipe[k].from = c => Pipe[k].notes <= Given(c) + Notes(c, Pipe, k)
    /\ proc # "reaped" => told[c] <= Given(c) + Notes(c, Pipe, Len(Pipe))

Ordered == \A c \in Caller : pc[c] = "wait" => Ahead(c)

Handed ==
    /\ reader = "deliver" /\ held.msg.kind = "response" => held.msg.notes <= heard[held.to]
    /\ \A c \in Caller : resp[c] # None => resp[c].notes <= heard[c]
    /\ \A c \in Caller : outcome[c] = "answer" => resp[c] # None

NotesInv == Entered /\ Tokened /\ Ordered /\ Handed

-----------------------------------------------------------------------------

\* Counting in a part of a pipe gives a number.
LEMMA NotesNat ==
    ASSUME NEW c, NEW s, NEW k \in Nat
    PROVE  IsFiniteSet(NoteSet(c, s, k)) /\ Notes(c, s, k) \in Nat
<1>1. IsFiniteSet(1..k)
  BY FS_Interval
<1>2. IsFiniteSet(NoteSet(c, s, k))
  BY <1>1, FS_Subset DEF NoteSet
<1> QED
  BY <1>2, FS_CardinalityType DEF Notes

\* Sequences that agree so far count the same so far.
LEMMA NotesSame ==
    ASSUME NEW c, NEW s, NEW t, NEW k \in Nat, \A j \in 1..k : s[j] = t[j]
    PROVE  Notes(c, s, k) = Notes(c, t, k)
<1>1. NoteSet(c, s, k) = NoteSet(c, t, k)
  BY DEF IsNote, NoteSet
<1> QED
  BY <1>1 DEF Notes

\* One more message counts if it is a notification for the call.
LEMMA NotesNext ==
    ASSUME NEW c, NEW s, NEW k \in Nat
    PROVE  Notes(c, s, k + 1) = Notes(c, s, k) + (IF IsNote(c, s[k + 1]) THEN 1 ELSE 0)
<1>1. IsFiniteSet(NoteSet(c, s, k)) /\ k + 1 \notin NoteSet(c, s, k) /\ Notes(c, s, k) \in Nat
  BY NotesNat DEF NoteSet
<1>2. CASE IsNote(c, s[k + 1])
  <2>1. NoteSet(c, s, k + 1) = NoteSet(c, s, k) \cup {k + 1}
    BY <1>2 DEF NoteSet
  <2>2. Cardinality(NoteSet(c, s, k) \cup {k + 1}) = Notes(c, s, k) + 1
    BY <1>1, FS_AddElement DEF Notes
  <2> QED
    BY <1>2, <2>1, <2>2 DEF Notes
<1>3. CASE ~IsNote(c, s[k + 1])
  <2>1. NoteSet(c, s, k + 1) = NoteSet(c, s, k)
    BY <1>3 DEF NoteSet
  <2>2. Notes(c, s, k + 1) = Notes(c, s, k)
    BY <2>1 DEF Notes
  <2> QED
    BY <1>1, <1>3, <2>2
<1> QED
  BY <1>2, <1>3

\* Taking the first message leaves what it counted for out.
LEMMA NotesTail ==
    ASSUME NEW M, NEW s \in Seq(M), s # <<>>, NEW c, NEW k \in 0..Len(Tail(s))
    PROVE  Notes(c, s, k + 1) = Notes(c, Tail(s), k) + (IF IsNote(c, Head(s)) THEN 1 ELSE 0)
<1> DEFINE N == NoteSet(c, s, k + 1)
           T == NoteSet(c, Tail(s), k)
           f == [j \in T |-> j + 1]
<1>1. \A j \in 1..k : Tail(s)[j] = s[j + 1]
  BY HeadTailProperties
<1>2. Head(s) = s[1]
  OBVIOUS
<1>3. /\ IsFiniteSet(N) /\ Notes(c, s, k + 1) \in Nat
      /\ IsFiniteSet(T) /\ Notes(c, Tail(s), k) \in Nat
  BY NotesNat
<1>4. f \in Bijection(T, N \ {1})
  <2> USE DEF NoteSet
  <2>1. \A j \in T : j + 1 \in N \ {1}
    BY <1>1
  <2>2. \A i \in N \ {1} : i - 1 \in T /\ (i - 1) + 1 = i
    BY <1>1
  <2>3. f \in [T -> N \ {1}]
    BY <2>1
  <2>4. \A i, j \in T : f[i] = f[j] => i = j
    OBVIOUS
  <2>5. \A i \in N \ {1} : \E j \in T : f[j] = i
    BY <2>2
  <2> QED
    BY <2>3, <2>4, <2>5, Fun_IsBij
<1> HIDE DEF f
<1>5. Cardinality(T) = Cardinality(N \ {1})
  BY <1>3, <1>4, FS_Bijection, Fun_ExistsBij
<1>6. Cardinality(N \ {1}) = IF 1 \in N THEN Cardinality(N) - 1 ELSE Cardinality(N)
  BY <1>3, FS_RemoveElement
<1>7. 1 \in N <=> IsNote(c, Head(s))
  BY <1>2 DEF NoteSet
<1> QED
  BY <1>3, <1>5, <1>6, <1>7 DEF Notes

\* The scanner moves a message along the pipe; readLoop takes the first of it;
\* the process adds one at its end; cmd.Wait cuts it.
LEMMA PipeMoves ==
    ASSUME NEW S, lines \in Seq(S), stdout \in Seq(S)
    PROVE  /\ Pipe \in Seq(S)
           /\ stdoutLoop => Pipe' = Pipe
           /\ Read => /\ Pipe # <<>> /\ Head(Pipe) = Head(lines)
                      /\ Pipe' = Tail(Pipe)
           /\ \A m \in S : Says(m) => Pipe' = Append(Pipe, m)
           /\ waitLoop => \A k \in 1..Len(Pipe') : k \in 1..Len(Pipe) /\ Pipe'[k] = Pipe[k]
<1> USE DEF Pipe
<1>1. Pipe \in Seq(S)
  BY ConcatProperties
<1>2. ASSUME stdoutLoop PROVE Pipe' = Pipe
  <2>1. stdout # <<>> /\ lines' = Append(lines, Head(stdout)) /\ stdout' = Tail(stdout)
    BY <1>2 DEF stdoutLoop
  <2>2. Head(stdout) \in S /\ Tail(stdout) \in Seq(S)
    BY <2>1, HeadTailProperties
  <2> QED
    BY <2>1, <2>2
<1>3. ASSUME Read PROVE Pipe # <<>> /\ Head(Pipe) = Head(lines) /\ Pipe' = Tail(Pipe)
  <2>1. lines # <<>> /\ lines' = Tail(lines) /\ stdout' = stdout
    BY <1>3 DEF Read
  <2> QED
    BY <2>1
<1>4. ASSUME NEW m \in S, Says(m) PROVE Pipe' = Append(Pipe, m)
  <2>1. lines' = lines /\ stdout' = Append(stdout, m)
    BY <1>4 DEF Says
  <2> QED
    BY <2>1
<1>5. ASSUME waitLoop
      PROVE  \A k \in 1..Len(Pipe') : k \in 1..Len(Pipe) /\ Pipe'[k] = Pipe[k]
  <2>1. PICK n \in 0..Len(stdout) : stdout' = SubSeq(stdout, 1, n)
    BY <1>5 DEF waitLoop
  <2>2. lines' = lines
    BY <1>5 DEF waitLoop
  <2>3. Len(stdout') = n /\ \A k \in 1..n : stdout'[k] = stdout[k]
    BY <2>1
  <2>4. stdout' \in Seq(S)
    BY <2>1
  <2> QED
    BY <2>2, <2>3, <2>4
<1> QED
  BY <1>1, <1>2, <1>3, <1>4, <1>5

\* Nothing is counted in the empty part.
LEMMA NotesNone == ASSUME NEW c, NEW s PROVE Notes(c, s, 0) = 0
<1>1. NoteSet(c, s, 0) = {}
  BY DEF NoteSet
<1> QED
  BY <1>1, FS_EmptySet DEF Notes

\* What a message at the pipe's end changes.
LEMMA PipeGrows ==
    ASSUME NEW S, Pipe \in Seq(S), NEW m \in S, Pipe' = Append(Pipe, m)
    PROVE  /\ Len(Pipe') = Len(Pipe) + 1 /\ Len(Pipe) \in Nat
           /\ Pipe'[Len(Pipe) + 1] = m
           /\ \A k \in 1..Len(Pipe) : Pipe'[k] = Pipe[k]
           /\ \A c \in Caller, k \in 0..Len(Pipe) : Notes(c, Pipe', k) = Notes(c, Pipe, k)
           /\ \A c \in Caller :
                 Notes(c, Pipe', Len(Pipe) + 1) =
                     Notes(c, Pipe, Len(Pipe)) + (IF IsNote(c, m) THEN 1 ELSE 0)
<1>1. /\ Len(Pipe') = Len(Pipe) + 1 /\ Len(Pipe) \in Nat
      /\ Pipe'[Len(Pipe) + 1] = m
      /\ \A k \in 1..Len(Pipe) : Pipe'[k] = Pipe[k]
  BY AppendProperties
<1>2. ASSUME NEW c \in Caller, NEW k \in 0..Len(Pipe) PROVE Notes(c, Pipe', k) = Notes(c, Pipe, k)
  <2>1. k \in Nat /\ \A j \in 1..k : Pipe'[j] = Pipe[j]
    BY <1>1
  <2> QED
    BY <2>1, NotesSame
<1>3. ASSUME NEW c \in Caller
      PROVE  Notes(c, Pipe', Len(Pipe) + 1) =
                 Notes(c, Pipe, Len(Pipe)) + (IF IsNote(c, m) THEN 1 ELSE 0)
  <2>1. Notes(c, Pipe', Len(Pipe)) = Notes(c, Pipe, Len(Pipe))
    BY <1>1, <1>2
  <2> QED
    BY <1>1, <2>1, NotesNext
<1> QED
  BY <1>1, <1>2, <1>3

\* What is in the pipes is about a call that has written its request.
LEMMA PipeIsAbout ==
    ASSUME MuxInv
    PROVE  /\ lines \in Seq(Said) /\ stdout \in Seq(Said) /\ Pipe \in Seq(Said)
           /\ \A k \in 1..Len(Pipe) :
                 Pipe[k].kind # "request" =>
                     /\ Pipe[k] \in Response \cup Notification
                     /\ Pipe[k].from \in Caller
                     /\ About(Pipe[k])
<1>1. lines \in Seq(Said) /\ stdout \in Seq(Said)
  BY DEF MuxInv, Mail
<1>2. Pipe \in Seq(Said)
  BY <1>1, PipeMoves
<1>3. \A k \in 1..Len(Pipe) : Pipe[k] \in Said
  BY <1>2
<1>4. \A m \in Said : m.kind # "request" =>
          m \in Response \cup Notification /\ m.from \in Caller /\ About(m)
  BY DEF Said, ServerRequest, Response, Notification
<1> QED
  BY <1>1, <1>2, <1>3, <1>4

\* What a call is given is a number.
LEMMA GivenNat ==
    ASSUME MuxInv, NEW c \in Caller
    PROVE  heard[c] \in Nat /\ Given(c) \in Nat /\ Given(c) >= heard[c] /\ told[c] \in Nat
  BY DEF MuxInv, Reading, Given

-----------------------------------------------------------------------------

\* Register enters a call, and only its own exits take it out.
LEMMA EnteredPreserved ==
    ASSUME MuxInv, NotesInv, [Next]_vars
    PROVE  Entered'
<1>0. Places /\ Names /\ Tables /\ Entered /\ Flags
  BY DEF MuxInv, NotesInv
<1> USE <1>0 DEF Entered, Places
<1>1. ASSUME NEW c \in Caller, Start(c) PROVE Entered'
  BY <1>1 DEF Names, Started, Flags, Start, Goes, readVars, connVars, procVars
<1>2. ASSUME NEW c \in Caller, Register(c) PROVE Entered'
  BY <1>2, IdsFact DEF Names, Started, Ids, Register, Goes, readVars, connVars, procVars
<1>3. ASSUME NEW c \in Caller, RefuseDead(c) PROVE Entered'
  BY <1>3 DEF RefuseDead, Goes, Returns, muxVars, readVars, connVars, procVars
<1>4. ASSUME NEW c \in Caller, WriteRequest(c) PROVE Entered'
  BY <1>4 DEF WriteRequest, Goes, Send, muxVars, readVars, procVars
<1>5. ASSUME NEW c \in Caller, WriteErr(c) PROVE Entered'
  BY <1>5 DEF Names, Started, WriteErr, Goes, Returns, unregister, readVars, connVars, procVars
<1>6. ASSUME NEW c \in Caller, Answered(c) PROVE Entered'
  BY <1>6 DEF Names, Started, Answered, Goes, Returns, unregister, readVars, connVars, procVars
<1>7. ASSUME NEW c \in Caller, CtxDone(c) PROVE Entered'
  BY <1>7 DEF Names, Started, CtxDone, Goes, unregister, readVars, connVars, procVars
<1>8. ASSUME NEW c \in Caller, Died(c) PROVE Entered'
  BY <1>8 DEF Names, Started, Died, Goes, unregister, readVars, connVars, procVars
<1>9. ASSUME NEW c \in Caller, LandedAnyway(c) PROVE Entered'
  BY <1>9 DEF LandedAnyway, Goes, Returns, muxVars, readVars, connVars, procVars
<1>10. ASSUME NEW c \in Caller, ReturnDead(c) PROVE Entered'
  BY <1>10 DEF ReturnDead, Goes, Returns, muxVars, readVars, connVars, procVars
<1>11. ASSUME NEW c \in Caller, GivesUp(c) PROVE Entered'
  BY <1>11 DEF GivesUp, Goes, muxVars, readVars, connVars, procVars
<1>12. ASSUME NEW c \in Caller, WriteCancel(c) PROVE Entered'
  BY <1>12 DEF WriteCancel, Goes, Returns, Send, muxVars, readVars, connVars, procVars
<1>13. ASSUME NEW c \in Caller, Cancel(c) PROVE Entered'
  BY <1>13 DEF Cancel, muxVars, readVars, connVars, procVars
<1>14. CASE Read
  BY <1>14 DEF Read, callVars, muxVars, procVars
<1>15. CASE routeResponse
  BY <1>15 DEF routeResponse, callVars, muxVars, connVars, procVars
<1>16. CASE routeNotification
  BY <1>16 DEF routeNotification, callVars, muxVars, connVars, procVars
<1>17. CASE RejectRequest
  BY <1>17 DEF RejectRequest, Send, callVars, muxVars, connVars, procVars
<1>18. CASE ReadErr
  BY <1>18 DEF ReadErr, callVars, connVars, procVars
<1>19. CASE stdoutLoop
  BY <1>19 DEF stdoutLoop, callVars, muxVars, readVars, procVars
<1>20. CASE ScanEOF
  BY <1>20 DEF ScanEOF, callVars, muxVars, readVars, procVars
<1>21. CASE ScanErr
  BY <1>21 DEF ScanErr, callVars, muxVars, readVars, procVars
<1>22. CASE waitLoop
  BY <1>22 DEF waitLoop, callVars, muxVars, readVars
<1>23. CASE Close
  BY <1>23 DEF Close, callVars, muxVars, readVars, procVars
<1>24. CASE signalGroup
  BY <1>24 DEF signalGroup, callVars, muxVars, readVars, connVars
<1>25. CASE ProcReads
  BY <1>25 DEF ProcReads, callVars, muxVars, readVars
<1>26. CASE Replies
  BY <1>26 DEF Replies, Says, callVars, muxVars, readVars
<1>27. CASE Notifies
  BY <1>27 DEF Notifies, Says, callVars, muxVars, readVars
<1>28. CASE Requests
  BY <1>28 DEF Requests, Says, callVars, muxVars, readVars
<1>29. CASE Exit
  BY <1>29 DEF Exit, callVars, muxVars, readVars, connVars
<1>30. CASE UNCHANGED vars
  BY <1>30 DEF vars, callVars, muxVars, readVars, connVars, procVars
<1> QED
  BY <1>1, <1>2, <1>3, <1>4, <1>5, <1>6, <1>7, <1>8, <1>9, <1>10,
     <1>11, <1>12, <1>13, <1>14, <1>15, <1>16, <1>17, <1>18, <1>19, <1>20,
     <1>21, <1>22, <1>23, <1>24, <1>25, <1>26, <1>27, <1>28, <1>29, <1>30 DEF Next, Call, readLoop, Process

\* No notification is reported to a call before it has written its request, and
\* no progress to one that did not ask for it.
LEMMA TokenedPreserved ==
    ASSUME MuxInv, NotesInv, [Next]_vars
    PROVE  Tokened'
<1>0. Places /\ Flags /\ Tokened /\ Reading
  BY DEF MuxInv, NotesInv
<1>p. /\ Pipe \in Seq(Said) /\ lines \in Seq(Said) /\ stdout \in Seq(Said)
      /\ \A k \in 1..Len(Pipe) : Pipe[k].kind # "request" =>
             Pipe[k].from \in Caller /\ pc[Pipe[k].from] \in Posted
  BY PipeIsAbout DEF About
<1>a. asked \subseteq {r \in [id : Ids, from : Caller] : About(r)}
  BY DEF MuxInv, Mail
<1>q. ASSUME \A k \in 1..Len(Pipe') : k \in 1..Len(Pipe) /\ Pipe'[k] = Pipe[k], told' = told,
             \A d \in Caller : pc[d] \in Posted => token'[d] = token[d] /\ pc'[d] \in Posted
      PROVE  Tokened'
  BY <1>0, <1>p, <1>q DEF Tokened, Places
<1> DEFINE Quiet == /\ Pipe' = Pipe /\ told' = told
                    /\ \A d \in Caller : pc[d] \in Posted => token'[d] = token[d] /\ pc'[d] \in Posted
<1>s. Quiet => Tokened'
  BY <1>p, <1>q
<1> HIDE DEF Quiet
<1>1. ASSUME NEW c \in Caller, Start(c) PROVE Tokened'
  <2>1. Quiet
    BY <1>1, <1>0 DEF Quiet, Pipe, Posted, Places, Start, Goes, readVars, connVars, procVars
  <2> QED
    BY <2>1, <1>s
<1>2. ASSUME NEW c \in Caller, Register(c) PROVE Tokened'
  <2>1. Quiet
    BY <1>2, <1>0 DEF Quiet, Pipe, Posted, Places, Register, Goes, readVars, connVars, procVars
  <2> QED
    BY <2>1, <1>s
<1>3. ASSUME NEW c \in Caller, RefuseDead(c) PROVE Tokened'
  <2>1. Quiet
    BY <1>3, <1>0 DEF Quiet, Pipe, Posted, Places, RefuseDead, Goes, Returns, muxVars, readVars, connVars, procVars
  <2> QED
    BY <2>1, <1>s
<1>4. ASSUME NEW c \in Caller, WriteRequest(c) PROVE Tokened'
  <2>1. Quiet
    BY <1>4, <1>0 DEF Quiet, Pipe, Posted, Places, WriteRequest, Goes, Send, muxVars, readVars, procVars
  <2> QED
    BY <2>1, <1>s
<1>5. ASSUME NEW c \in Caller, WriteErr(c) PROVE Tokened'
  <2>1. Quiet
    BY <1>5, <1>0 DEF Quiet, Pipe, Posted, Places, WriteErr, Goes, Returns, unregister, readVars, connVars, procVars
  <2> QED
    BY <2>1, <1>s
<1>6. ASSUME NEW c \in Caller, Answered(c) PROVE Tokened'
  <2>1. Quiet
    BY <1>6, <1>0 DEF Quiet, Pipe, Posted, Places, Answered, Goes, Returns, unregister, readVars, connVars, procVars
  <2> QED
    BY <2>1, <1>s
<1>7. ASSUME NEW c \in Caller, CtxDone(c) PROVE Tokened'
  <2>1. Quiet
    BY <1>7, <1>0 DEF Quiet, Pipe, Posted, Places, CtxDone, Goes, unregister, readVars, connVars, procVars
  <2> QED
    BY <2>1, <1>s
<1>8. ASSUME NEW c \in Caller, Died(c) PROVE Tokened'
  <2>1. Quiet
    BY <1>8, <1>0 DEF Quiet, Pipe, Posted, Places, Died, Goes, unregister, readVars, connVars, procVars
  <2> QED
    BY <2>1, <1>s
<1>9. ASSUME NEW c \in Caller, LandedAnyway(c) PROVE Tokened'
  <2>1. Quiet
    BY <1>9, <1>0 DEF Quiet, Pipe, Posted, Places, LandedAnyway, Goes, Returns, muxVars, readVars, connVars, procVars
  <2> QED
    BY <2>1, <1>s
<1>10. ASSUME NEW c \in Caller, ReturnDead(c) PROVE Tokened'
  <2>1. Quiet
    BY <1>10, <1>0 DEF Quiet, Pipe, Posted, Places, ReturnDead, Goes, Returns, muxVars, readVars, connVars, procVars
  <2> QED
    BY <2>1, <1>s
<1>11. ASSUME NEW c \in Caller, GivesUp(c) PROVE Tokened'
  <2>1. Quiet
    BY <1>11, <1>0 DEF Quiet, Pipe, Posted, Places, GivesUp, Goes, muxVars, readVars, connVars, procVars
  <2> QED
    BY <2>1, <1>s
<1>12. ASSUME NEW c \in Caller, WriteCancel(c) PROVE Tokened'
  <2>1. Quiet
    BY <1>12, <1>0 DEF Quiet, Pipe, Posted, Places, WriteCancel, Goes, Returns, Send, muxVars, readVars, connVars, procVars
  <2> QED
    BY <2>1, <1>s
<1>13. ASSUME NEW c \in Caller, Cancel(c) PROVE Tokened'
  <2>1. Quiet
    BY <1>13, <1>0 DEF Quiet, Pipe, Posted, Places, Cancel, muxVars, readVars, connVars, procVars
  <2> QED
    BY <2>1, <1>s
<1>14. CASE Read
  <2>1. Pipe # <<>> /\ Pipe' = Tail(Pipe)
    BY <1>14, <1>p, PipeMoves
  <2>2. Len(Pipe') = Len(Pipe) - 1 /\ \A k \in 1..Len(Pipe') : Pipe'[k] = Pipe[k + 1]
    BY <2>1, <1>p
  <2>3. told' = told /\ token' = token /\ pc' = pc
    BY <1>14 DEF Read, callVars, muxVars, procVars
  <2>4. \A k \in 1..Len(Pipe') : Pipe'[k].kind = "progress" => token[Pipe'[k].from]
    <3> SUFFICES ASSUME NEW k \in 1..Len(Pipe') PROVE Pipe'[k].kind = "progress" => token[Pipe'[k].from]
      OBVIOUS
    <3>1. k + 1 \in 1..Len(Pipe) /\ Pipe'[k] = Pipe[k + 1]
      BY <2>2, <1>p
    <3> QED
      BY <3>1, <1>0 DEF Tokened
  <2> QED
    BY <2>3, <2>4, <1>0 DEF Tokened
<1>15. CASE routeResponse
  <2>1. Quiet
    BY <1>15, <1>0 DEF Quiet, Pipe, Posted, Places, routeResponse, callVars, muxVars, connVars, procVars
  <2> QED
    BY <2>1, <1>s
<1>16. CASE routeNotification
  <2>1. Quiet
    BY <1>16, <1>0 DEF Quiet, Pipe, Posted, Places, routeNotification, callVars, muxVars, connVars, procVars
  <2> QED
    BY <2>1, <1>s
<1>17. CASE RejectRequest
  <2>1. Quiet
    BY <1>17, <1>0 DEF Quiet, Pipe, Posted, Places, RejectRequest, Send, callVars, muxVars, connVars, procVars
  <2> QED
    BY <2>1, <1>s
<1>18. CASE ReadErr
  <2>1. Quiet
    BY <1>18, <1>0 DEF Quiet, Pipe, Posted, Places, ReadErr, callVars, connVars, procVars
  <2> QED
    BY <2>1, <1>s
<1>19. CASE stdoutLoop
  <2>1. Quiet
    BY <1>19, <1>p, PipeMoves DEF Quiet, Posted, stdoutLoop, callVars, muxVars, readVars, procVars
  <2> QED
    BY <2>1, <1>s
<1>20. CASE ScanEOF
  <2>1. Quiet
    BY <1>20, <1>0 DEF Quiet, Pipe, Posted, Places, ScanEOF, callVars, muxVars, readVars, procVars
  <2> QED
    BY <2>1, <1>s
<1>21. CASE ScanErr
  <2>1. Quiet
    BY <1>21, <1>0 DEF Quiet, Pipe, Posted, Places, ScanErr, callVars, muxVars, readVars, procVars
  <2> QED
    BY <2>1, <1>s
<1>22. CASE waitLoop
  <2>1. told' = told /\ token' = token /\ pc' = pc
    BY <1>22 DEF waitLoop, callVars, muxVars, readVars
  <2>2. \A k \in 1..Len(Pipe') : k \in 1..Len(Pipe) /\ Pipe'[k] = Pipe[k]
    BY <1>22, <1>p, PipeMoves
  <2> QED
    BY <2>1, <2>2, <1>q
<1>23. CASE Close
  <2>1. Quiet
    BY <1>23, <1>0 DEF Quiet, Pipe, Posted, Places, Close, callVars, muxVars, readVars, procVars
  <2> QED
    BY <2>1, <1>s
<1>24. CASE signalGroup
  <2>1. Quiet
    BY <1>24, <1>0 DEF Quiet, Pipe, Posted, Places, signalGroup, callVars, muxVars, readVars, connVars
  <2> QED
    BY <2>1, <1>s
<1>25. CASE ProcReads
  <2>1. Quiet
    BY <1>25, <1>0 DEF Quiet, Pipe, Posted, Places, ProcReads, callVars, muxVars, readVars
  <2> QED
    BY <2>1, <1>s
<1>26. CASE Replies
  <2>1. PICK r \in asked : Says([kind |-> "response", id |-> r.id, from |-> r.from, notes |-> told[r.from]])
    BY <1>26 DEF Replies
  <2> DEFINE m == [kind |-> "response", id |-> r.id, from |-> r.from, notes |-> told[r.from]]
  <2>2. m \in Said /\ m.kind = "response"
    BY <1>0, <1>a DEF Said, Response, Reading, About
  <2>3. Says(m)
    BY <2>1
  <2> HIDE DEF m
  <2>4. Pipe' = Append(Pipe, m)
    BY <2>2, <2>3, <1>p, PipeMoves
  <2>5. told' = told /\ token' = token /\ pc' = pc
    BY <1>26 DEF Replies, Says, callVars, muxVars, readVars
  <2> QED
    BY <2>2, <2>4, <2>5, <1>0, <1>p, PipeGrows DEF Tokened
<1>27. CASE Notifies
  <2>1. PICK r \in asked, t \in {"progress", "event"} :
             /\ t = "progress" => token[r.from]
             /\ Says([kind |-> t, id |-> r.id, from |-> r.from])
             /\ told' = [told EXCEPT ![r.from] = @ + 1]
    BY <1>27 DEF Notifies
  <2> DEFINE m == [kind |-> t, id |-> r.id, from |-> r.from]
  <2>0. r.from \in Caller /\ pc[r.from] \in Posted
    BY <1>a DEF About
  <2>2. m \in Said /\ m.kind = t /\ m.from = r.from
    BY <1>a DEF Said, Notification, About
  <2>3. Says(m)
    BY <2>1
  <2> HIDE DEF m
  <2>4. Pipe' = Append(Pipe, m)
    BY <2>2, <2>3, <1>p, PipeMoves
  <2>5. token' = token /\ pc' = pc
    BY <1>27 DEF Notifies, Says, callVars, muxVars, readVars
  <2>6. \A d \in Caller : d # r.from => told'[d] = told[d]
    BY <2>1, <1>0 DEF Reading
  <2> QED
    BY <2>0, <2>1, <2>2, <2>4, <2>5, <2>6, <1>0, <1>p, PipeGrows DEF Tokened
<1>28. CASE Requests
  <2> DEFINE m == [kind |-> "request"]
  <2>2. m \in Said /\ m.kind = "request"
    BY DEF Said, ServerRequest
  <2>3. Says(m)
    BY <1>28 DEF Requests
  <2> HIDE DEF m
  <2>4. Pipe' = Append(Pipe, m)
    BY <2>2, <2>3, <1>p, PipeMoves
  <2>5. told' = told /\ token' = token /\ pc' = pc
    BY <1>28 DEF Requests, Says, callVars, muxVars, readVars
  <2> QED
    BY <2>2, <2>4, <2>5, <1>0, <1>p, PipeGrows DEF Tokened
<1>29. CASE Exit
  <2>1. Quiet
    BY <1>29, <1>0 DEF Quiet, Pipe, Posted, Places, Exit, callVars, muxVars, readVars, connVars
  <2> QED
    BY <2>1, <1>s
<1>30. CASE UNCHANGED vars
  <2>1. Quiet
    BY <1>30, <1>0 DEF Quiet, Pipe, Posted, Places, vars, callVars, muxVars, readVars, connVars, procVars
  <2> QED
    BY <2>1, <1>s
<1> QED
  BY <1>1, <1>2, <1>3, <1>4, <1>5, <1>6, <1>7, <1>8, <1>9, <1>10,
     <1>11, <1>12, <1>13, <1>14, <1>15, <1>16, <1>17, <1>18, <1>19, <1>20,
     <1>21, <1>22, <1>23, <1>24, <1>25, <1>26, <1>27, <1>28, <1>29, <1>30 DEF Next, Call, readLoop, Process

\* What is ahead of an answer and what the call has been given stay together all
\* that was sent before it.
LEMMA OrderedPreserved ==
    ASSUME MuxInv, NotesInv, [Next]_vars
    PROVE  Ordered'
<1>0. Places /\ Ordered /\ Reading /\ Tokened
  BY DEF MuxInv, NotesInv
<1>p. /\ Pipe \in Seq(Said) /\ lines \in Seq(Said) /\ stdout \in Seq(Said)
      /\ Len(Pipe) \in Nat
      /\ \A k \in 1..Len(Pipe) : Pipe[k].kind # "request" =>
             Pipe[k].from \in Caller /\ About(Pipe[k]) /\ pc[Pipe[k].from] \in Posted
  BY PipeIsAbout DEF About
<1>g. \A d \in Caller : heard[d] \in Nat /\ Given(d) \in Nat /\ told[d] \in Nat
  BY GivenNat
<1>n. \A d \in Caller, k \in 0..Len(Pipe) : Notes(d, Pipe, k) \in Nat
  BY <1>p, NotesNat
<1>a. asked \subseteq {r \in [id : Ids, from : Caller] : About(r)}
  BY DEF MuxInv, Mail
<1> DEFINE Quiet == /\ Pipe' = Pipe /\ told' = told
                    /\ proc' # "reaped" => proc # "reaped"
                    /\ \A d \in Caller : Given(d)' = Given(d)
                    /\ \A d \in Caller : pc'[d] = "wait" => pc[d] = "wait"
<1>s. Quiet => Ordered'
  BY <1>0 DEF Ordered, Ahead
<1> HIDE DEF Quiet
<1>1. ASSUME NEW c \in Caller, Start(c) PROVE Ordered'
  <2>1. Quiet
    BY <1>1, <1>0 DEF Quiet, Pipe, Given, Handing, Places, Start, Goes, readVars, connVars, procVars
  <2> QED
    BY <2>1, <1>s
<1>2. ASSUME NEW c \in Caller, Register(c) PROVE Ordered'
  <2>1. Quiet
    BY <1>2, <1>0 DEF Quiet, Pipe, Given, Handing, Places, Register, Goes, readVars, connVars, procVars
  <2> QED
    BY <2>1, <1>s
<1>3. ASSUME NEW c \in Caller, RefuseDead(c) PROVE Ordered'
  <2>1. Quiet
    BY <1>3, <1>0 DEF Quiet, Pipe, Given, Handing, Places, RefuseDead, Goes, Returns, muxVars, readVars, connVars, procVars
  <2> QED
    BY <2>1, <1>s
<1>4. ASSUME NEW c \in Caller, WriteRequest(c) PROVE Ordered'
  <2>1. Pipe' = Pipe /\ told' = told /\ proc' = proc /\ \A d \in Caller : Given(d)' = Given(d)
    BY <1>4 DEF Pipe, Given, Handing, WriteRequest, Goes, Send, muxVars, readVars, procVars
  <2>2. \A d \in Caller : d # c /\ pc'[d] = "wait" => pc[d] = "wait"
    BY <1>4, <1>0 DEF Places, WriteRequest, Goes, Send, muxVars, readVars, procVars
  <2>3. pc[c] = "write" /\ told[c] = 0
    BY <1>4, <1>0 DEF WriteRequest, Tokened, Posted
  <2>4. Ahead(c)
    <3>1. \A k \in 1..Len(Pipe) : ~(Pipe[k].kind = "response" /\ Pipe[k].from = c)
      BY <2>3, <1>p DEF Posted
    <3>2. Notes(c, Pipe, Len(Pipe)) \in Nat /\ Given(c) \in Nat
      BY <1>p, <1>g, <1>n
    <3> QED
      BY <2>3, <3>1, <3>2 DEF Ahead
  <2>5. \A d \in Caller : Ahead(d)' <=> Ahead(d)
    BY <2>1 DEF Ahead
  <2> QED
    BY <2>2, <2>4, <2>5, <1>0 DEF Ordered
<1>5. ASSUME NEW c \in Caller, WriteErr(c) PROVE Ordered'
  <2>1. Quiet
    BY <1>5, <1>0 DEF Quiet, Pipe, Given, Handing, Places, WriteErr, Goes, Returns, unregister, readVars, connVars, procVars
  <2> QED
    BY <2>1, <1>s
<1>6. ASSUME NEW c \in Caller, Answered(c) PROVE Ordered'
  <2>1. Quiet
    BY <1>6, <1>0 DEF Quiet, Pipe, Given, Handing, Places, Answered, Goes, Returns, unregister, readVars, connVars, procVars
  <2> QED
    BY <2>1, <1>s
<1>7. ASSUME NEW c \in Caller, CtxDone(c) PROVE Ordered'
  <2>1. Quiet
    BY <1>7, <1>0 DEF Quiet, Pipe, Given, Handing, Places, CtxDone, Goes, unregister, readVars, connVars, procVars
  <2> QED
    BY <2>1, <1>s
<1>8. ASSUME NEW c \in Caller, Died(c) PROVE Ordered'
  <2>1. Quiet
    BY <1>8, <1>0 DEF Quiet, Pipe, Given, Handing, Places, Died, Goes, unregister, readVars, connVars, procVars
  <2> QED
    BY <2>1, <1>s
<1>9. ASSUME NEW c \in Caller, LandedAnyway(c) PROVE Ordered'
  <2>1. Quiet
    BY <1>9, <1>0 DEF Quiet, Pipe, Given, Handing, Places, LandedAnyway, Goes, Returns, muxVars, readVars, connVars, procVars
  <2> QED
    BY <2>1, <1>s
<1>10. ASSUME NEW c \in Caller, ReturnDead(c) PROVE Ordered'
  <2>1. Quiet
    BY <1>10, <1>0 DEF Quiet, Pipe, Given, Handing, Places, ReturnDead, Goes, Returns, muxVars, readVars, connVars, procVars
  <2> QED
    BY <2>1, <1>s
<1>11. ASSUME NEW c \in Caller, GivesUp(c) PROVE Ordered'
  <2>1. Quiet
    BY <1>11, <1>0 DEF Quiet, Pipe, Given, Handing, Places, GivesUp, Goes, muxVars, readVars, connVars, procVars
  <2> QED
    BY <2>1, <1>s
<1>12. ASSUME NEW c \in Caller, WriteCancel(c) PROVE Ordered'
  <2>1. Quiet
    BY <1>12, <1>0 DEF Quiet, Pipe, Given, Handing, Places, WriteCancel, Goes, Returns, Send, muxVars, readVars, connVars, procVars
  <2> QED
    BY <2>1, <1>s
<1>13. ASSUME NEW c \in Caller, Cancel(c) PROVE Ordered'
  <2>1. Quiet
    BY <1>13, <1>0 DEF Quiet, Pipe, Given, Handing, Places, Cancel, muxVars, readVars, connVars, procVars
  <2> QED
    BY <2>1, <1>s
<1>14. CASE Read
  <2> DEFINE m == Head(Pipe)
  <2>1. Pipe # <<>> /\ m = Head(lines) /\ Pipe' = Tail(Pipe)
    BY <1>14, <1>p, PipeMoves
  <2>2. /\ Len(Pipe') = Len(Pipe) - 1 /\ Pipe' \in Seq(Said)
        /\ \A k \in 1..Len(Pipe') : Pipe'[k] = Pipe[k + 1]
        /\ m = Pipe[1] /\ 1 \in 1..Len(Pipe)
    BY <2>1, <1>p
  <2>3. told' = told /\ pc' = pc /\ heard' = heard /\ proc' = proc /\ reader = "read"
    BY <1>14 DEF Read, callVars, muxVars, procVars
  <2>4. \A d \in Caller : Given(d) = heard[d]
    BY <2>3, <1>g DEF Given, Handing
  <2>5. \A d \in Caller : Given(d)' \in Nat /\ Given(d)' >= heard[d]
    BY <2>3, <1>g DEF Given
  <2>6. ASSUME NEW d \in Caller, pc[d] = "wait", IsNote(d, m) PROVE Given(d)' = heard[d] + 1
    <3>1. m.kind # "request" /\ m.kind # "response" /\ m.id = id[d]
      BY <2>2, <2>6, <1>p DEF IsNote, About
    <3>2. calls[id[d]] = d /\ (token[d] => tokens[id[d]] = d)
      BY <2>6 DEF NotesInv, Entered
    <3>3. m.kind = "progress" => token[d]
      BY <2>2, <2>6, <1>0 DEF IsNote, Tokened
    <3>4. Lookup(m) = d /\ d # None
      BY <3>1, <3>2, <3>3, CallerAssumption DEF Lookup
    <3>5. reader' = "deliver" /\ held' = [msg |-> m, to |-> d]
      BY <1>14, <2>1, <3>1, <3>4 DEF Read
    <3>6. Handing(d)'
      BY <3>1, <3>5 DEF Handing
    <3> QED
      BY <2>3, <3>6 DEF Given
  <2>7. \A d \in Caller, k \in 0..Len(Pipe') :
            /\ Notes(d, Pipe', k) \in Nat
            /\ Notes(d, Pipe, k + 1) = Notes(d, Pipe', k) + (IF IsNote(d, m) THEN 1 ELSE 0)
    BY <2>1, <2>2, <1>p, NotesTail, NotesNat
  <2>8. \A d \in Caller, k \in 0..Len(Pipe') :
            pc[d] = "wait" => Given(d) + Notes(d, Pipe, k + 1) <= Given(d)' + Notes(d, Pipe', k)
    BY <2>4, <2>5, <2>6, <2>7, <1>g
  <2> HIDE DEF m
  <2>9. ASSUME NEW d \in Caller, pc[d] = "wait" PROVE Ahead(d)'
    <3>1. Ahead(d)
      BY <2>9, <1>0 DEF Ordered
    <3>2. ASSUME NEW k \in 1..Len(Pipe'), Pipe'[k].kind = "response", Pipe'[k].from = d
          PROVE  Pipe'[k].notes <= Given(d)' + Notes(d, Pipe', k)
      <4>1. k + 1 \in 1..Len(Pipe) /\ Pipe'[k] = Pipe[k + 1] /\ k \in 0..Len(Pipe')
        BY <2>2, <1>p
      <4>2. Pipe[k + 1].notes <= Given(d) + Notes(d, Pipe, k + 1)
        BY <3>1, <3>2, <4>1 DEF Ahead
      <4>3. Pipe[k + 1].notes \in Nat
        BY <3>2, <4>1, PipeIsAbout DEF Response, Notification
      <4> QED
        BY <2>8, <2>9, <4>1, <4>2, <4>3, <1>g, <1>n, <2>5, <2>7
    <3>3. proc' # "reaped" => told'[d] <= Given(d)' + Notes(d, Pipe', Len(Pipe'))
      <4>1. Len(Pipe') \in 0..Len(Pipe') /\ Len(Pipe') + 1 = Len(Pipe)
        BY <2>2, <1>p
      <4>2. proc # "reaped" => told[d] <= Given(d) + Notes(d, Pipe, Len(Pipe))
        BY <3>1 DEF Ahead
      <4>3. Given(d) + Notes(d, Pipe, Len(Pipe)) <= Given(d)' + Notes(d, Pipe', Len(Pipe'))
        BY <2>8, <2>9, <4>1
      <4>4. Notes(d, Pipe', Len(Pipe')) \in Nat /\ Notes(d, Pipe, Len(Pipe)) \in Nat
        BY <2>7, <4>1, <1>n, <1>p
      <4> QED
        BY <2>3, <4>2, <4>3, <4>4, <1>g, <2>5
    <3> QED
      BY <3>2, <3>3 DEF Ahead
  <2> QED
    BY <2>3, <2>9 DEF Ordered
<1>15. CASE routeResponse
  <2>1. Quiet
    BY <1>15, <1>0 DEF Quiet, Pipe, Given, Handing, Places, routeResponse, callVars, muxVars, connVars, procVars
  <2> QED
    BY <2>1, <1>s
<1>16. CASE routeNotification
  <2>1. reader = "deliver" /\ held \in Routed /\ held.to \in Caller /\ reader' = "read"
    BY <1>16, <1>0 DEF routeNotification, Reading, Routed
  <2>2. heard' = [heard EXCEPT ![held.to] = @ + 1]
    BY <1>16 DEF routeNotification
  <2>3. \A d \in Caller : Given(d)' = Given(d)
    BY <1>16, <2>1, <2>2, <1>g, <1>0 DEF Given, Handing, Reading, routeNotification
  <2>4. Quiet
    BY <1>16, <2>3 DEF Quiet, Pipe, routeNotification, callVars, muxVars, connVars, procVars
  <2> QED
    BY <2>4, <1>s
<1>17. CASE RejectRequest
  <2>1. Quiet
    BY <1>17, <1>0 DEF Quiet, Pipe, Given, Handing, Places, RejectRequest, Send, callVars, muxVars, connVars, procVars
  <2> QED
    BY <2>1, <1>s
<1>18. CASE ReadErr
  <2>1. Quiet
    BY <1>18, <1>0 DEF Quiet, Pipe, Given, Handing, Places, ReadErr, callVars, connVars, procVars
  <2> QED
    BY <2>1, <1>s
<1>19. CASE stdoutLoop
  <2>1. Pipe' = Pipe
    BY <1>19, <1>p, PipeMoves
  <2>2. Quiet
    BY <1>19, <2>1 DEF Quiet, Given, Handing, stdoutLoop, callVars, muxVars, readVars, procVars
  <2> QED
    BY <2>2, <1>s
<1>20. CASE ScanEOF
  <2>1. Quiet
    BY <1>20, <1>0 DEF Quiet, Pipe, Given, Handing, Places, ScanEOF, callVars, muxVars, readVars, procVars
  <2> QED
    BY <2>1, <1>s
<1>21. CASE ScanErr
  <2>1. Quiet
    BY <1>21, <1>0 DEF Quiet, Pipe, Given, Handing, Places, ScanErr, callVars, muxVars, readVars, procVars
  <2> QED
    BY <2>1, <1>s
<1>22. CASE waitLoop
  <2>1. \A k \in 1..Len(Pipe') : k \in 1..Len(Pipe) /\ Pipe'[k] = Pipe[k]
    BY <1>22, <1>p, PipeMoves
  <2>2. proc' = "reaped" /\ pc' = pc /\ \A d \in Caller : Given(d)' = Given(d)
    BY <1>22 DEF Given, Handing, waitLoop, callVars, muxVars, readVars
  <2>0. Pipe' \in Seq(Said)
    <3>1. lines' = lines /\ \E n \in 0..Len(stdout) : stdout' = SubSeq(stdout, 1, n)
      BY <1>22 DEF waitLoop
    <3>2. stdout' \in Seq(Said)
      BY <3>1, <1>p, PipeFacts
    <3> QED
      BY <3>1, <3>2, <1>p DEF Pipe
  <2>3. ASSUME NEW d \in Caller, NEW k \in 1..Len(Pipe')
        PROVE  Notes(d, Pipe', k) = Notes(d, Pipe, k)
    <3>1. k \in Nat /\ \A j \in 1..k : Pipe'[j] = Pipe[j]
      BY <2>0, <2>1, <1>p
    <3> QED
      BY <3>1, NotesSame
  <2> QED
    BY <2>1, <2>2, <2>3, <1>0 DEF Ordered, Ahead
<1>23. CASE Close
  <2>1. Quiet
    BY <1>23, <1>0 DEF Quiet, Pipe, Given, Handing, Places, Close, callVars, muxVars, readVars, procVars
  <2> QED
    BY <2>1, <1>s
<1>24. CASE signalGroup
  <2>1. Quiet
    BY <1>24, <1>0 DEF Quiet, Pipe, Given, Handing, Places, signalGroup, callVars, muxVars, readVars, connVars
  <2> QED
    BY <2>1, <1>s
<1>25. CASE ProcReads
  <2>1. Quiet
    BY <1>25, <1>0 DEF Quiet, Pipe, Given, Handing, Places, ProcReads, callVars, muxVars, readVars
  <2> QED
    BY <2>1, <1>s
<1>26. CASE Replies
  <2>1. PICK r \in asked : Says([kind |-> "response", id |-> r.id, from |-> r.from, notes |-> told[r.from]])
    BY <1>26 DEF Replies
  <2> DEFINE m == [kind |-> "response", id |-> r.id, from |-> r.from, notes |-> told[r.from]]
  <2>2. m \in Said /\ m.kind = "response" /\ m.from = r.from /\ m.notes = told[r.from]
    BY <1>0, <1>a DEF Said, Response, Reading, About
  <2>3. Says(m)
    BY <2>1
  <2> HIDE DEF m
  <2>4. Pipe' = Append(Pipe, m)
    BY <2>2, <2>3, <1>p, PipeMoves
  <2>8. told' = told
    BY <1>26 DEF Replies
  <2>5. proc = "up" /\ proc' = proc /\ pc' = pc /\ \A d \in Caller : Given(d)' = Given(d)
    BY <1>26 DEF Given, Handing, Replies, Says, callVars, muxVars, readVars
  <2>6. /\ Len(Pipe') = Len(Pipe) + 1
        /\ Pipe'[Len(Pipe) + 1] = m
        /\ \A k \in 1..Len(Pipe) : Pipe'[k] = Pipe[k]
        /\ \A d \in Caller, k \in 0..Len(Pipe) : Notes(d, Pipe', k) = Notes(d, Pipe, k)
        /\ \A d \in Caller :
              Notes(d, Pipe', Len(Pipe) + 1) =
                  Notes(d, Pipe, Len(Pipe)) + (IF IsNote(d, m) THEN 1 ELSE 0)
    BY <2>2, <2>4, <1>p, PipeGrows
  <2>7. ASSUME NEW d \in Caller, pc[d] = "wait" PROVE Ahead(d)'
    <3>1. Ahead(d) /\ told[d] <= Given(d) + Notes(d, Pipe, Len(Pipe))
      BY <2>5, <2>7, <1>0 DEF Ordered, Ahead
    <3>2. ASSUME NEW k \in 1..Len(Pipe), Pipe'[k].kind = "response", Pipe'[k].from = d
          PROVE  Pipe'[k].notes <= Given(d)' + Notes(d, Pipe', k)
      BY <2>5, <2>6, <3>1, <3>2, <1>p DEF Ahead
    <3>3. m.kind = "response" /\ m.from = d => m.notes <= Given(d)' + Notes(d, Pipe', Len(Pipe) + 1)
      BY <2>2, <2>5, <2>6, <3>1, <1>g, <1>n, <1>p DEF IsNote
    <3>4. told'[d] <= Given(d)' + Notes(d, Pipe', Len(Pipe) + 1)
      BY <2>2, <2>5, <2>6, <2>8, <3>1, <1>g, <1>n, <1>p DEF IsNote
    <3>5. \A k \in 1..Len(Pipe') : k \in 1..Len(Pipe) \/ k = Len(Pipe) + 1
      BY <2>6, <1>p
    <3> QED
      BY <2>6, <3>2, <3>3, <3>4, <3>5 DEF Ahead
  <2> QED
    BY <2>5, <2>7 DEF Ordered
<1>27. CASE Notifies
  <2>1. PICK r \in asked, t \in {"progress", "event"} :
             /\ t = "progress" => token[r.from]
             /\ Says([kind |-> t, id |-> r.id, from |-> r.from])
             /\ told' = [told EXCEPT ![r.from] = @ + 1]
    BY <1>27 DEF Notifies
  <2> DEFINE m == [kind |-> t, id |-> r.id, from |-> r.from]
  <2>0. r.from \in Caller /\ pc[r.from] \in Posted
    BY <1>a DEF About
  <2>2. m \in Said /\ m.kind = t /\ m.from = r.from
    BY <1>a DEF Said, Notification, About
  <2>3. Says(m)
    BY <2>1
  <2> HIDE DEF m
  <2>4. Pipe' = Append(Pipe, m)
    BY <2>2, <2>3, <1>p, PipeMoves
  <2>5. proc = "up" /\ proc' = proc /\ pc' = pc /\ \A d \in Caller : Given(d)' = Given(d)
    BY <1>27 DEF Given, Handing, Notifies, Says, callVars, muxVars, readVars
  <2>6. /\ Len(Pipe') = Len(Pipe) + 1
        /\ Pipe'[Len(Pipe) + 1] = m
        /\ \A k \in 1..Len(Pipe) : Pipe'[k] = Pipe[k]
        /\ \A d \in Caller, k \in 0..Len(Pipe) : Notes(d, Pipe', k) = Notes(d, Pipe, k)
        /\ \A d \in Caller :
              Notes(d, Pipe', Len(Pipe) + 1) =
                  Notes(d, Pipe, Len(Pipe)) + (IF IsNote(d, m) THEN 1 ELSE 0)
    BY <2>2, <2>4, <1>p, PipeGrows
  <2>7. ASSUME NEW d \in Caller, pc[d] = "wait" PROVE Ahead(d)'
    <3>1. Ahead(d) /\ told[d] <= Given(d) + Notes(d, Pipe, Len(Pipe))
      BY <2>5, <2>7, <1>0 DEF Ordered, Ahead
    <3>2. ASSUME NEW k \in 1..Len(Pipe), Pipe'[k].kind = "response", Pipe'[k].from = d
          PROVE  Pipe'[k].notes <= Given(d)' + Notes(d, Pipe', k)
      BY <2>5, <2>6, <3>1, <3>2, <1>p DEF Ahead
    <3>3. m.kind = "response" /\ m.from = d => m.notes <= Given(d)' + Notes(d, Pipe', Len(Pipe) + 1)
      BY <2>2
    <3>4. told'[d] <= Given(d)' + Notes(d, Pipe', Len(Pipe) + 1)
      <4>1. IsNote(d, m) <=> d = r.from
        BY <2>2 DEF IsNote
      <4>2. told'[d] = told[d] + (IF d = r.from THEN 1 ELSE 0)
        BY <2>0, <2>1, <1>0 DEF Reading
      <4>3. Notes(d, Pipe', Len(Pipe) + 1) = Notes(d, Pipe, Len(Pipe)) + (IF d = r.from THEN 1 ELSE 0)
        BY <2>6, <4>1
      <4>4. Notes(d, Pipe, Len(Pipe)) \in Nat /\ Given(d)' = Given(d)
        BY <2>5, <1>g, <1>n, <1>p
      <4> QED
        BY <3>1, <4>2, <4>3, <4>4, <1>g
    <3>5. \A k \in 1..Len(Pipe') : k \in 1..Len(Pipe) \/ k = Len(Pipe) + 1
      BY <2>6, <1>p
    <3> QED
      BY <2>6, <3>2, <3>3, <3>4, <3>5 DEF Ahead
  <2> QED
    BY <2>5, <2>7 DEF Ordered
<1>28. CASE Requests
  <2> DEFINE m == [kind |-> "request"]
  <2>2. m \in Said /\ m.kind = "request"
    BY DEF Said, ServerRequest
  <2>3. Says(m)
    BY <1>28 DEF Requests
  <2> HIDE DEF m
  <2>4. Pipe' = Append(Pipe, m)
    BY <2>2, <2>3, <1>p, PipeMoves
  <2>8. told' = told
    BY <1>28 DEF Requests
  <2>5. proc = "up" /\ proc' = proc /\ pc' = pc /\ \A d \in Caller : Given(d)' = Given(d)
    BY <1>28 DEF Given, Handing, Requests, Says, callVars, muxVars, readVars
  <2>6. /\ Len(Pipe') = Len(Pipe) + 1
        /\ Pipe'[Len(Pipe) + 1] = m
        /\ \A k \in 1..Len(Pipe) : Pipe'[k] = Pipe[k]
        /\ \A d \in Caller, k \in 0..Len(Pipe) : Notes(d, Pipe', k) = Notes(d, Pipe, k)
        /\ \A d \in Caller :
              Notes(d, Pipe', Len(Pipe) + 1) =
                  Notes(d, Pipe, Len(Pipe)) + (IF IsNote(d, m) THEN 1 ELSE 0)
    BY <2>2, <2>4, <1>p, PipeGrows
  <2>7. ASSUME NEW d \in Caller, pc[d] = "wait" PROVE Ahead(d)'
    <3>1. Ahead(d) /\ told[d] <= Given(d) + Notes(d, Pipe, Len(Pipe))
      BY <2>5, <2>7, <1>0 DEF Ordered, Ahead
    <3>2. ASSUME NEW k \in 1..Len(Pipe), Pipe'[k].kind = "response", Pipe'[k].from = d
          PROVE  Pipe'[k].notes <= Given(d)' + Notes(d, Pipe', k)
      BY <2>5, <2>6, <3>1, <3>2, <1>p DEF Ahead
    <3>3. m.kind = "response" /\ m.from = d => m.notes <= Given(d)' + Notes(d, Pipe', Len(Pipe) + 1)
      BY <2>2
    <3>4. told'[d] <= Given(d)' + Notes(d, Pipe', Len(Pipe) + 1)
      BY <2>2, <2>5, <2>6, <2>8, <3>1, <1>g, <1>n, <1>p DEF IsNote
    <3>5. \A k \in 1..Len(Pipe') : k \in 1..Len(Pipe) \/ k = Len(Pipe) + 1
      BY <2>6, <1>p
    <3> QED
      BY <2>6, <3>2, <3>3, <3>4, <3>5 DEF Ahead
  <2> QED
    BY <2>5, <2>7 DEF Ordered
<1>29. CASE Exit
  <2>1. Quiet
    BY <1>29, <1>0 DEF Quiet, Pipe, Given, Handing, Places, Exit, callVars, muxVars, readVars, connVars
  <2> QED
    BY <2>1, <1>s
<1>30. CASE UNCHANGED vars
  <2>1. Quiet
    BY <1>30, <1>0 DEF Quiet, Pipe, Given, Handing, Places, vars, callVars, muxVars, readVars, connVars, procVars
  <2> QED
    BY <2>1, <1>s
<1> QED
  BY <1>1, <1>2, <1>3, <1>4, <1>5, <1>6, <1>7, <1>8, <1>9, <1>10,
     <1>11, <1>12, <1>13, <1>14, <1>15, <1>16, <1>17, <1>18, <1>19, <1>20,
     <1>21, <1>22, <1>23, <1>24, <1>25, <1>26, <1>27, <1>28, <1>29, <1>30 DEF Next, Call, readLoop, Process

\* readLoop finds the call an answer is about, and by then has given it what was
\* ahead of the answer.
LEMMA HandedPreserved ==
    ASSUME MuxInv, NotesInv, [Next]_vars
    PROVE  Handed'
<1>0. Places /\ Reading /\ Names /\ Tables /\ Handed
  BY DEF MuxInv, NotesInv
<1>g. \A d \in Caller : heard[d] \in Nat /\ (resp[d] # None => resp[d].notes \in Nat)
  BY <1>0, GivenNat DEF Reading, Response
<1> USE <1>0 DEF Handed
<1>1. ASSUME NEW c \in Caller, Start(c) PROVE Handed'
  BY <1>1 DEF Places, Start, Goes, readVars, connVars, procVars
<1>2. ASSUME NEW c \in Caller, Register(c) PROVE Handed'
  BY <1>2 DEF Places, Register, Goes, readVars, connVars, procVars
<1>3. ASSUME NEW c \in Caller, RefuseDead(c) PROVE Handed'
  BY <1>3 DEF Places, RefuseDead, Goes, Returns, muxVars, readVars, connVars, procVars
<1>4. ASSUME NEW c \in Caller, WriteRequest(c) PROVE Handed'
  BY <1>4 DEF Places, WriteRequest, Goes, Send, muxVars, readVars, procVars
<1>5. ASSUME NEW c \in Caller, WriteErr(c) PROVE Handed'
  BY <1>5 DEF Places, WriteErr, Goes, Returns, unregister, readVars, connVars, procVars
<1>6. ASSUME NEW c \in Caller, Answered(c) PROVE Handed'
  BY <1>6 DEF Places, Answered, Goes, Returns, unregister, readVars, connVars, procVars
<1>7. ASSUME NEW c \in Caller, CtxDone(c) PROVE Handed'
  BY <1>7 DEF Places, CtxDone, Goes, unregister, readVars, connVars, procVars
<1>8. ASSUME NEW c \in Caller, Died(c) PROVE Handed'
  BY <1>8 DEF Places, Died, Goes, unregister, readVars, connVars, procVars
<1>9. ASSUME NEW c \in Caller, LandedAnyway(c) PROVE Handed'
  BY <1>9 DEF Places, LandedAnyway, Goes, Returns, muxVars, readVars, connVars, procVars
<1>10. ASSUME NEW c \in Caller, ReturnDead(c) PROVE Handed'
  BY <1>10 DEF Places, ReturnDead, Goes, Returns, muxVars, readVars, connVars, procVars
<1>11. ASSUME NEW c \in Caller, GivesUp(c) PROVE Handed'
  BY <1>11 DEF Places, GivesUp, Goes, muxVars, readVars, connVars, procVars
<1>12. ASSUME NEW c \in Caller, WriteCancel(c) PROVE Handed'
  BY <1>12 DEF Places, WriteCancel, Goes, Returns, Send, muxVars, readVars, connVars, procVars
<1>13. ASSUME NEW c \in Caller, Cancel(c) PROVE Handed'
  BY <1>13 DEF Places, Cancel, muxVars, readVars, connVars, procVars
<1>14. CASE Read
  <2>1. reader = "read" /\ outcome' = outcome /\ resp' = resp /\ heard' = heard
    BY <1>14 DEF Read, callVars, muxVars, procVars
  <2> DEFINE m == Head(Pipe)
  <2>2. lines \in Seq(Said) /\ Pipe \in Seq(Said) /\ Pipe # <<>> /\ m = Head(lines)
    BY <1>14, PipeIsAbout, PipeMoves
  <2>3. m = Pipe[1] /\ 1 \in 1..Len(Pipe)
    BY <2>2
  <2> HIDE DEF m
  <2>4. ASSUME reader' = "deliver", held'.msg.kind = "response"
        PROVE  held'.msg.notes <= heard[held'.to]
    <3>1. m.kind # "request" /\ Lookup(m) # None /\ held' = [msg |-> m, to |-> Lookup(m)]
      BY <1>14, <2>1, <2>2, <2>4 DEF Read
    <3>2. m.kind = "response" /\ Lookup(m) = calls[m.id]
      BY <2>4, <3>1 DEF Lookup
    <3>3. m \in Response /\ m.from \in Caller /\ About(m)
      BY <2>3, <3>2, PipeIsAbout DEF Notification
    <3>4. calls[m.id] \in Caller /\ id[calls[m.id]] = m.id /\ pc[calls[m.id]] \in {"write", "wait"}
      BY <3>1, <3>2, <3>3 DEF Response, Places, Tables
    <3>5. calls[m.id] = m.from /\ pc[m.from] = "wait"
      BY <3>3, <3>4 DEF About, Posted, Names, Started
    <3>6. m.notes <= Given(m.from) + Notes(m.from, Pipe, 1)
      BY <2>3, <3>2, <3>3, <3>5 DEF NotesInv, Ordered, Ahead
    <3>7. Given(m.from) = heard[m.from]
      BY <2>1, <3>3, <1>g DEF Given, Handing
    <3>8. Notes(m.from, Pipe, 1) = 0
      <4>1. Notes(m.from, Pipe, 0 + 1) = Notes(m.from, Pipe, 0) + (IF IsNote(m.from, Pipe[0 + 1]) THEN 1 ELSE 0)
        BY NotesNext
      <4> QED
        BY <4>1, <2>3, <3>2, NotesNone DEF IsNote
    <3>9. m.notes <= heard[m.from]
      BY <3>3, <3>6, <3>7, <3>8, <1>g
    <3> QED
      BY <3>1, <3>2, <3>5, <3>9
  <2> QED
    BY <2>1, <2>4
<1>15. CASE routeResponse
  BY <1>15, <1>g DEF Reading, Routed, routeResponse, callVars, muxVars, connVars, procVars
<1>16. CASE routeNotification
  BY <1>16, <1>g DEF Reading, Routed, routeNotification, callVars, muxVars, connVars, procVars
<1>17. CASE RejectRequest
  BY <1>17 DEF Places, RejectRequest, Send, callVars, muxVars, connVars, procVars
<1>18. CASE ReadErr
  BY <1>18 DEF Places, ReadErr, callVars, connVars, procVars
<1>19. CASE stdoutLoop
  BY <1>19 DEF Places, stdoutLoop, callVars, muxVars, readVars, procVars
<1>20. CASE ScanEOF
  BY <1>20 DEF Places, ScanEOF, callVars, muxVars, readVars, procVars
<1>21. CASE ScanErr
  BY <1>21 DEF Places, ScanErr, callVars, muxVars, readVars, procVars
<1>22. CASE waitLoop
  BY <1>22 DEF Places, waitLoop, callVars, muxVars, readVars
<1>23. CASE Close
  BY <1>23 DEF Places, Close, callVars, muxVars, readVars, procVars
<1>24. CASE signalGroup
  BY <1>24 DEF Places, signalGroup, callVars, muxVars, readVars, connVars
<1>25. CASE ProcReads
  BY <1>25 DEF Places, ProcReads, callVars, muxVars, readVars
<1>26. CASE Replies
  BY <1>26 DEF Places, Replies, Says, callVars, muxVars, readVars
<1>27. CASE Notifies
  BY <1>27 DEF Places, Notifies, Says, callVars, muxVars, readVars
<1>28. CASE Requests
  BY <1>28 DEF Places, Requests, Says, callVars, muxVars, readVars
<1>29. CASE Exit
  BY <1>29 DEF Places, Exit, callVars, muxVars, readVars, connVars
<1>30. CASE UNCHANGED vars
  BY <1>30 DEF Places, vars, callVars, muxVars, readVars, connVars, procVars
<1> QED
  BY <1>1, <1>2, <1>3, <1>4, <1>5, <1>6, <1>7, <1>8, <1>9, <1>10,
     <1>11, <1>12, <1>13, <1>14, <1>15, <1>16, <1>17, <1>18, <1>19, <1>20,
     <1>21, <1>22, <1>23, <1>24, <1>25, <1>26, <1>27, <1>28, <1>29, <1>30 DEF Next, Call, readLoop, Process

\* Nothing has been said.
LEMMA NotesInit == Init => NotesInv
<1> SUFFICES ASSUME Init PROVE NotesInv
  OBVIOUS
<1>1. Pipe = <<>>
  BY DEF Init, Pipe
<1> QED
  BY <1>1 DEF Init, NotesInv, Entered, Tokened, Ordered, Handed

\* Mux.Call: an answer is returned only after every notification the server sent
\* before it, whatever the pipes hold and however many calls share them.
THEOREM NotesComeFirst == Spec => []NotesBeforeAnswer
<1>1. ASSUME MuxInv, NotesInv, [Next]_vars PROVE NotesInv'
  BY <1>1, EnteredPreserved, TokenedPreserved, OrderedPreserved, HandedPreserved DEF NotesInv
<1>2. MuxInv /\ NotesInv => NotesBeforeAnswer
  <2> SUFFICES ASSUME MuxInv, NotesInv, NEW c \in Caller, outcome[c] = "answer"
               PROVE  heard[c] >= resp[c].notes
    BY DEF NotesBeforeAnswer
  <2>1. resp[c] # None /\ resp[c].notes <= heard[c]
    BY DEF NotesInv, Handed
  <2>2. resp[c].notes \in Nat /\ heard[c] \in Nat
    BY <2>1 DEF MuxInv, Reading, Response
  <2> QED
    BY <2>1, <2>2
<1> QED
  BY Invariance, NotesInit, <1>1, <1>2, PTL DEF Spec
=============================================================================
