----------------------------- MODULE ShimProofs -----------------------------
(***************************************************************************)
(* The safety of the client edge for every set of requests and ids, reused *)
(* or not.                                                                 *)
(*                                                                         *)
(* NewestIsRouted is not inductive alone: Register must know that the      *)
(* request it registers is the newest under its id (no line is read in     *)
(* between), and Leave that a registration belongs to a request of that    *)
(* id.  AnsweredOnce needs that a request on its way has no answer yet.    *)
(* That wg is a number, and that Run returns only when nothing can write   *)
(* any more, need that wg counts the goroutines.                           *)
(***************************************************************************)
EXTENDS Shim, FiniteSetTheorems, TLAPS

\* The goroutines that have not passed their deferred wg.Done.
Running == {r \in Req : req[r].pump \in {"copying", "leaving", "discovering"}}

Counted == wg = Cardinality(Running)

\* TypeOK in two parts: Run's flags, and the rest without wg, which Counted types.
Flags == legacy \in BOOLEAN /\ ctxDone \in BOOLEAN

Pumps == {"none", "sent", "copying", "leaving", "discovering", "gone"}

Requests ==
    [id : Id \cup {None}, pump : Pumps, answers : Nat, asked : BOOLEAN, refused : BOOLEAN]

Values ==
    /\ loop \in {"reading", "registering", "waiting", "returned"}
    /\ handling \in Req \cup {None}
    /\ streams \in [Id -> Req \cup {None}]
    /\ req \in [Req -> Requests]
    /\ newest \in [Id -> Req \cup {None}]

\* Only the request between Do and its registration is unregistered, and it is
\* the newest under its id.
Handled ==
    /\ loop = "registering" <=> handling # None
    /\ \A r \in Req : req[r].pump = "sent" => r = handling
    /\ handling # None => /\ req[handling].pump = "sent"
                          /\ newest[req[handling].id] = handling

\* What is registered under an id is a request of that id with a goroutine; so
\* is what was last forwarded under it, unless it has ended.
Registered ==
    /\ \A r \in Req : req[r].pump \in {"sent", "copying", "leaving"} => req[r].id \in Id
    /\ \A i \in Id : streams[i] # None => /\ req[streams[i]].id = i
                                          /\ req[streams[i]].pump \in {"copying", "leaving"}
    /\ \A i \in Id : newest[i] # None => /\ req[newest[i]].id = i
                                         /\ req[newest[i]].pump # "none"

\* No answer before the goroutine leaves, and a goroutine that leaves without
\* one has a reason.
Answers ==
    \A r \in Req :
        /\ req[r].pump \in {"none", "sent", "copying", "discovering"} => req[r].answers = 0
        /\ req[r].pump = "leaving" /\ req[r].answers = 0 =>
               req[r].asked \/ req[r].refused \/ ctxDone

\* Once Run has returned nothing is in flight.
NothingLeft ==
    loop = "returned" => \A r \in Req : req[r].pump \in {"none", "gone"}

ShimInv ==
    /\ Values /\ Flags /\ Counted
    /\ Handled /\ Registered /\ Answers
    /\ NewestIsRouted /\ AnsweredOnce /\ NothingLeft

-----------------------------------------------------------------------------

\* Shim.Init: nothing is in flight.
LEMMA InitInv == Init => ShimInv
<1> SUFFICES ASSUME Init PROVE ShimInv
  OBVIOUS
<1> USE ShimAssumption DEF Init, Unread
<1>1. Values /\ Flags
  BY DEF Values, Flags, Requests, Pumps
<1>2. Counted
  <2>1. Running = {}
    BY DEF Running
  <2> QED
    BY <2>1, FS_EmptySet DEF Counted
<1>3. Handled /\ Registered /\ Answers
  BY DEF Handled, Registered, Answers
<1>4. NewestIsRouted /\ AnsweredOnce /\ NothingLeft
  BY DEF NewestIsRouted, AnsweredOnce, NothingLeft
<1> QED
  BY <1>1, <1>2, <1>3, <1>4 DEF ShimInv

\* What reading a line does to the requests: one of them is new, the others are
\* as they were.
LEMMA BecomesOne ==
    ASSUME ShimInv, NEW r \in Req, NEW i \in Id \cup {None}, NEW p \in Pumps, NEW n \in Nat,
           Becomes(r, i, p, n)
    PROVE  /\ req' \in [Req -> Requests]
           /\ \A q \in Req \ {r} : req'[q] = req[q]
           /\ req'[r].id = i /\ req'[r].pump = p /\ req'[r].answers = n
           /\ req'[r].asked = FALSE /\ req'[r].refused = FALSE
<1> DEFINE new == [Unread EXCEPT !.id = i, !.pump = p, !.answers = n]
<1>1. new \in Requests
  BY FALSE \in BOOLEAN DEF Unread, Requests, Pumps
<1>2. new.id = i /\ new.pump = p /\ new.answers = n /\ new.asked = FALSE /\ new.refused = FALSE
  BY DEF Unread
<1>3. req' = [req EXCEPT ![r] = new]
  BY DEF Becomes
<1> HIDE DEF new
<1>4. req \in [Req -> Requests]
  BY DEF ShimInv, Values
<1> QED
  BY <1>1, <1>2, <1>3, <1>4

\* A request told of a cancellation, or refused by NATS, is a request still.
LEMMA FlagTypes ==
    ASSUME NEW f \in [Req -> Requests], NEW r \in Req
    PROVE  /\ [f EXCEPT ![r].asked = TRUE] \in [Req -> Requests]
           /\ [f EXCEPT ![r].refused = TRUE] \in [Req -> Requests]
<1>1. ASSUME NEW b \in BOOLEAN
      PROVE  /\ [f EXCEPT ![r].asked = b] \in [Req -> Requests]
             /\ [f EXCEPT ![r].refused = b] \in [Req -> Requests]
  BY DEF Requests
<1> QED
  BY <1>1, TRUE \in BOOLEAN

\* A line read as request r.
Line(r) == writeError(r) \/ engageLegacy(r) \/ interceptLegacyRequest(r) \/ Forward(r)

\* The four kinds of line, told apart by what they make of the request.
LEMMA LineMakes ==
    ASSUME ShimInv, NEW r \in Req, Line(r)
    PROVE  \E i \in Id \cup {None}, p \in Pumps, n \in Nat : Becomes(r, i, p, n)
<1> USE DEF Pumps
<1>1. CASE writeError(r)
  BY <1>1 DEF writeError
<1>2. CASE engageLegacy(r)
  BY <1>2 DEF engageLegacy
<1>3. CASE interceptLegacyRequest(r)
  BY <1>3 DEF interceptLegacyRequest
<1>4. CASE Forward(r)
  BY <1>4 DEF Forward
<1> QED
  BY <1>1, <1>2, <1>3, <1>4 DEF Line

\* Each step of Shim sets a flag of Run to TRUE or not at all.
LEMMA FlagsPreserved == ShimInv /\ [Next]_vars => Flags'
<1> SUFFICES ASSUME ShimInv, [Next]_vars PROVE Flags'
  OBVIOUS
<1>1. Flags
  BY DEF ShimInv
<1>2. legacy' = legacy \/ legacy' = TRUE
  BY DEF Next, Client, Goroutine, vars, writeError, engageLegacy, interceptLegacyRequest,
     Forward, handleNotification, StdinEnds, CallerCancels, Register, Return, NatsRefuses,
     CopyTerminal, EndsSilently, Leave, answerInitialize
<1>3. ctxDone' = ctxDone \/ ctxDone' = TRUE
  BY DEF Next, Client, Goroutine, vars, writeError, engageLegacy, interceptLegacyRequest,
     Forward, handleNotification, StdinEnds, CallerCancels, Register, Return, NatsRefuses,
     CopyTerminal, EndsSilently, Leave, answerInitialize
<1> QED
  BY <1>1, <1>2, <1>3 DEF Flags

\* Each step of Shim keeps the types of everything else.
LEMMA ValuesPreserved == ShimInv /\ [Next]_vars => Values'
<1> SUFFICES ASSUME ShimInv, [Next]_vars PROVE Values'
  OBVIOUS
<1>0. Flags /\ Values /\ Handled /\ Registered
  BY DEF ShimInv
<1> USE ShimAssumption, <1>0 DEF Flags, Values, Handled, Registered, Requests, Pumps
<1>1. ASSUME NEW r \in Req, writeError(r) PROVE Values'
  <2>1. PICK i \in Id \cup {None}, p \in Pumps, n \in Nat : Becomes(r, i, p, n)
    BY <1>1, LineMakes DEF Line
  <2> QED
    BY <1>1, <2>1, BecomesOne DEF writeError
<1>2. ASSUME NEW r \in Req, engageLegacy(r) PROVE Values'
  <2>1. PICK i \in Id \cup {None}, p \in Pumps, n \in Nat : Becomes(r, i, p, n)
    BY <1>2, LineMakes DEF Line
  <2> QED
    BY <1>2, <2>1, BecomesOne DEF engageLegacy
<1>3. ASSUME NEW r \in Req, interceptLegacyRequest(r) PROVE Values'
  <2>1. PICK i \in Id \cup {None}, p \in Pumps, n \in Nat : Becomes(r, i, p, n)
    BY <1>3, LineMakes DEF Line
  <2> QED
    BY <1>3, <2>1, BecomesOne DEF interceptLegacyRequest
<1>4. ASSUME NEW r \in Req, Forward(r) PROVE Values'
  <2>1. PICK i \in Id : Becomes(r, i, "sent", 0) /\ newest' = [newest EXCEPT ![i] = r]
    BY <1>4 DEF Forward
  <2> QED
    BY <1>4, <2>1, BecomesOne DEF Forward
<1>5. ASSUME NEW i \in Id, handleNotification(i) PROVE Values'
  BY <1>5, FlagTypes DEF handleNotification
<1>6. CASE StdinEnds
  BY <1>6 DEF StdinEnds
<1>7. CASE CallerCancels
  BY <1>7 DEF CallerCancels
<1>8. CASE Register
  BY <1>8 DEF Register
<1>9. CASE Return
  BY <1>9 DEF Return
<1>10. ASSUME NEW r \in Req, NatsRefuses(r) PROVE Values'
  BY <1>10, FlagTypes DEF NatsRefuses
<1>11. ASSUME NEW r \in Req, CopyTerminal(r) PROVE Values'
  BY <1>11 DEF CopyTerminal
<1>12. ASSUME NEW r \in Req, EndsSilently(r) PROVE Values'
  BY <1>12 DEF EndsSilently
<1>13. ASSUME NEW r \in Req, Leave(r) PROVE Values'
  BY <1>13 DEF Leave
<1>14. ASSUME NEW r \in Req, answerInitialize(r) PROVE Values'
  BY <1>14 DEF answerInitialize
<1>15. CASE UNCHANGED vars
  BY <1>15 DEF vars
<1> QED
  BY <1>1, <1>2, <1>3, <1>4, <1>5, <1>6, <1>7, <1>8, <1>9, <1>10, <1>11, <1>12, <1>13, <1>14, <1>15 DEF Next, Client, Goroutine

\* Nothing is read between Do and the registration.
LEMMA HandledPreserved == ShimInv /\ [Next]_vars => Handled'
<1> SUFFICES ASSUME ShimInv, [Next]_vars PROVE Handled'
  OBVIOUS
<1>0. Flags /\ Values /\ Handled /\ Registered
  BY DEF ShimInv
<1> USE ShimAssumption, <1>0 DEF Flags, Values, Handled, Registered, Requests, Pumps
<1>1. ASSUME NEW r \in Req, writeError(r) PROVE Handled'
  <2>1. PICK i \in Id \cup {None} : Becomes(r, i, "gone", 1)
    BY <1>1 DEF writeError
  <2>2. /\ req' \in [Req -> Requests]
        /\ \A q \in Req \ {r} : req'[q] = req[q]
        /\ req'[r].id = i /\ req'[r].pump = "gone" /\ req'[r].answers = 1
        /\ req'[r].asked = FALSE /\ req'[r].refused = FALSE
    BY <2>1, BecomesOne, "gone" \in Pumps, 1 \in Nat, i \in Id \cup {None}
  <2> QED
    BY <1>1, <2>2 DEF writeError, Reads
<1>2. ASSUME NEW r \in Req, engageLegacy(r) PROVE Handled'
  <2>1. PICK i \in Id \cup {None} : Becomes(r, i, "discovering", 0)
    BY <1>2 DEF engageLegacy
  <2>2. /\ req' \in [Req -> Requests]
        /\ \A q \in Req \ {r} : req'[q] = req[q]
        /\ req'[r].id = i /\ req'[r].pump = "discovering" /\ req'[r].answers = 0
        /\ req'[r].asked = FALSE /\ req'[r].refused = FALSE
    BY <2>1, BecomesOne, "discovering" \in Pumps, 0 \in Nat, i \in Id \cup {None}
  <2> QED
    BY <1>2, <2>2 DEF engageLegacy, Reads
<1>3. ASSUME NEW r \in Req, interceptLegacyRequest(r) PROVE Handled'
  <2>1. PICK i \in Id \cup {None} : Becomes(r, i, "gone", 1)
    BY <1>3 DEF interceptLegacyRequest
  <2>2. /\ req' \in [Req -> Requests]
        /\ \A q \in Req \ {r} : req'[q] = req[q]
        /\ req'[r].id = i /\ req'[r].pump = "gone" /\ req'[r].answers = 1
        /\ req'[r].asked = FALSE /\ req'[r].refused = FALSE
    BY <2>1, BecomesOne, "gone" \in Pumps, 1 \in Nat, i \in Id \cup {None}
  <2> QED
    BY <1>3, <2>2 DEF interceptLegacyRequest, Reads
<1>4. ASSUME NEW r \in Req, Forward(r) PROVE Handled'
  <2>1. PICK i \in Id : Becomes(r, i, "sent", 0) /\ newest' = [newest EXCEPT ![i] = r]
    BY <1>4 DEF Forward
  <2>2. /\ req' \in [Req -> Requests]
        /\ \A q \in Req \ {r} : req'[q] = req[q]
        /\ req'[r].id = i /\ req'[r].pump = "sent" /\ req'[r].answers = 0
        /\ req'[r].asked = FALSE /\ req'[r].refused = FALSE
    BY <2>1, BecomesOne, "sent" \in Pumps, 0 \in Nat, i \in Id \cup {None}
  <2> QED
    BY <1>4, <2>1, <2>2 DEF Forward, Reads
<1>5. ASSUME NEW i \in Id, handleNotification(i) PROVE Handled'
  BY <1>5 DEF handleNotification
<1>6. CASE StdinEnds
  BY <1>6 DEF StdinEnds
<1>7. CASE CallerCancels
  BY <1>7 DEF CallerCancels
<1>8. CASE Register
  BY <1>8 DEF Register
<1>9. CASE Return
  BY <1>9 DEF Return
<1>10. ASSUME NEW r \in Req, NatsRefuses(r) PROVE Handled'
  BY <1>10 DEF NatsRefuses
<1>11. ASSUME NEW r \in Req, CopyTerminal(r) PROVE Handled'
  BY <1>11 DEF CopyTerminal
<1>12. ASSUME NEW r \in Req, EndsSilently(r) PROVE Handled'
  BY <1>12 DEF EndsSilently
<1>13. ASSUME NEW r \in Req, Leave(r) PROVE Handled'
  BY <1>13 DEF Leave
<1>14. ASSUME NEW r \in Req, answerInitialize(r) PROVE Handled'
  BY <1>14 DEF answerInitialize
<1>15. CASE UNCHANGED vars
  BY <1>15 DEF vars
<1> QED
  BY <1>1, <1>2, <1>3, <1>4, <1>5, <1>6, <1>7, <1>8, <1>9, <1>10, <1>11, <1>12, <1>13, <1>14, <1>15 DEF Next, Client, Goroutine

\* A registration is made for a running request and goes with it.
LEMMA RegisteredPreserved == ShimInv /\ [Next]_vars => Registered'
<1> SUFFICES ASSUME ShimInv, [Next]_vars PROVE Registered'
  OBVIOUS
<1>0. Flags /\ Values /\ Handled /\ Registered
  BY DEF ShimInv
<1> USE ShimAssumption, <1>0 DEF Flags, Values, Handled, Registered, Requests, Pumps
<1>1. ASSUME NEW r \in Req, writeError(r) PROVE Registered'
  <2>1. PICK i \in Id \cup {None} : Becomes(r, i, "gone", 1)
    BY <1>1 DEF writeError
  <2>2. /\ req' \in [Req -> Requests]
        /\ \A q \in Req \ {r} : req'[q] = req[q]
        /\ req'[r].id = i /\ req'[r].pump = "gone" /\ req'[r].answers = 1
        /\ req'[r].asked = FALSE /\ req'[r].refused = FALSE
    BY <2>1, BecomesOne, "gone" \in Pumps, 1 \in Nat, i \in Id \cup {None}
  <2> QED
    BY <1>1, <2>2 DEF writeError, Reads
<1>2. ASSUME NEW r \in Req, engageLegacy(r) PROVE Registered'
  <2>1. PICK i \in Id \cup {None} : Becomes(r, i, "discovering", 0)
    BY <1>2 DEF engageLegacy
  <2>2. /\ req' \in [Req -> Requests]
        /\ \A q \in Req \ {r} : req'[q] = req[q]
        /\ req'[r].id = i /\ req'[r].pump = "discovering" /\ req'[r].answers = 0
        /\ req'[r].asked = FALSE /\ req'[r].refused = FALSE
    BY <2>1, BecomesOne, "discovering" \in Pumps, 0 \in Nat, i \in Id \cup {None}
  <2>3. /\ streams' = streams /\ newest' = newest
        /\ \A q \in Req : req[q].pump # "none" => req'[q] = req[q]
    BY <1>2, <2>2 DEF engageLegacy, Reads
  <2>4. \A q \in Req : req'[q].pump \in {"sent", "copying", "leaving"} => req'[q].id \in Id
    BY <2>2, <2>3
  <2> QED
    BY <2>3, <2>4
<1>3. ASSUME NEW r \in Req, interceptLegacyRequest(r) PROVE Registered'
  <2>1. PICK i \in Id \cup {None} : Becomes(r, i, "gone", 1)
    BY <1>3 DEF interceptLegacyRequest
  <2>2. /\ req' \in [Req -> Requests]
        /\ \A q \in Req \ {r} : req'[q] = req[q]
        /\ req'[r].id = i /\ req'[r].pump = "gone" /\ req'[r].answers = 1
        /\ req'[r].asked = FALSE /\ req'[r].refused = FALSE
    BY <2>1, BecomesOne, "gone" \in Pumps, 1 \in Nat, i \in Id \cup {None}
  <2> QED
    BY <1>3, <2>2 DEF interceptLegacyRequest, Reads
<1>4. ASSUME NEW r \in Req, Forward(r) PROVE Registered'
  <2>1. PICK i \in Id : Becomes(r, i, "sent", 0) /\ newest' = [newest EXCEPT ![i] = r]
    BY <1>4 DEF Forward
  <2>2. /\ req' \in [Req -> Requests]
        /\ \A q \in Req \ {r} : req'[q] = req[q]
        /\ req'[r].id = i /\ req'[r].pump = "sent" /\ req'[r].answers = 0
        /\ req'[r].asked = FALSE /\ req'[r].refused = FALSE
    BY <2>1, BecomesOne, "sent" \in Pumps, 0 \in Nat, i \in Id \cup {None}
  <2> QED
    BY <1>4, <2>1, <2>2 DEF Forward, Reads
<1>5. ASSUME NEW i \in Id, handleNotification(i) PROVE Registered'
  BY <1>5 DEF handleNotification
<1>6. CASE StdinEnds
  BY <1>6 DEF StdinEnds
<1>7. CASE CallerCancels
  BY <1>7 DEF CallerCancels
<1>8. CASE Register
  BY <1>8 DEF Register
<1>9. CASE Return
  BY <1>9 DEF Return
<1>10. ASSUME NEW r \in Req, NatsRefuses(r) PROVE Registered'
  BY <1>10 DEF NatsRefuses
<1>11. ASSUME NEW r \in Req, CopyTerminal(r) PROVE Registered'
  BY <1>11 DEF CopyTerminal
<1>12. ASSUME NEW r \in Req, EndsSilently(r) PROVE Registered'
  BY <1>12 DEF EndsSilently
<1>13. ASSUME NEW r \in Req, Leave(r) PROVE Registered'
  BY <1>13 DEF Leave
<1>14. ASSUME NEW r \in Req, answerInitialize(r) PROVE Registered'
  BY <1>14 DEF answerInitialize
<1>15. CASE UNCHANGED vars
  BY <1>15 DEF vars
<1> QED
  BY <1>1, <1>2, <1>3, <1>4, <1>5, <1>6, <1>7, <1>8, <1>9, <1>10, <1>11, <1>12, <1>13, <1>14, <1>15 DEF Next, Client, Goroutine

\* A request is answered when its goroutine leaves, not before.
LEMMA AnswersPreserved == ShimInv /\ [Next]_vars => Answers'
<1> SUFFICES ASSUME ShimInv, [Next]_vars PROVE Answers'
  OBVIOUS
<1>0. Flags /\ Values /\ Handled /\ Registered /\ Answers
  BY DEF ShimInv
<1> USE ShimAssumption, <1>0 DEF Flags, Values, Handled, Registered, Answers, Requests, Pumps
<1>1. ASSUME NEW r \in Req, writeError(r) PROVE Answers'
  <2>1. PICK i \in Id \cup {None} : Becomes(r, i, "gone", 1)
    BY <1>1 DEF writeError
  <2>2. /\ req' \in [Req -> Requests]
        /\ \A q \in Req \ {r} : req'[q] = req[q]
        /\ req'[r].id = i /\ req'[r].pump = "gone" /\ req'[r].answers = 1
        /\ req'[r].asked = FALSE /\ req'[r].refused = FALSE
    BY <2>1, BecomesOne, "gone" \in Pumps, 1 \in Nat, i \in Id \cup {None}
  <2> QED
    BY <1>1, <2>2 DEF writeError, Reads
<1>2. ASSUME NEW r \in Req, engageLegacy(r) PROVE Answers'
  <2>1. PICK i \in Id \cup {None} : Becomes(r, i, "discovering", 0)
    BY <1>2 DEF engageLegacy
  <2>2. /\ req' \in [Req -> Requests]
        /\ \A q \in Req \ {r} : req'[q] = req[q]
        /\ req'[r].id = i /\ req'[r].pump = "discovering" /\ req'[r].answers = 0
        /\ req'[r].asked = FALSE /\ req'[r].refused = FALSE
    BY <2>1, BecomesOne, "discovering" \in Pumps, 0 \in Nat, i \in Id \cup {None}
  <2> QED
    BY <1>2, <2>2 DEF engageLegacy, Reads
<1>3. ASSUME NEW r \in Req, interceptLegacyRequest(r) PROVE Answers'
  <2>1. PICK i \in Id \cup {None} : Becomes(r, i, "gone", 1)
    BY <1>3 DEF interceptLegacyRequest
  <2>2. /\ req' \in [Req -> Requests]
        /\ \A q \in Req \ {r} : req'[q] = req[q]
        /\ req'[r].id = i /\ req'[r].pump = "gone" /\ req'[r].answers = 1
        /\ req'[r].asked = FALSE /\ req'[r].refused = FALSE
    BY <2>1, BecomesOne, "gone" \in Pumps, 1 \in Nat, i \in Id \cup {None}
  <2> QED
    BY <1>3, <2>2 DEF interceptLegacyRequest, Reads
<1>4. ASSUME NEW r \in Req, Forward(r) PROVE Answers'
  <2>1. PICK i \in Id : Becomes(r, i, "sent", 0) /\ newest' = [newest EXCEPT ![i] = r]
    BY <1>4 DEF Forward
  <2>2. /\ req' \in [Req -> Requests]
        /\ \A q \in Req \ {r} : req'[q] = req[q]
        /\ req'[r].id = i /\ req'[r].pump = "sent" /\ req'[r].answers = 0
        /\ req'[r].asked = FALSE /\ req'[r].refused = FALSE
    BY <2>1, BecomesOne, "sent" \in Pumps, 0 \in Nat, i \in Id \cup {None}
  <2> QED
    BY <1>4, <2>1, <2>2 DEF Forward, Reads
<1>5. ASSUME NEW i \in Id, handleNotification(i) PROVE Answers'
  BY <1>5 DEF handleNotification
<1>6. CASE StdinEnds
  BY <1>6 DEF StdinEnds
<1>7. CASE CallerCancels
  BY <1>7 DEF CallerCancels
<1>8. CASE Register
  BY <1>8 DEF Register
<1>9. CASE Return
  BY <1>9 DEF Return
<1>10. ASSUME NEW r \in Req, NatsRefuses(r) PROVE Answers'
  BY <1>10 DEF NatsRefuses
<1>11. ASSUME NEW r \in Req, CopyTerminal(r) PROVE Answers'
  BY <1>11 DEF CopyTerminal
<1>12. ASSUME NEW r \in Req, EndsSilently(r) PROVE Answers'
  BY <1>12 DEF EndsSilently
<1>13. ASSUME NEW r \in Req, Leave(r) PROVE Answers'
  BY <1>13 DEF Leave
<1>14. ASSUME NEW r \in Req, answerInitialize(r) PROVE Answers'
  BY <1>14 DEF answerInitialize
<1>15. CASE UNCHANGED vars
  BY <1>15 DEF vars
<1> QED
  BY <1>1, <1>2, <1>3, <1>4, <1>5, <1>6, <1>7, <1>8, <1>9, <1>10, <1>11, <1>12, <1>13, <1>14, <1>15 DEF Next, Client, Goroutine

\* Register routes the newest, and no other request removes its registration.
LEMMA NewestPreserved == ShimInv /\ [Next]_vars => NewestIsRouted'
<1> SUFFICES ASSUME ShimInv, [Next]_vars PROVE NewestIsRouted'
  OBVIOUS
<1>0. Values /\ Handled /\ Registered /\ NewestIsRouted
  BY DEF ShimInv
<1> USE ShimAssumption, <1>0 DEF Values, Handled, Registered, NewestIsRouted, Requests, Pumps
<1>1. ASSUME NEW r \in Req, writeError(r) PROVE NewestIsRouted'
  <2>1. PICK i \in Id \cup {None} : Becomes(r, i, "gone", 1)
    BY <1>1 DEF writeError
  <2>2. /\ req' \in [Req -> Requests]
        /\ \A q \in Req \ {r} : req'[q] = req[q]
        /\ req'[r].id = i /\ req'[r].pump = "gone" /\ req'[r].answers = 1
        /\ req'[r].asked = FALSE /\ req'[r].refused = FALSE
    BY <2>1, BecomesOne, "gone" \in Pumps, 1 \in Nat, i \in Id \cup {None}
  <2> QED
    BY <1>1, <2>2 DEF writeError, Reads
<1>2. ASSUME NEW r \in Req, engageLegacy(r) PROVE NewestIsRouted'
  <2>1. PICK i \in Id \cup {None} : Becomes(r, i, "discovering", 0)
    BY <1>2 DEF engageLegacy
  <2>2. /\ req' \in [Req -> Requests]
        /\ \A q \in Req \ {r} : req'[q] = req[q]
        /\ req'[r].id = i /\ req'[r].pump = "discovering" /\ req'[r].answers = 0
        /\ req'[r].asked = FALSE /\ req'[r].refused = FALSE
    BY <2>1, BecomesOne, "discovering" \in Pumps, 0 \in Nat, i \in Id \cup {None}
  <2> QED
    BY <1>2, <2>2 DEF engageLegacy, Reads
<1>3. ASSUME NEW r \in Req, interceptLegacyRequest(r) PROVE NewestIsRouted'
  <2>1. PICK i \in Id \cup {None} : Becomes(r, i, "gone", 1)
    BY <1>3 DEF interceptLegacyRequest
  <2>2. /\ req' \in [Req -> Requests]
        /\ \A q \in Req \ {r} : req'[q] = req[q]
        /\ req'[r].id = i /\ req'[r].pump = "gone" /\ req'[r].answers = 1
        /\ req'[r].asked = FALSE /\ req'[r].refused = FALSE
    BY <2>1, BecomesOne, "gone" \in Pumps, 1 \in Nat, i \in Id \cup {None}
  <2> QED
    BY <1>3, <2>2 DEF interceptLegacyRequest, Reads
<1>4. ASSUME NEW r \in Req, Forward(r) PROVE NewestIsRouted'
  <2>1. PICK i \in Id : Becomes(r, i, "sent", 0) /\ newest' = [newest EXCEPT ![i] = r]
    BY <1>4 DEF Forward
  <2>2. /\ req' \in [Req -> Requests]
        /\ \A q \in Req \ {r} : req'[q] = req[q]
        /\ req'[r].id = i /\ req'[r].pump = "sent" /\ req'[r].answers = 0
        /\ req'[r].asked = FALSE /\ req'[r].refused = FALSE
    BY <2>1, BecomesOne, "sent" \in Pumps, 0 \in Nat, i \in Id \cup {None}
  <2> QED
    BY <1>4, <2>1, <2>2 DEF Forward, Reads
<1>5. ASSUME NEW i \in Id, handleNotification(i) PROVE NewestIsRouted'
  BY <1>5 DEF handleNotification
<1>6. CASE StdinEnds
  BY <1>6 DEF StdinEnds
<1>7. CASE CallerCancels
  BY <1>7 DEF CallerCancels
<1>8. CASE Register
  BY <1>8 DEF Register
<1>9. CASE Return
  BY <1>9 DEF Return
<1>10. ASSUME NEW r \in Req, NatsRefuses(r) PROVE NewestIsRouted'
  BY <1>10 DEF NatsRefuses
<1>11. ASSUME NEW r \in Req, CopyTerminal(r) PROVE NewestIsRouted'
  BY <1>11 DEF CopyTerminal
<1>12. ASSUME NEW r \in Req, EndsSilently(r) PROVE NewestIsRouted'
  BY <1>12 DEF EndsSilently
<1>13. ASSUME NEW r \in Req, Leave(r) PROVE NewestIsRouted'
  BY <1>13 DEF Leave
<1>14. ASSUME NEW r \in Req, answerInitialize(r) PROVE NewestIsRouted'
  BY <1>14 DEF answerInitialize
<1>15. CASE UNCHANGED vars
  BY <1>15 DEF vars
<1> QED
  BY <1>1, <1>2, <1>3, <1>4, <1>5, <1>6, <1>7, <1>8, <1>9, <1>10, <1>11, <1>12, <1>13, <1>14, <1>15 DEF Next, Client, Goroutine

\* A second answer would need a second departure.
LEMMA AnsweredPreserved == ShimInv /\ [Next]_vars => AnsweredOnce'
<1> SUFFICES ASSUME ShimInv, [Next]_vars PROVE AnsweredOnce'
  OBVIOUS
<1>0. Flags /\ Values /\ Handled /\ Registered /\ Answers /\ AnsweredOnce
  BY DEF ShimInv
<1> USE ShimAssumption, <1>0 DEF Flags, Values, Handled, Registered, Answers, AnsweredOnce, Requests, Pumps
<1>1. ASSUME NEW r \in Req, writeError(r) PROVE AnsweredOnce'
  <2>1. PICK i \in Id \cup {None} : Becomes(r, i, "gone", 1)
    BY <1>1 DEF writeError
  <2>2. /\ req' \in [Req -> Requests]
        /\ \A q \in Req \ {r} : req'[q] = req[q]
        /\ req'[r].id = i /\ req'[r].pump = "gone" /\ req'[r].answers = 1
        /\ req'[r].asked = FALSE /\ req'[r].refused = FALSE
    BY <2>1, BecomesOne, "gone" \in Pumps, 1 \in Nat, i \in Id \cup {None}
  <2> QED
    BY <1>1, <2>2 DEF writeError, Reads
<1>2. ASSUME NEW r \in Req, engageLegacy(r) PROVE AnsweredOnce'
  <2>1. PICK i \in Id \cup {None} : Becomes(r, i, "discovering", 0)
    BY <1>2 DEF engageLegacy
  <2>2. /\ req' \in [Req -> Requests]
        /\ \A q \in Req \ {r} : req'[q] = req[q]
        /\ req'[r].id = i /\ req'[r].pump = "discovering" /\ req'[r].answers = 0
        /\ req'[r].asked = FALSE /\ req'[r].refused = FALSE
    BY <2>1, BecomesOne, "discovering" \in Pumps, 0 \in Nat, i \in Id \cup {None}
  <2> QED
    BY <1>2, <2>2 DEF engageLegacy, Reads
<1>3. ASSUME NEW r \in Req, interceptLegacyRequest(r) PROVE AnsweredOnce'
  <2>1. PICK i \in Id \cup {None} : Becomes(r, i, "gone", 1)
    BY <1>3 DEF interceptLegacyRequest
  <2>2. /\ req' \in [Req -> Requests]
        /\ \A q \in Req \ {r} : req'[q] = req[q]
        /\ req'[r].id = i /\ req'[r].pump = "gone" /\ req'[r].answers = 1
        /\ req'[r].asked = FALSE /\ req'[r].refused = FALSE
    BY <2>1, BecomesOne, "gone" \in Pumps, 1 \in Nat, i \in Id \cup {None}
  <2> QED
    BY <1>3, <2>2 DEF interceptLegacyRequest, Reads
<1>4. ASSUME NEW r \in Req, Forward(r) PROVE AnsweredOnce'
  <2>1. PICK i \in Id : Becomes(r, i, "sent", 0) /\ newest' = [newest EXCEPT ![i] = r]
    BY <1>4 DEF Forward
  <2>2. /\ req' \in [Req -> Requests]
        /\ \A q \in Req \ {r} : req'[q] = req[q]
        /\ req'[r].id = i /\ req'[r].pump = "sent" /\ req'[r].answers = 0
        /\ req'[r].asked = FALSE /\ req'[r].refused = FALSE
    BY <2>1, BecomesOne, "sent" \in Pumps, 0 \in Nat, i \in Id \cup {None}
  <2> QED
    BY <1>4, <2>1, <2>2 DEF Forward, Reads
<1>5. ASSUME NEW i \in Id, handleNotification(i) PROVE AnsweredOnce'
  BY <1>5 DEF handleNotification
<1>6. CASE StdinEnds
  BY <1>6 DEF StdinEnds
<1>7. CASE CallerCancels
  BY <1>7 DEF CallerCancels
<1>8. CASE Register
  BY <1>8 DEF Register
<1>9. CASE Return
  BY <1>9 DEF Return
<1>10. ASSUME NEW r \in Req, NatsRefuses(r) PROVE AnsweredOnce'
  BY <1>10 DEF NatsRefuses
<1>11. ASSUME NEW r \in Req, CopyTerminal(r) PROVE AnsweredOnce'
  BY <1>11 DEF CopyTerminal
<1>12. ASSUME NEW r \in Req, EndsSilently(r) PROVE AnsweredOnce'
  BY <1>12 DEF EndsSilently
<1>13. ASSUME NEW r \in Req, Leave(r) PROVE AnsweredOnce'
  BY <1>13 DEF Leave
<1>14. ASSUME NEW r \in Req, answerInitialize(r) PROVE AnsweredOnce'
  BY <1>14 DEF answerInitialize
<1>15. CASE UNCHANGED vars
  BY <1>15 DEF vars
<1> QED
  BY <1>1, <1>2, <1>3, <1>4, <1>5, <1>6, <1>7, <1>8, <1>9, <1>10, <1>11, <1>12, <1>13, <1>14, <1>15 DEF Next, Client, Goroutine

\* The goroutines are finitely many.
LEMMA RunningFinite == IsFiniteSet(Running) /\ Cardinality(Running) \in Nat
<1>1. IsFiniteSet(Running)
  BY ShimAssumption, FS_Subset DEF Running
<1> QED
  BY <1>1, FS_CardinalityType

\* A goroutine counts itself in before it starts and out when it leaves.
LEMMA CountedPreserved == ShimInv /\ [Next]_vars => Counted'
<1> SUFFICES ASSUME ShimInv, [Next]_vars PROVE Counted'
  OBVIOUS
<1>0. Values /\ Handled /\ Registered /\ Counted
  BY DEF ShimInv
<1> USE ShimAssumption, <1>0 DEF Values, Handled, Registered, Counted, Requests, Pumps
<1>1. ASSUME NEW r \in Req, writeError(r) PROVE Counted'
  <2>1. PICK i \in Id \cup {None} : Becomes(r, i, "gone", 1)
    BY <1>1 DEF writeError
  <2>2. /\ req' \in [Req -> Requests]
        /\ \A q \in Req \ {r} : req'[q] = req[q]
        /\ req'[r].id = i /\ req'[r].pump = "gone" /\ req'[r].answers = 1
        /\ req'[r].asked = FALSE /\ req'[r].refused = FALSE
    BY <2>1, BecomesOne, "gone" \in Pumps, 1 \in Nat, i \in Id \cup {None}
  <2>3. Running' = Running
    BY <1>1, <2>2 DEF writeError, Reads, Running
  <2> QED
    BY <1>1, <2>3 DEF writeError, Counted
<1>2. ASSUME NEW r \in Req, engageLegacy(r) PROVE Counted'
  <2>1. PICK i \in Id \cup {None} : Becomes(r, i, "discovering", 0)
    BY <1>2 DEF engageLegacy
  <2>2. /\ req' \in [Req -> Requests]
        /\ \A q \in Req \ {r} : req'[q] = req[q]
        /\ req'[r].id = i /\ req'[r].pump = "discovering" /\ req'[r].answers = 0
        /\ req'[r].asked = FALSE /\ req'[r].refused = FALSE
    BY <2>1, BecomesOne, "discovering" \in Pumps, 0 \in Nat, i \in Id \cup {None}
  <2>3. Running' = Running \cup {r} /\ r \notin Running
    BY <1>2, <2>2 DEF engageLegacy, Reads, Running
  <2>4. Cardinality(Running') = Cardinality(Running) + 1
    BY <2>3, RunningFinite, FS_AddElement
  <2> QED
    BY <1>2, <2>4 DEF engageLegacy, Counted
<1>3. ASSUME NEW r \in Req, interceptLegacyRequest(r) PROVE Counted'
  <2>1. PICK i \in Id \cup {None} : Becomes(r, i, "gone", 1)
    BY <1>3 DEF interceptLegacyRequest
  <2>2. /\ req' \in [Req -> Requests]
        /\ \A q \in Req \ {r} : req'[q] = req[q]
        /\ req'[r].id = i /\ req'[r].pump = "gone" /\ req'[r].answers = 1
        /\ req'[r].asked = FALSE /\ req'[r].refused = FALSE
    BY <2>1, BecomesOne, "gone" \in Pumps, 1 \in Nat, i \in Id \cup {None}
  <2>3. Running' = Running
    BY <1>3, <2>2 DEF interceptLegacyRequest, Reads, Running
  <2> QED
    BY <1>3, <2>3 DEF interceptLegacyRequest, Counted
<1>4. ASSUME NEW r \in Req, Forward(r) PROVE Counted'
  <2>1. PICK i \in Id : Becomes(r, i, "sent", 0) /\ newest' = [newest EXCEPT ![i] = r]
    BY <1>4 DEF Forward
  <2>2. /\ req' \in [Req -> Requests]
        /\ \A q \in Req \ {r} : req'[q] = req[q]
        /\ req'[r].id = i /\ req'[r].pump = "sent" /\ req'[r].answers = 0
        /\ req'[r].asked = FALSE /\ req'[r].refused = FALSE
    BY <2>1, BecomesOne, "sent" \in Pumps, 0 \in Nat, i \in Id \cup {None}
  <2>3. Running' = Running
    BY <1>4, <2>2 DEF Forward, Reads, Running
  <2> QED
    BY <1>4, <2>3 DEF Forward, Counted
<1>5. ASSUME NEW i \in Id, handleNotification(i) PROVE Counted'
  <2>1. Running' = Running
    BY <1>5 DEF handleNotification, Running
  <2> QED
    BY <1>5, <2>1 DEF handleNotification, Counted
<1>6. CASE StdinEnds
  <2>1. Running' = Running
    BY <1>6 DEF StdinEnds, Running
  <2> QED
    BY <1>6, <2>1 DEF StdinEnds, Counted
<1>7. CASE CallerCancels
  <2>1. Running' = Running
    BY <1>7 DEF CallerCancels, Running
  <2> QED
    BY <1>7, <2>1 DEF CallerCancels, Counted
<1>8. CASE Register
  <2>1. Running' = Running \cup {handling} /\ handling \notin Running
    BY <1>8 DEF Register, Running
  <2>2. Cardinality(Running') = Cardinality(Running) + 1
    BY <2>1, RunningFinite, FS_AddElement
  <2> QED
    BY <1>8, <2>2 DEF Register, Counted
<1>9. CASE Return
  <2>1. Running' = Running
    BY <1>9 DEF Return, Running
  <2> QED
    BY <1>9, <2>1 DEF Return, Counted
<1>10. ASSUME NEW r \in Req, NatsRefuses(r) PROVE Counted'
  <2>1. Running' = Running
    BY <1>10 DEF NatsRefuses, Running
  <2> QED
    BY <1>10, <2>1 DEF NatsRefuses, Counted
<1>11. ASSUME NEW r \in Req, CopyTerminal(r) PROVE Counted'
  <2>1. Running' = Running
    BY <1>11 DEF CopyTerminal, Running
  <2> QED
    BY <1>11, <2>1 DEF CopyTerminal, Counted
<1>12. ASSUME NEW r \in Req, EndsSilently(r) PROVE Counted'
  <2>1. Running' = Running
    BY <1>12 DEF EndsSilently, Running
  <2> QED
    BY <1>12, <2>1 DEF EndsSilently, Counted
<1>13. ASSUME NEW r \in Req, Leave(r) PROVE Counted'
  <2>1. Running' = Running \ {r} /\ r \in Running
    BY <1>13 DEF Leave, Running
  <2>2. Cardinality(Running') = Cardinality(Running) - 1
    BY <2>1, RunningFinite, FS_RemoveElement
  <2> QED
    BY <1>13, <2>2 DEF Leave, Counted
<1>14. ASSUME NEW r \in Req, answerInitialize(r) PROVE Counted'
  <2>1. Running' = Running \ {r} /\ r \in Running
    BY <1>14 DEF answerInitialize, Running
  <2>2. Cardinality(Running') = Cardinality(Running) - 1
    BY <2>1, RunningFinite, FS_RemoveElement
  <2> QED
    BY <1>14, <2>2 DEF answerInitialize, Counted
<1>15. CASE UNCHANGED vars
  <2>1. Running' = Running
    BY <1>15 DEF vars, Running
  <2> QED
    BY <1>15, <2>1 DEF vars, Counted
<1> QED
  BY <1>1, <1>2, <1>3, <1>4, <1>5, <1>6, <1>7, <1>8, <1>9, <1>10, <1>11, <1>12, <1>13, <1>14, <1>15 DEF Next, Client, Goroutine

\* Run returns when wg is zero, which is when no goroutine is left.
LEMMA NothingLeftPreserved == ShimInv /\ [Next]_vars => NothingLeft'
<1> SUFFICES ASSUME ShimInv, [Next]_vars PROVE NothingLeft'
  OBVIOUS
<1>0. Values /\ Handled /\ Counted /\ NothingLeft
  BY DEF ShimInv
<1> USE ShimAssumption, <1>0 DEF Values, Handled, Counted, NothingLeft, Requests, Pumps
<1>1. ASSUME NEW r \in Req, writeError(r) PROVE NothingLeft'
  <2>1. PICK i \in Id \cup {None} : Becomes(r, i, "gone", 1)
    BY <1>1 DEF writeError
  <2>2. /\ req' \in [Req -> Requests]
        /\ \A q \in Req \ {r} : req'[q] = req[q]
        /\ req'[r].id = i /\ req'[r].pump = "gone" /\ req'[r].answers = 1
        /\ req'[r].asked = FALSE /\ req'[r].refused = FALSE
    BY <2>1, BecomesOne, "gone" \in Pumps, 1 \in Nat, i \in Id \cup {None}
  <2> QED
    BY <1>1, <2>2 DEF writeError, Reads
<1>2. ASSUME NEW r \in Req, engageLegacy(r) PROVE NothingLeft'
  <2>1. PICK i \in Id \cup {None} : Becomes(r, i, "discovering", 0)
    BY <1>2 DEF engageLegacy
  <2>2. /\ req' \in [Req -> Requests]
        /\ \A q \in Req \ {r} : req'[q] = req[q]
        /\ req'[r].id = i /\ req'[r].pump = "discovering" /\ req'[r].answers = 0
        /\ req'[r].asked = FALSE /\ req'[r].refused = FALSE
    BY <2>1, BecomesOne, "discovering" \in Pumps, 0 \in Nat, i \in Id \cup {None}
  <2> QED
    BY <1>2, <2>2 DEF engageLegacy, Reads
<1>3. ASSUME NEW r \in Req, interceptLegacyRequest(r) PROVE NothingLeft'
  <2>1. PICK i \in Id \cup {None} : Becomes(r, i, "gone", 1)
    BY <1>3 DEF interceptLegacyRequest
  <2>2. /\ req' \in [Req -> Requests]
        /\ \A q \in Req \ {r} : req'[q] = req[q]
        /\ req'[r].id = i /\ req'[r].pump = "gone" /\ req'[r].answers = 1
        /\ req'[r].asked = FALSE /\ req'[r].refused = FALSE
    BY <2>1, BecomesOne, "gone" \in Pumps, 1 \in Nat, i \in Id \cup {None}
  <2> QED
    BY <1>3, <2>2 DEF interceptLegacyRequest, Reads
<1>4. ASSUME NEW r \in Req, Forward(r) PROVE NothingLeft'
  <2>1. PICK i \in Id : Becomes(r, i, "sent", 0) /\ newest' = [newest EXCEPT ![i] = r]
    BY <1>4 DEF Forward
  <2>2. /\ req' \in [Req -> Requests]
        /\ \A q \in Req \ {r} : req'[q] = req[q]
        /\ req'[r].id = i /\ req'[r].pump = "sent" /\ req'[r].answers = 0
        /\ req'[r].asked = FALSE /\ req'[r].refused = FALSE
    BY <2>1, BecomesOne, "sent" \in Pumps, 0 \in Nat, i \in Id \cup {None}
  <2> QED
    BY <1>4, <2>1, <2>2 DEF Forward, Reads
<1>5. ASSUME NEW i \in Id, handleNotification(i) PROVE NothingLeft'
  BY <1>5 DEF handleNotification
<1>6. CASE StdinEnds
  BY <1>6 DEF StdinEnds
<1>7. CASE CallerCancels
  BY <1>7 DEF CallerCancels
<1>8. CASE Register
  BY <1>8 DEF Register
<1>9. CASE Return
  <2>1. Cardinality(Running) = 0
    BY <1>9 DEF Return
  <2>2. Running = {}
    BY <2>1, RunningFinite, FS_EmptySet
  <2> QED
    BY <1>9, <2>2 DEF Return, Running
<1>10. ASSUME NEW r \in Req, NatsRefuses(r) PROVE NothingLeft'
  BY <1>10 DEF NatsRefuses
<1>11. ASSUME NEW r \in Req, CopyTerminal(r) PROVE NothingLeft'
  BY <1>11 DEF CopyTerminal
<1>12. ASSUME NEW r \in Req, EndsSilently(r) PROVE NothingLeft'
  BY <1>12 DEF EndsSilently
<1>13. ASSUME NEW r \in Req, Leave(r) PROVE NothingLeft'
  BY <1>13 DEF Leave
<1>14. ASSUME NEW r \in Req, answerInitialize(r) PROVE NothingLeft'
  BY <1>14 DEF answerInitialize
<1>15. CASE UNCHANGED vars
  BY <1>15 DEF vars
<1> QED
  BY <1>1, <1>2, <1>3, <1>4, <1>5, <1>6, <1>7, <1>8, <1>9, <1>10, <1>11, <1>12, <1>13, <1>14, <1>15 DEF Next, Client, Goroutine

-----------------------------------------------------------------------------

\* The invariant of the client edge, and what follows from it.
THEOREM Invariant == Spec => []ShimInv
<1>1. ShimInv /\ [Next]_vars => ShimInv'
  BY FlagsPreserved, ValuesPreserved, HandledPreserved, RegisteredPreserved, AnswersPreserved,
     NewestPreserved, AnsweredPreserved, CountedPreserved, NothingLeftPreserved DEF ShimInv
<1> QED
  BY InitInv, <1>1, PTL DEF Spec

\* Shim.Run's state keeps its types: wg, which Done decrements, stays a count.
THEOREM TypeCorrect == Spec => []TypeOK
<1>1. ShimInv => TypeOK
  <2> SUFFICES ASSUME ShimInv PROVE TypeOK
    OBVIOUS
  <2>1. Values /\ Flags /\ wg \in Nat
    BY RunningFinite DEF ShimInv, Counted
  <2> QED
    BY <2>1 DEF TypeOK, Values, Flags, Requests, Pumps
<1> QED
  BY Invariant, <1>1, PTL

\* shim.go:277: a cancellation finds the newest request of its id.
THEOREM Routing == Spec => []NewestIsRouted
<1>1. ShimInv => NewestIsRouted
  BY DEF ShimInv
<1> QED
  BY Invariant, <1>1, PTL

\* shim.go:287: at most one response, and none only for a reason.
THEOREM Answering == Spec => []AnsweredOnce
<1>1. ShimInv => AnsweredOnce
  BY DEF ShimInv
<1> QED
  BY Invariant, <1>1, PTL

\* shim.go:129: nothing that could write is left behind when Run returns.
THEOREM ReturnsClean == Spec => []NothingLeft
<1>1. ShimInv => NothingLeft
  BY DEF ShimInv
<1> QED
  BY Invariant, <1>1, PTL
=============================================================================
