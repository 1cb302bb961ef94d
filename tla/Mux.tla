-------------------------------- MODULE Mux --------------------------------
(***************************************************************************)
(* One pooled connection: the Mux (pkg/backend/mux.go) that correlates     *)
(* concurrent calls over a stdio connection (pkg/backend/stdio.go) to a    *)
(* subprocess.                                                             *)
(*                                                                         *)
(* A pipe to or from the process holds a bounded number of messages; a     *)
(* write to a full one blocks, whatever its context says.  writeMu is left *)
(* out: whoever holds it waits for the same room.  Exactly one readLoop    *)
(* takes messages in order; between looking a call up and handing it a     *)
(* message it holds no lock.                                               *)
(*                                                                         *)
(* The process is external: it reads its stdin, answers what it has read,  *)
(* more than once if it likes, and sends notifications and requests of its *)
(* own.                                                                    *)
(***************************************************************************)
EXTENDS Integers, Sequences, FiniteSets

CONSTANTS
    Caller,     \* goroutines, each in one Mux.Call
    None,
    Cap,        \* messages a pipe holds
    MaxTraffic  \* model bound: calls started and messages the process sends, together

ASSUME CallerAssumption == IsFiniteSet(Caller) /\ None \notin Caller
ASSUME BoundAssumption == Cap \in Nat \ {0} /\ MaxTraffic \in Nat

VARIABLES
    seq,        \* Mux.seq
    calls,      \* Mux.calls, by muxed id
    tokens,     \* Mux.tokens, by muxed id: a token is derived from it
    dead,       \* Mux.dead is closed
    pc,         \* where each Call is
    id,         \* its muxed id
    token,      \* it carries a progress token
    ctx,        \* its context is done
    resp,       \* its buffered response channel, kept when it has been read
    outcome,    \* what it returned
    heard,      \* notifications passed to its notify
    reader,     \* where readLoop is
    held,       \* the message it is routing, and to whom
    lines,      \* stdioConn.lines
    scan,       \* stdoutLoop runs
    stdin, stdout,  \* the pipes
    closing,    \* Close was called: stdin is closed
    proc,       \* the process: "up", "exited", "reaped" (cmd.Wait returned)
    asked,      \* requests the process has read
    told,       \* notifications it has sent, by caller
    sent        \* messages it has sent

callVars == <<pc, id, token, ctx, outcome>>
muxVars == <<seq, calls, tokens, dead>>
readVars == <<reader, held, resp, heard>>
connVars == <<lines, scan, stdin, stdout, closing>>
procVars == <<proc, asked, told, sent>>
vars == <<callVars, muxVars, readVars, connVars, procVars>>

Ids == 1..Cardinality(Caller)

\* from names, as history, the call whose request a message is about; notes
\* counts the notifications sent for it before.
Response == [kind : {"response"}, id : Ids, from : Caller, notes : Nat]
Notification == [kind : {"progress", "event"}, id : Ids, from : Caller]
ServerRequest == [kind : {"request"}]
Outgoing == Response \cup Notification \cup ServerRequest
Incoming == [kind : {"request", "cancelled"}, id : Ids, from : Caller] \cup [kind : {"reject"}]

CallPC == {"idle", "register", "write", "wait", "cancelled", "died", "cancel", "done"}

TypeOK ==
    /\ seq \in 0..Cardinality(Caller)
    /\ calls \in [Ids -> Caller \cup {None}]
    /\ tokens \in [Ids -> Caller \cup {None}]
    /\ dead \in BOOLEAN
    /\ pc \in [Caller -> CallPC]
    /\ id \in [Caller -> Ids \cup {None}]
    /\ token \in [Caller -> BOOLEAN]
    /\ ctx \in [Caller -> BOOLEAN]
    /\ resp \in [Caller -> Response \cup {None}]
    /\ outcome \in [Caller -> {"none", "answer", "cancelled", "dead", "writeError"}]
    /\ heard \in [Caller -> Nat]
    /\ reader \in {"read", "deliver", "reject", "ended"}
    /\ held \in [msg : Response \cup Notification, to : Caller] \cup {None}
    /\ lines \in Seq(Outgoing)
    /\ scan \in BOOLEAN
    /\ stdin \in Seq(Incoming)
    /\ stdout \in Seq(Outgoing)
    /\ closing \in BOOLEAN
    /\ proc \in {"up", "exited", "reaped"}
    /\ asked \subseteq [id : Ids, from : Caller]
    /\ told \in [Caller -> Nat]
    /\ sent \in 0..MaxTraffic

Init ==
    /\ seq = 0
    /\ calls = [i \in Ids |-> None] /\ tokens = [i \in Ids |-> None]
    /\ dead = FALSE
    /\ pc = [c \in Caller |-> "idle"]
    /\ id = [c \in Caller |-> None]
    /\ token = [c \in Caller |-> FALSE]
    /\ ctx = [c \in Caller |-> FALSE]
    /\ resp = [c \in Caller |-> None]
    /\ outcome = [c \in Caller |-> "none"]
    /\ heard = [c \in Caller |-> 0]
    /\ reader = "read" /\ held = None
    /\ lines = <<>> /\ scan = TRUE
    /\ stdin = <<>> /\ stdout = <<>>
    /\ closing = FALSE
    /\ proc = "up" /\ asked = {}
    /\ told = [c \in Caller |-> 0] /\ sent = 0

-----------------------------------------------------------------------------
(* stdioConn.Write *)

Writable == proc = "up" /\ ~closing

Send(m) ==
    /\ Writable
    /\ Len(stdin) < Cap
    /\ stdin' = Append(stdin, m)
    /\ UNCHANGED <<lines, scan, stdout, closing>>

-----------------------------------------------------------------------------
(* Mux.Call *)

Goes(c, to) == pc' = [pc EXCEPT ![c] = to]

Returns(c, what) ==
    /\ Goes(c, "done")
    /\ outcome' = [outcome EXCEPT ![c] = what]
    /\ UNCHANGED <<id, token, ctx>>

\* Mutant: the caller's own id is sent on, and callers pick the same.
Start_OwnId(c) ==
    /\ pc[c] = "idle"
    /\ seq + sent < MaxTraffic
    /\ seq' = seq + 1
    /\ id' = [id EXCEPT ![c] = 1]
    /\ \E t \in BOOLEAN : token' = [token EXCEPT ![c] = t]
    /\ Goes(c, "register")
    /\ UNCHANGED <<ctx, outcome, calls, tokens, dead, readVars, connVars, procVars>>

Start(c) ==
    /\ pc[c] = "idle"
    /\ seq + sent < MaxTraffic
    /\ seq' = seq + 1
    /\ id' = [id EXCEPT ![c] = seq + 1]
    /\ \E t \in BOOLEAN : token' = [token EXCEPT ![c] = t]
    /\ Goes(c, "register")
    /\ UNCHANGED <<ctx, outcome, calls, tokens, dead, readVars, connVars, procVars>>

\* Mutant: only the id is entered.
Register_NoToken(c) ==
    /\ pc[c] = "register" /\ ~dead
    /\ calls' = [calls EXCEPT ![id[c]] = c]
    /\ Goes(c, "write")
    /\ UNCHANGED <<id, token, ctx, outcome, seq, tokens, dead, readVars, connVars, procVars>>

Register(c) ==
    /\ pc[c] = "register" /\ ~dead
    /\ calls' = [calls EXCEPT ![id[c]] = c]
    /\ tokens' = IF token[c] THEN [tokens EXCEPT ![id[c]] = c] ELSE tokens
    /\ Goes(c, "write")
    /\ UNCHANGED <<id, token, ctx, outcome, seq, dead, readVars, connVars, procVars>>

RefuseDead(c) ==
    /\ pc[c] = "register" /\ dead
    /\ Returns(c, "dead")
    /\ UNCHANGED <<muxVars, readVars, connVars, procVars>>

unregister(c) ==
    /\ calls' = [calls EXCEPT ![id[c]] = None]
    /\ tokens' = [tokens EXCEPT ![id[c]] = None]
    /\ UNCHANGED <<seq, dead>>

WriteRequest(c) ==
    /\ pc[c] = "write"
    /\ Send([kind |-> "request", id |-> id[c], from |-> c])
    /\ Goes(c, "wait")
    /\ UNCHANGED <<id, token, ctx, outcome, muxVars, readVars, procVars>>

\* Mutant: a failed write returns at once.
WriteErr_Leaks(c) ==
    /\ pc[c] = "write" /\ ~Writable
    /\ Returns(c, "writeError")
    /\ UNCHANGED <<muxVars, readVars, connVars, procVars>>

WriteErr(c) ==
    /\ pc[c] = "write" /\ ~Writable
    /\ unregister(c)
    /\ Returns(c, "writeError")
    /\ UNCHANGED <<readVars, connVars, procVars>>

\* The select, whichever of its cases is ready.
Answered(c) ==
    /\ pc[c] = "wait" /\ resp[c] # None
    /\ unregister(c)
    /\ Returns(c, "answer")
    /\ UNCHANGED <<readVars, connVars, procVars>>

CtxDone(c) ==
    /\ pc[c] = "wait" /\ ctx[c]
    /\ unregister(c)
    /\ Goes(c, "cancelled")
    /\ UNCHANGED <<id, token, ctx, outcome, readVars, connVars, procVars>>

\* Mutant: the connection's death is not waited for.
Died_Unseen(c) ==
    /\ pc[c] = "wait" /\ dead /\ ctx[c]
    /\ unregister(c)
    /\ Goes(c, "died")
    /\ UNCHANGED <<id, token, ctx, outcome, readVars, connVars, procVars>>

Died(c) ==
    /\ pc[c] = "wait" /\ dead
    /\ unregister(c)
    /\ Goes(c, "died")
    /\ UNCHANGED <<id, token, ctx, outcome, readVars, connVars, procVars>>

\* A response that has landed wins over both.
LandedAnyway(c) ==
    /\ pc[c] \in {"cancelled", "died"} /\ resp[c] # None
    /\ Returns(c, "answer")
    /\ UNCHANGED <<muxVars, readVars, connVars, procVars>>

\* Mutant: a bare select.
ReturnDead_Bare(c) ==
    /\ pc[c] = "died"
    /\ Returns(c, "dead")
    /\ UNCHANGED <<muxVars, readVars, connVars, procVars>>

ReturnDead(c) ==
    /\ pc[c] = "died" /\ resp[c] = None
    /\ Returns(c, "dead")
    /\ UNCHANGED <<muxVars, readVars, connVars, procVars>>

GivesUp(c) ==
    /\ pc[c] = "cancelled" /\ resp[c] = None
    /\ Goes(c, "cancel")
    /\ UNCHANGED <<id, token, ctx, outcome, muxVars, readVars, connVars, procVars>>

\* Best effort, but it is waited for.
WriteCancel(c) ==
    /\ pc[c] = "cancel"
    /\ \/ Send([kind |-> "cancelled", id |-> id[c], from |-> c])
       \/ ~Writable /\ UNCHANGED connVars
    /\ Returns(c, "cancelled")
    /\ UNCHANGED <<muxVars, readVars, procVars>>

-----------------------------------------------------------------------------
(* readLoop *)

Lookup(m) == IF m.kind = "progress" THEN tokens[m.id] ELSE calls[m.id]

\* A message for a call that is not there is dropped.
Read ==
    /\ reader = "read" /\ lines # <<>>
    /\ LET m == Head(lines) IN
       IF m.kind = "request"
       THEN reader' = "reject" /\ UNCHANGED held
       ELSE IF Lookup(m) = None
       THEN UNCHANGED <<reader, held>>
       ELSE reader' = "deliver" /\ held' = [msg |-> m, to |-> Lookup(m)]
    /\ lines' = Tail(lines)
    /\ UNCHANGED <<callVars, muxVars, resp, heard, scan, stdin, stdout, closing, procVars>>

\* A duplicate response is dropped: the channel holds one.
routeResponse ==
    /\ reader = "deliver" /\ held.msg.kind = "response"
    /\ resp' = [resp EXCEPT ![held.to] = IF @ = None THEN held.msg ELSE @]
    /\ reader' = "read" /\ held' = None
    /\ UNCHANGED <<callVars, muxVars, heard, connVars, procVars>>

routeNotification ==
    /\ reader = "deliver" /\ held.msg.kind # "response"
    /\ heard' = [heard EXCEPT ![held.to] = @ + 1]
    /\ reader' = "read" /\ held' = None
    /\ UNCHANGED <<callVars, muxVars, resp, connVars, procVars>>

\* A request of the server's own is refused, and the refusal waited for.
RejectRequest ==
    /\ reader = "reject"
    /\ \/ Send([kind |-> "reject"])
       \/ ~Writable /\ UNCHANGED connVars
    /\ reader' = "read"
    /\ UNCHANGED <<callVars, muxVars, held, resp, heard, procVars>>

ReadErr ==
    /\ reader = "read" /\ lines = <<>> /\ ~scan
    /\ dead' = TRUE
    /\ reader' = "ended"
    /\ UNCHANGED <<callVars, seq, calls, tokens, held, resp, heard, connVars, procVars>>

-----------------------------------------------------------------------------
(* stdioConn *)

stdoutLoop ==
    /\ scan /\ stdout # <<>> /\ Len(lines) < Cap
    /\ lines' = Append(lines, Head(stdout))
    /\ stdout' = Tail(stdout)
    /\ UNCHANGED <<callVars, muxVars, readVars, scan, stdin, closing, procVars>>

ScanEOF ==
    /\ scan /\ stdout = <<>> /\ proc # "up"
    /\ scan' = FALSE
    /\ UNCHANGED <<callVars, muxVars, readVars, lines, stdin, stdout, closing, procVars>>

\* A line longer than the scanner takes, or a process that closed its stdout.
ScanErr ==
    /\ scan
    /\ scan' = FALSE
    /\ UNCHANGED <<callVars, muxVars, readVars, lines, stdin, stdout, closing, procVars>>

\* cmd.Wait closes the pipe: what the scanner has not read by then is lost.
waitLoop ==
    /\ proc = "exited"
    /\ proc' = "reaped"
    /\ \E n \in 0..Len(stdout) : stdout' = SubSeq(stdout, 1, n)
    /\ UNCHANGED <<callVars, muxVars, readVars, lines, scan, stdin, closing, asked, told, sent>>

Close ==
    /\ ~closing
    /\ closing' = TRUE
    /\ UNCHANGED <<callVars, muxVars, readVars, lines, scan, stdin, stdout, procVars>>

\* SIGTERM, then SIGKILL.
signalGroup ==
    /\ closing /\ proc = "up"
    /\ proc' = "exited"
    /\ UNCHANGED <<callVars, muxVars, readVars, connVars, asked, told, sent>>

-----------------------------------------------------------------------------
(* The process, and the callers' contexts *)

ProcReads ==
    /\ proc = "up" /\ stdin # <<>>
    /\ asked' = IF Head(stdin).kind = "request"
                THEN asked \cup {[id |-> Head(stdin).id, from |-> Head(stdin).from]} ELSE asked
    /\ stdin' = Tail(stdin)
    /\ UNCHANGED <<callVars, muxVars, readVars, lines, scan, stdout, closing, proc, told, sent>>

Says(m) ==
    /\ proc = "up"
    /\ seq + sent < MaxTraffic /\ sent' = sent + 1
    /\ Len(stdout) < Cap
    /\ stdout' = Append(stdout, m)
    /\ UNCHANGED <<callVars, muxVars, readVars, lines, scan, stdin, closing, proc, asked>>

Replies ==
    \E r \in asked :
        /\ Says([kind |-> "response", id |-> r.id, from |-> r.from, notes |-> told[r.from]])
        /\ UNCHANGED told

\* Progress is reported to a request that carried a token.
Notifies ==
    \E r \in asked, k \in {"progress", "event"} :
        /\ k = "progress" => token[r.from]
        /\ Says([kind |-> k, id |-> r.id, from |-> r.from])
        /\ told' = [told EXCEPT ![r.from] = @ + 1]

Requests == Says([kind |-> "request"]) /\ UNCHANGED told

Exit ==
    /\ proc = "up"
    /\ proc' = "exited"
    /\ UNCHANGED <<callVars, muxVars, readVars, connVars, asked, told, sent>>

Cancel(c) ==
    /\ ~ctx[c]
    /\ ctx' = [ctx EXCEPT ![c] = TRUE]
    /\ UNCHANGED <<pc, id, token, outcome, muxVars, readVars, connVars, procVars>>

-----------------------------------------------------------------------------

Call(c) ==
    \/ Register(c) \/ RefuseDead(c) \/ WriteRequest(c) \/ WriteErr(c)
    \/ Answered(c) \/ CtxDone(c) \/ Died(c)
    \/ LandedAnyway(c) \/ ReturnDead(c) \/ GivesUp(c) \/ WriteCancel(c)

readLoop == Read \/ routeResponse \/ routeNotification \/ RejectRequest \/ ReadErr

Process == ProcReads \/ Replies \/ Notifies \/ Requests \/ Exit

Next ==
    \/ \E c \in Caller : Start(c) \/ Call(c) \/ Cancel(c)
    \/ readLoop
    \/ stdoutLoop \/ ScanEOF \/ ScanErr \/ waitLoop \/ Close \/ signalGroup
    \/ Process

Spec == Init /\ [][Next]_vars

\* Goroutines that can step do.  Nothing is asked of the process.
FairSpec ==
    /\ Spec
    /\ \A c \in Caller : WF_vars(Call(c))
    /\ WF_vars(readLoop)
    /\ WF_vars(stdoutLoop) /\ WF_vars(ScanEOF) /\ WF_vars(waitLoop) /\ WF_vars(signalGroup)

-----------------------------------------------------------------------------
(* Properties *)

\* mux.go:31: whatever a call is given answers its own request, and so does
\* whatever readLoop is about to give it.
AnswerIsMine ==
    /\ \A c \in Caller : resp[c] # None => resp[c].from = c
    /\ held # None => held.msg.from = held.to

\* mux.go:147: no way out of Call leaves an entry behind.
NoLeak ==
    \A c \in Caller, i \in Ids :
        pc[c] \in {"idle", "register", "done"} => calls[i] # c /\ tokens[i] # c

\* mux.go:183: a call that reports the connection dead was never answered:
\* no response had landed, and none lands later.
LandedWins == \A c \in Caller : outcome[c] = "dead" => resp[c] = None

\* mux.go:99: by the time a call returns its answer, it has been given every
\* notification the server sent for it before that answer.
NotesBeforeAnswer ==
    \A c \in Caller : outcome[c] = "answer" => heard[c] >= resp[c].notes

\* mux.go:95: Close fails all calls in flight, whatever the process does.
CloseReleases ==
    \A c \in Caller : closing /\ pc[c] # "idle" ~> pc[c] = "done"

\* mux.go:98: Call blocks until its response, the end of its context or the
\* death of the connection, and no longer.
CancelReturns ==
    \A c \in Caller : ctx[c] /\ pc[c] # "idle" ~> pc[c] = "done"
=============================================================================
