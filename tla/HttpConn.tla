------------------------------ MODULE HttpConn ------------------------------
(***************************************************************************)
(* pkg/backend/http.go: a connection that is no connection.  Each Write    *)
(* starts an exchange, a goroutine that POSTs the message and puts what    *)
(* comes back in an inbox the mux's read loop reads.                       *)
(*                                                                         *)
(* A tools/call the server rejects because it lacks the headers that       *)
(* mirror its arguments (x-mcp-header) is reissued once, after a sweep of  *)
(* the server's tools/list has told which headers it needs.  Sweeps are    *)
(* serialised by refreshMu and counted by refreshGen.                      *)
(*                                                                         *)
(* A server rejects a call unless it carries the headers its tool wants;   *)
(* what its tools want does not change while the connection lives.  Legacy *)
(* backends, which have a session and want nothing mirrored, are left out. *)
(***************************************************************************)
EXTENDS Integers, FiniteSets

CONSTANTS
    Exchange,   \* messages written, each on an exchange of its own
    Tool,
    None,
    InboxCap,   \* the capacity of inbox, 64 in the code
    MaxPages,   \* annotationProbeMaxPages, 50
    Listings    \* how many pages the server's tools/list may have

ASSUME HttpAssumption ==
    /\ InboxCap \in Nat \ {0} /\ MaxPages \in Nat \ {0}
    /\ Listings \subseteq Nat \ {0}
    /\ None \notin Exchange \cup Tool \cup {"known", "same"}

VARIABLES
    wants,      \* server: the tools that want headers
    lastPage,   \* server: pages of tools/list
    pageOf,     \* server: the page each tool is on
    ex,         \* the exchange of each message
    gone,       \* its context has ended: the caller left, or its timeout passed
    inbox,      \* messages in inbox
    rd,         \* the mux's read loop
    closer,     \* where Close is
    closing,
    connDone,   \* connCtx is done
    learned,    \* conn.annotations: the tools present, and those with headers
    known,      \* annotationsKnown
    cooling,    \* annotationsTruncatedAt is recent
    refreshGen,
    holder,     \* the exchange that holds refreshMu
    page        \* the page its sweep is at

server == <<wants, lastPage, pageOf>>
conn == <<inbox, rd, closer, closing, connDone>>
schemas == <<learned, known, cooling, refreshGen>>
sweep == <<holder, page>>
vars == <<server, ex, gone, conn, schemas, sweep>>

KindOf == {"call", "list", "notification"}

\* verdict: why a rejected call is not reissued.  Histories: cold, that the
\* listing had not been read to its end when a call's headers were computed;
\* runs, how often the server has executed the request.
Fresh == [pc |-> "idle", kind |-> "call", tool |-> None, sent |-> FALSE, cold |-> FALSE, gen |-> 0,
          attempt |-> 0, retried |-> FALSE, verdict |-> None, runs |-> 0]

TypeOK ==
    /\ wants \subseteq Tool /\ lastPage \in Listings /\ pageOf \in [Tool -> 1 .. lastPage]
    /\ ex \in [Exchange ->
                [pc : {"idle", "admit", "sample", "gen", "post", "mismatch", "lock",
                       "sweep", "compare", "deliver", "stream", "done"},
                 kind : KindOf, tool : Tool \cup {None}, sent : BOOLEAN,
                 cold : BOOLEAN, gen : Nat, attempt : 0 .. 1, retried : BOOLEAN, runs : Nat,
                 verdict : {None, "known", "same"}]]
    /\ gone \subseteq Exchange
    /\ inbox \in 0 .. InboxCap
    /\ rd \in {"reading", "dead"}
    /\ closer \in {"open", "cancel", "drain", "drained", "gaveup"}
    /\ closing \in BOOLEAN /\ connDone \in BOOLEAN
    /\ learned \in [present : SUBSET Tool, mirrored : SUBSET Tool]
    /\ known \in BOOLEAN /\ cooling \in BOOLEAN /\ refreshGen \in Nat
    /\ holder \in Exchange \cup {None} /\ page \in 0 .. MaxPages

Init ==
    /\ wants \in SUBSET Tool /\ lastPage \in Listings /\ pageOf \in [Tool -> 1 .. lastPage]
    /\ ex = [e \in Exchange |-> Fresh] /\ gone = {}
    /\ inbox = 0 /\ rd = "reading"
    /\ closer = "open" /\ closing = FALSE /\ connDone = FALSE
    /\ learned = [present |-> {}, mirrored |-> {}]
    /\ known = FALSE /\ cooling = FALSE /\ refreshGen = 0
    /\ holder = None /\ page = 0

At(e, pc) == ex[e].pc = pc
Goes(e, pc) == ex' = [ex EXCEPT ![e].pc = pc]

\* An exchange is over: its answer is in the inbox, or there is to be none.
Over(e) == /\ ex' = [ex EXCEPT ![e] = [Fresh EXCEPT !.pc = "done"]]
           /\ gone' = gone \ {e}

\* What the exchange delivers is settled, and nothing else of it matters any
\* more: an answer, or the rejection of a call that is not reissued.
Settles(e, x) ==
    ex' = [ex EXCEPT ![e] = [Fresh EXCEPT !.pc = "deliver", !.runs = ex[e].runs + x]]
Declines(e, why) ==
    ex' = [ex EXCEPT ![e] = [Fresh EXCEPT !.pc = "deliver", !.tool = ex[e].tool,
              !.sent = ex[e].sent, !.cold = ex[e].cold, !.runs = ex[e].runs,
              !.verdict = why]]

InFlight(e) == ex[e].pc \notin {"idle", "admit", "done"}

\* The context of an exchange: its caller's, or its timeout, inside the conn's.
ctxDone(e) == e \in gone \/ connDone

IsRequest(e) == ex[e].kind # "notification"

\* fail: a request is answered with the error, a notification's is only logged.
Fails(e, x) ==
    IF IsRequest(e) THEN Settles(e, x) /\ UNCHANGED gone ELSE Over(e)

-----------------------------------------------------------------------------
(* Write *)

Write(e) ==
    /\ At(e, "idle") /\ ~connDone
    /\ \E k \in KindOf, t \in Tool :
          ex' = [ex EXCEPT ![e].pc = "admit", ![e].kind = k,
                           ![e].tool = IF k = "call" THEN t ELSE None]
    /\ UNCHANGED <<server, gone, conn, schemas, sweep>>

\* Mutant: admission rests on the look Write took at connCtx.
Admit_Unlatched(e) ==
    /\ At(e, "admit")
    /\ Goes(e, "sample")
    /\ UNCHANGED <<server, gone, conn, schemas, sweep>>

\* ErrConnDead once Close has come.
Admit(e) ==
    /\ At(e, "admit")
    /\ Goes(e, IF closing THEN "idle" ELSE "sample")
    /\ UNCHANGED <<server, gone, conn, schemas, sweep>>

-----------------------------------------------------------------------------
(* The exchange *)

paramHeadersFor(e) == ex[e].tool \in learned.mirrored

\* The start of roundTripOnce.
Sample(e) ==
    /\ At(e, "sample")
    /\ ex' = [ex EXCEPT ![e].pc = "gen", ![e].sent = paramHeadersFor(e),
                           ![e].cold = ex[e].tool # None /\ ~known]
    /\ UNCHANGED <<server, gone, conn, schemas, sweep>>

SampleGen(e) ==
    /\ At(e, "gen")
    /\ ex' = [ex EXCEPT ![e].pc = "post", ![e].gen = refreshGen]
    /\ UNCHANGED <<server, gone, conn, schemas, sweep>>

\* Mutant: a failed POST is tried again as a 401 is.
Lost_Retried(e) ==
    /\ At(e, "post") /\ ~ctxDone(e)
    /\ \E x \in {0, 1} :
          ex' = [ex EXCEPT ![e].pc = IF ex[e].attempt = 0 THEN "post" ELSE "deliver",
                           ![e].attempt = 1, ![e].runs = @ + x]
    /\ UNCHANGED <<server, gone, conn, schemas, sweep>>

\* The POST or the reading of its response fails, before or after the server
\* has executed the request.
Lost(e) ==
    /\ At(e, "post") /\ ~ctxDone(e)
    /\ \E x \in {0, 1} : Fails(e, x)
    /\ UNCHANGED <<server, conn, schemas, sweep>>

\* Any other status or content type than the ones below.
Rejected(e) ==
    /\ At(e, "post")
    /\ Fails(e, 0)
    /\ UNCHANGED <<server, conn, schemas, sweep>>

\* doWithAuthRetry: invalidate and try once more; a second 401 is delivered.
Unauthorized(e) ==
    /\ At(e, "post")
    /\ IF ex[e].attempt = 0 THEN ex' = [ex EXCEPT ![e].attempt = 1] /\ UNCHANGED gone
       ELSE Fails(e, 0)
    /\ UNCHANGED <<server, conn, schemas, sweep>>

\* The server rejects a call for its headers, rightly or not.
HeaderMismatch(e) ==
    /\ At(e, "post") /\ ex[e].kind = "call"
    /\ ex' = [ex EXCEPT ![e].pc = "mismatch", ![e].attempt = 0]
    /\ UNCHANGED <<server, gone, conn, schemas, sweep>>

\* The server executes a request that carries what its tool wants.
Accepts(e) == At(e, "post") /\ (ex[e].tool \in wants => ex[e].sent)

\* absorbToolsList: what a page says of its tools is added to what is known; a
\* page that mentions no annotation is not looked at.  Deleting the tools whose
\* annotations are invalid deletes nothing, as none has had valid ones before.
absorb(p) ==
    LET here == {t \in Tool : pageOf[t] = p} IN
    learned' = IF here \cap wants = {} THEN learned
               ELSE [present |-> learned.present \cup here,
                     mirrored |-> learned.mirrored \cup (here \cap wants)]

\* deliverBytes: a page of tools/list passes through on its way to a client.
Absorbs(e) ==
    IF ex[e].kind = "list" THEN \E p \in 1 .. lastPage : absorb(p) ELSE UNCHANGED learned

\* A JSON body, which is delivered whatever it answers.
Responds(e) ==
    /\ Accepts(e)
    /\ Settles(e, 1)
    /\ Absorbs(e)
    /\ UNCHANGED <<server, gone, conn, known, cooling, refreshGen, sweep>>

Streams(e) ==
    /\ Accepts(e)
    /\ ex' = [ex EXCEPT ![e] = [Fresh EXCEPT !.pc = "stream", !.kind = ex[e].kind,
                                             !.runs = ex[e].runs + 1]]
    /\ UNCHANGED <<server, gone, conn, schemas, sweep>>

\* pumpSSE: a notification, then the response or the failure of the stream.
StreamNote(e) ==
    /\ At(e, "stream")
    /\ IF connDone THEN UNCHANGED inbox
       ELSE inbox < InboxCap /\ inbox' = inbox + 1
    /\ UNCHANGED <<server, ex, gone, rd, closer, closing, connDone, schemas, sweep>>

StreamEnds(e) ==
    /\ At(e, "stream")
    /\ \/ Settles(e, 0) /\ Absorbs(e) /\ UNCHANGED gone
       \/ Fails(e, 0) /\ UNCHANGED learned
    /\ UNCHANGED <<server, conn, known, cooling, refreshGen, sweep>>

\* 202, or a body without the response: nothing is delivered.
EndsSilently(e) ==
    /\ At(e, "stream") \/ Accepts(e)
    /\ Over(e)
    /\ UNCHANGED <<server, conn, schemas, sweep>>

\* The context ends an exchange that is waiting for the server, unanswered.
Cut(e) ==
    /\ ex[e].pc \in {"post", "stream"} /\ ctxDone(e)
    /\ Over(e)
    /\ UNCHANGED <<server, conn, schemas, sweep>>

Put(e) ==
    /\ inbox < InboxCap
    /\ inbox' = inbox + 1
    /\ Over(e)

\* Mutant: deliver waits for room, whatever becomes of the conn.
Deliver_Stuck(e) ==
    /\ At(e, "deliver")
    /\ Put(e)
    /\ UNCHANGED <<server, rd, closer, closing, connDone, schemas, sweep>>

Deliver(e) ==
    /\ At(e, "deliver")
    /\ \/ Put(e)
       \/ connDone /\ Over(e) /\ UNCHANGED inbox
    /\ UNCHANGED <<server, rd, closer, closing, connDone, schemas, sweep>>

-----------------------------------------------------------------------------
(* The recovery from a header mismatch *)

\* The check that a sweep could tell nothing new, made on the rejection.
AlreadyRead(e) == known /\ (ex[e].tool \in learned.present \/ learned.present = {})

\* retryWithParamHeaders takes over, or the rejection is delivered.
retryWithParamHeaders(e) ==
    /\ At(e, "mismatch")
    /\ IF ~ex[e].retried /\ AlreadyRead(e) THEN Declines(e, "known")
       ELSE IF ex[e].retried \/ cooling THEN Settles(e, 0)
       ELSE Goes(e, "lock")
    /\ UNCHANGED <<server, gone, conn, schemas, sweep>>

\* refreshAnnotations, with refreshMu: another sweep's work is used.
UsesAnother(e) ==
    /\ At(e, "lock") /\ holder = None /\ refreshGen # ex[e].gen
    /\ Goes(e, "compare")
    /\ UNCHANGED <<server, gone, conn, schemas, sweep>>

StartSweep(e) ==
    /\ At(e, "lock") /\ holder = None /\ refreshGen = ex[e].gen
    /\ Goes(e, "sweep")
    /\ holder' = e /\ page' = 1
    /\ UNCHANGED <<server, gone, conn, schemas>>

\* probeToolsPage, with a page to follow.
SweepPage(e) ==
    /\ At(e, "sweep") /\ page < lastPage /\ page < MaxPages
    /\ absorb(page)
    /\ page' = page + 1
    /\ UNCHANGED <<server, ex, gone, conn, known, cooling, refreshGen, holder>>

SweepDone(e) ==
    /\ At(e, "sweep") /\ (page = lastPage \/ page = MaxPages)
    /\ absorb(page)
    /\ known' = (known \/ page = lastPage)
    /\ cooling' = (page # lastPage)
    /\ refreshGen' = refreshGen + 1
    /\ holder' = None /\ page' = 0
    /\ Goes(e, "compare")
    /\ UNCHANGED <<server, gone, conn>>

\* Mutant: a failed sweep is counted.
SweepFails_Counted(e) ==
    /\ At(e, "sweep")
    /\ refreshGen' = refreshGen + 1
    /\ holder' = None /\ page' = 0
    /\ Settles(e, 0)
    /\ UNCHANGED <<server, gone, conn, learned, known, cooling>>

\* A page cannot be had, or not in time; nothing is undone.
SweepFails(e) ==
    /\ At(e, "sweep")
    /\ holder' = None /\ page' = 0
    /\ Settles(e, 0)
    /\ UNCHANGED <<server, gone, conn, schemas>>

\* The reissue would be the same, or it is made.
Compare(e) ==
    /\ At(e, "compare")
    /\ IF paramHeadersFor(e) = ex[e].sent
          THEN Declines(e, "same")
          ELSE ex' = [ex EXCEPT ![e] = [Fresh EXCEPT !.pc = "sample", !.tool = ex[e].tool,
                                                    !.retried = TRUE, !.runs = ex[e].runs]]
    /\ UNCHANGED <<server, gone, conn, schemas, sweep>>

CooledDown ==
    /\ cooling
    /\ cooling' = FALSE
    /\ UNCHANGED <<server, ex, gone, conn, learned, known, refreshGen, sweep>>

-----------------------------------------------------------------------------
(* Read and Close *)

Read ==
    /\ rd = "reading"
    /\ IF inbox > 0
          THEN inbox' = inbox - 1 /\ UNCHANGED rd
          ELSE connDone /\ rd' = "dead" /\ UNCHANGED inbox
    /\ UNCHANGED <<server, ex, gone, closer, closing, connDone, schemas, sweep>>

Close ==
    /\ closer = "open"
    /\ closer' = "cancel" /\ closing' = TRUE
    /\ UNCHANGED <<server, ex, gone, inbox, rd, connDone, schemas, sweep>>

\* connCancel, and the session's DELETE, which cannot hold Close up for long.
ConnCancel ==
    /\ closer = "cancel"
    /\ closer' = "drain" /\ connDone' = TRUE
    /\ UNCHANGED <<server, ex, gone, inbox, rd, closing, schemas, sweep>>

\* awaitInflight: the exchanges are done, or the grace has passed.
awaitInflight ==
    /\ closer = "drain"
    /\ closer' = IF \E e \in Exchange : InFlight(e) THEN "gaveup" ELSE "drained"
    /\ UNCHANGED <<server, ex, gone, inbox, rd, closing, connDone, schemas, sweep>>

-----------------------------------------------------------------------------
(* The callers and the server *)

Leave(e) ==
    /\ InFlight(e) /\ e \notin gone
    /\ gone' = gone \cup {e}
    /\ UNCHANGED <<server, ex, conn, schemas, sweep>>

Answers(e) ==
    \/ Lost(e) \/ Rejected(e) \/ Unauthorized(e) \/ HeaderMismatch(e) \/ Responds(e)
    \/ EndsSilently(e) \/ Streams(e) \/ StreamNote(e) \/ StreamEnds(e)

Steps(e) ==
    \/ Admit(e) \/ Sample(e) \/ SampleGen(e) \/ Deliver(e)
    \/ retryWithParamHeaders(e) \/ UsesAnother(e) \/ StartSweep(e)
    \/ SweepFails(e) \/ Compare(e)

Next ==
    \/ \E e \in Exchange :
          \/ Write(e) \/ Steps(e) \/ Answers(e) \/ Cut(e) \/ Leave(e)
          \/ SweepPage(e) \/ SweepDone(e)
    \/ Read \/ Close \/ ConnCancel \/ awaitInflight \/ CooledDown

Spec == Init /\ [][Next]_vars

\* Goroutines that can step do, a sweep ends if only by its timeout, and a
\* request whose context is done is given up by the HTTP client.  The inbox
\* serves those that wait for room in their order.  Nothing is asked of the
\* server.
Fairness ==
    /\ \A e \in Exchange :
          WF_vars(Steps(e)) /\ WF_vars(Cut(e)) /\ SF_vars(Deliver(e))
    /\ WF_vars(Read) /\ WF_vars(ConnCancel) /\ WF_vars(awaitInflight)

FairSpec == Spec /\ Fairness

-----------------------------------------------------------------------------
(* Properties *)

\* http.go:197: once Close has reported its exchanges drained, none runs and
\* none starts, whatever Write was about when Close came.
Drained == closer = "drained" => \A e \in Exchange : ~InFlight(e)

\* http.go:303: however a request is retried, after a 401 or with other
\* headers, the server executes it at most once.
AtMostOnce == \A e \in Exchange : ex[e].runs <= 1

\* http.go:858 and 862: annotations are taken to be known only when every tool
\* that wants headers is known to, a listing cut off by the cap included; and of
\* the calls given up as beyond recovery (http.go:451 and 477) one that did not
\* carry what its tool wants has either a tool beyond the reach of a sweep, or
\* was declined at http.go:451 on a listing whose end was read after its headers
\* were computed.  A sweep that failed, or was cut off within the tool's page,
\* or began before the call was sent, is no reason.
HastyOnlyWhenCold ==
    /\ known => wants \subseteq learned.mirrored
    /\ \A e \in Exchange :
          ex[e].verdict # None /\ ex[e].tool \in wants /\ ~ex[e].sent =>
              \/ ex[e].verdict = "same" /\ pageOf[ex[e].tool] > MaxPages
              \/ ex[e].verdict = "known" /\ ex[e].cold

\* http.go:443, "If this tool's schema was already read, a missing Mcp-Param-*
\* cannot be the cause": this would leave no call declined in haste.  The code
\* does not give it, a cold call is: README, section 5.
KnownMeansSent ==
    \A e \in Exchange : ex[e].verdict = "known" /\ ex[e].tool \in wants => ex[e].sent

\* http.go:213: an exchange ends when its caller leaves or the conn closes, be
\* it waiting for the server, for a sweep or for room in the inbox.
ExchangesEnd == \A e \in Exchange : InFlight(e) /\ ctxDone(e) ~> ~InFlight(e)
=============================================================================
