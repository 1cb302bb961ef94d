--------------------------- MODULE HttpConnProofs ---------------------------
(***************************************************************************)
(* The safety of an HTTP connection, for any number of exchanges and       *)
(* tools, any listing and any cap on a sweep.                              *)
(*                                                                         *)
(* AtMostOnce needs that a request which may still be posted has not been  *)
(* executed.  HastyOnlyWhenCold needs what the marks of a sweep stand for: *)
(* annotationsKnown, that every tool is accounted for; a generation that   *)
(* has moved on since an exchange sampled it, that a sweep has ended and   *)
(* read every page it can reach; and, while one is under way, that the     *)
(* pages before the one it is at have been read.                           *)
(***************************************************************************)
EXTENDS HttpConn, TLAPS

PCs == {"idle", "admit", "sample", "gen", "post", "mismatch", "lock", "sweep", "compare",
        "deliver", "stream", "done"}

ExType ==
    [pc : PCs, kind : KindOf, tool : Tool \cup {None}, sent : BOOLEAN, cold : BOOLEAN, gen : Nat,
     attempt : 0 .. 1, retried : BOOLEAN, runs : Nat, verdict : {None, "known", "same"}]

\* A record in flight.
Flying(r) == r.pc \notin {"idle", "admit", "done"}

\* The tools on the pages up to p that want headers.
UpTo(p) == {t \in wants : pageOf[t] <= p}

\* Every tool that wants headers is known to; so is every one a sweep can reach.
Informed == wants \subseteq learned.mirrored
Reached == UpTo(MaxPages) \subseteq learned.mirrored

\* How often the server has executed the request, by where the exchange is.
Executed(r) ==
    /\ r.pc = "stream" => r.runs = 1
    /\ r.pc = "deliver" => r.runs \in {0, 1}
    /\ r.pc \notin {"stream", "deliver"} => r.runs = 0

\* An exchange compares only after a sweep that read what it can reach, and what
\* was declined is what was compared, or what was sent on a listing read or not.
Judged(r) ==
    /\ r.gen <= refreshGen
    /\ r.verdict # None => r.pc = "deliver"
    /\ r.pc = "compare" => Reached
    /\ r.verdict = "same" => (r.tool \in UpTo(MaxPages) => r.sent)
    /\ r.pc \in {"gen", "post", "mismatch"} \/ r.verdict = "known" =>
          (r.tool \in wants => r.sent \/ r.cold)

Exchanges == \A e \in Exchange : Executed(ex[e]) /\ Judged(ex[e])

\* refreshMu: one exchange sweeps, its page is one the server has, and those
\* before it have been read.
Sweeping ==
    /\ \A e \in Exchange : ex[e].pc = "sweep" <=> holder = e
    /\ holder # None => page \in 1 .. lastPage /\ UpTo(page - 1) \subseteq learned.mirrored

\* What a sweep that ended has left behind.
Learned ==
    /\ known => Informed
    /\ refreshGen > 0 => Reached

\* Close latches closing, and nothing is admitted behind it.
Latched ==
    /\ closing <=> closer # "open"
    /\ Drained

HttpInv == TypeOK /\ Exchanges /\ Sweeping /\ Learned /\ Latched

-----------------------------------------------------------------------------
(* One exchange moves *)

\* TypeOK, with the record set named.
LEMMA Types ==
    TypeOK <=>
    /\ wants \subseteq Tool /\ lastPage \in Listings /\ pageOf \in [Tool -> 1 .. lastPage]
    /\ ex \in [Exchange -> ExType]
    /\ gone \subseteq Exchange
    /\ inbox \in 0 .. InboxCap
    /\ rd \in {"reading", "dead"}
    /\ closer \in {"open", "cancel", "drain", "drained", "gaveup"}
    /\ closing \in BOOLEAN /\ connDone \in BOOLEAN
    /\ learned \in [present : SUBSET Tool, mirrored : SUBSET Tool]
    /\ known \in BOOLEAN /\ cooling \in BOOLEAN /\ refreshGen \in Nat
    /\ holder \in Exchange \cup {None} /\ page \in 0 .. MaxPages
BY DEF TypeOK, ExType, PCs

\* Annotations are only ever added to what has been learned.
Grows ==
    /\ learned' \in [present : SUBSET Tool, mirrored : SUBSET Tool]
    /\ learned.mirrored \subseteq learned'.mirrored

\* Exchange e becomes r, outside a sweep; nothing is admitted behind Close.
LEMMA OneMoves ==
    ASSUME HttpInv, NEW e \in Exchange, NEW r \in ExType,
           ex' = [ex EXCEPT ![e] = r],
           Executed(r), Judged(r),
           r.pc # "sweep", ex[e].pc # "sweep",
           Flying(r) => Flying(ex[e]) \/ ~closing,
           gone' \subseteq Exchange,
           inbox' \in 0 .. InboxCap,
           Grows,
           UNCHANGED <<server, rd, closer, closing, connDone, known, cooling, refreshGen, sweep>>
    PROVE  HttpInv'
<1>0. TypeOK /\ Exchanges /\ Sweeping /\ Learned /\ Latched
  BY DEF HttpInv
<1>1. /\ ex \in [Exchange -> ExType]
      /\ ex' \in [Exchange -> ExType]
      /\ ex'[e] = r /\ \A d \in Exchange \ {e} : ex'[d] = ex[d]
  BY <1>0, Types
<1>2. TypeOK'
  <2>1. /\ wants' \subseteq Tool /\ lastPage' \in Listings /\ pageOf' \in [Tool -> 1 .. lastPage']
        /\ rd' \in {"reading", "dead"}
        /\ closer' \in {"open", "cancel", "drain", "drained", "gaveup"}
        /\ closing' \in BOOLEAN /\ connDone' \in BOOLEAN
        /\ known' \in BOOLEAN /\ cooling' \in BOOLEAN /\ refreshGen' \in Nat
        /\ holder' \in Exchange \cup {None} /\ page' \in 0 .. MaxPages
    BY <1>0, Types DEF server, sweep
  <2>2. learned' \in [present : SUBSET Tool, mirrored : SUBSET Tool]
    BY DEF Grows
  <2>3. QED
    BY <1>1, <2>1, <2>2 DEF TypeOK, ExType, PCs
<1>3. Exchanges'
  <2>1. ASSUME NEW d \in Exchange PROVE Executed(ex[d])' /\ Judged(ex[d])'
    <3>1. Executed(ex'[d]) /\ Judged(ex'[d])
      BY <1>0, <1>1 DEF Exchanges
    <3>2. UNCHANGED <<wants, pageOf, refreshGen>>
      BY DEF server
    <3>3. Reached => Reached'
      BY <3>2 DEF Grows, Reached, UpTo
    <3>4. QED
      BY <3>1, <3>2, <3>3 DEF Executed, Judged, UpTo
  <2>2. QED
    BY <2>1 DEF Exchanges
<1>4. Sweeping'
  BY <1>0, <1>1 DEF Sweeping, sweep, server, Grows, UpTo
<1>5. Learned'
  BY <1>0 DEF Learned, Grows, Informed, Reached, UpTo, server
<1>6. Latched'
  <2>1. closer' = "drained" => closing
    BY <1>0 DEF Latched
  <2>2. ASSUME closer' = "drained", NEW d \in Exchange PROVE ~Flying(ex'[d])
    <3>1. \A x \in Exchange : ~Flying(ex[x])
      BY <1>0, <2>2 DEF Latched, Drained, InFlight, Flying
    <3>2. QED
      BY <1>1, <2>1, <2>2, <3>1
  <2>3. QED
    BY <1>0, <2>2 DEF Latched, Drained, InFlight, Flying
<1>7. QED
  BY <1>2, <1>3, <1>4, <1>5, <1>6 DEF HttpInv

\* What OneMoves asks of the rest of the connection when nothing moves there.
LEMMA Frame ==
    ASSUME HttpInv, UNCHANGED <<server, gone, conn, schemas, sweep>>
    PROVE  /\ gone' \subseteq Exchange
           /\ inbox' \in 0 .. InboxCap
           /\ Grows
           /\ UNCHANGED <<server, rd, closer, closing, connDone, known, cooling, refreshGen, sweep>>
BY DEF HttpInv, TypeOK, conn, schemas, Grows

\* A record that keeps its history and moves on, or starts over.
LEMMA PCShape ==
    ASSUME HttpInv, NEW e \in Exchange, NEW p \in PCs, Goes(e, p)
    PROVE  \E r \in ExType :
               /\ ex' = [ex EXCEPT ![e] = r]
               /\ r.pc = p /\ r.runs = ex[e].runs /\ r.gen = ex[e].gen
               /\ r.verdict = ex[e].verdict /\ r.tool = ex[e].tool /\ r.sent = ex[e].sent /\ r.cold = ex[e].cold
<1> DEFINE r == [ex[e] EXCEPT !.pc = p]
<1>1. ex[e] \in ExType
  BY Types DEF HttpInv
<1>2. /\ r \in ExType
      /\ r.pc = p /\ r.runs = ex[e].runs /\ r.gen = ex[e].gen
      /\ r.verdict = ex[e].verdict /\ r.tool = ex[e].tool /\ r.sent = ex[e].sent /\ r.cold = ex[e].cold
  BY <1>1 DEF ExType
<1>3. ex' = [ex EXCEPT ![e] = r]
  BY DEF Goes
<1>4. QED
  BY <1>2, <1>3

\* What an exchange is before it is written.
LEMMA FreshType ==
    /\ Fresh \in ExType
    /\ Fresh.pc = "idle" /\ Fresh.runs = 0 /\ Fresh.gen = 0 /\ Fresh.verdict = None
    /\ Fresh.tool = None
<1>1. /\ "idle" \in PCs /\ "call" \in KindOf /\ None \in Tool \cup {None} /\ FALSE \in BOOLEAN
      /\ 0 \in Nat /\ 0 \in 0 .. 1 /\ None \in {None, "known", "same"}
  BY DEF PCs, KindOf
<1>2. Fresh \in ExType
  BY <1>1, Zenon DEF Fresh, ExType
<1>3. QED
  BY <1>2, Zenon DEF Fresh

\* An exchange that is over starts from nothing.
LEMMA OverShape ==
    ASSUME HttpInv, NEW e \in Exchange, Over(e)
    PROVE  /\ gone' \subseteq Exchange
           /\ \E r \in ExType :
               /\ ex' = [ex EXCEPT ![e] = r]
               /\ r.pc = "done" /\ r.runs = 0 /\ r.gen = 0 /\ r.verdict = None
<1> DEFINE r == [Fresh EXCEPT !.pc = "done"]
<1>1. gone \subseteq Exchange
  BY Types DEF HttpInv
<1>2. r \in ExType /\ r.pc = "done" /\ r.runs = 0 /\ r.gen = 0 /\ r.verdict = None
  BY FreshType DEF ExType, PCs
<1>3. ex' = [ex EXCEPT ![e] = r] /\ gone' = gone \ {e}
  BY DEF Over
<1>4. QED
  BY <1>1, <1>2, <1>3

\* What is settled keeps how often it has been executed.
LEMMA SettledShape ==
    ASSUME HttpInv, NEW e \in Exchange, NEW x \in {0, 1}, Settles(e, x)
    PROVE  \E r \in ExType :
               /\ ex' = [ex EXCEPT ![e] = r]
               /\ r.pc = "deliver" /\ r.runs = ex[e].runs + x /\ r.gen = 0 /\ r.verdict = None
<1> DEFINE n == ex[e].runs + x
           r == [Fresh EXCEPT !.pc = "deliver", !.runs = n]
<1>1. ex[e] \in ExType
  BY Types DEF HttpInv
<1>2. n \in Nat
  BY <1>1 DEF ExType
<1>3. ex' = [ex EXCEPT ![e] = r]
  BY DEF Settles
<1> HIDE DEF n
<1>4. r \in ExType /\ r.pc = "deliver" /\ r.runs = n /\ r.gen = 0 /\ r.verdict = None
  BY <1>2, FreshType DEF ExType, PCs
<1>5. QED
  BY <1>3, <1>4 DEF n

\* What is declined keeps what it was sent with as well.
LEMMA DeclinedShape ==
    ASSUME HttpInv, NEW e \in Exchange, NEW why \in {"known", "same"}, Declines(e, why)
    PROVE  \E r \in ExType :
               /\ ex' = [ex EXCEPT ![e] = r]
               /\ r.pc = "deliver" /\ r.runs = ex[e].runs /\ r.gen = 0 /\ r.verdict = why
               /\ r.tool = ex[e].tool /\ r.sent = ex[e].sent /\ r.cold = ex[e].cold
<1> DEFINE r == [Fresh EXCEPT !.pc = "deliver", !.tool = ex[e].tool, !.sent = ex[e].sent,
                   !.cold = ex[e].cold, !.runs = ex[e].runs, !.verdict = why]
<1>1. ex[e] \in ExType
  BY Types DEF HttpInv
<1>2. ex' = [ex EXCEPT ![e] = r]
  BY DEF Declines
<1>3. /\ ex[e].tool \in Tool \cup {None} /\ ex[e].sent \in BOOLEAN /\ ex[e].cold \in BOOLEAN
      /\ ex[e].runs \in Nat
  BY <1>1 DEF ExType
<1>4. /\ r \in ExType
      /\ r.pc = "deliver" /\ r.runs = ex[e].runs /\ r.gen = 0 /\ r.verdict = why
      /\ r.tool = ex[e].tool /\ r.sent = ex[e].sent /\ r.cold = ex[e].cold
  BY <1>3, FreshType DEF ExType, PCs
<1>5. QED
  BY <1>2, <1>4

-----------------------------------------------------------------------------
(* The actions *)

\* What the invariant says of exchange e.
LEMMA Facts ==
    ASSUME HttpInv, NEW e \in Exchange
    PROVE  /\ TypeOK /\ ex[e] \in ExType /\ Executed(ex[e]) /\ Judged(ex[e])
           /\ refreshGen \in Nat
BY Types DEF HttpInv, Exchanges

\* Settling what has been executed once at most.
LEMMA SettleStep ==
    ASSUME HttpInv, NEW e \in Exchange, NEW x \in {0, 1}, Settles(e, x),
           ex[e].pc \in {"post", "mismatch", "stream"},
           ex[e].pc = "stream" => x = 0,
           gone' \subseteq Exchange, inbox' \in 0 .. InboxCap, Grows,
           UNCHANGED <<server, rd, closer, closing, connDone, known, cooling, refreshGen, sweep>>
    PROVE  HttpInv'
<1>v. None \notin {"known", "same"}
  BY HttpAssumption
<1>1. PICK r \in ExType :
        /\ ex' = [ex EXCEPT ![e] = r]
        /\ r.pc = "deliver" /\ r.runs = ex[e].runs + x /\ r.gen = 0 /\ r.verdict = None
  BY SettledShape
<1>2. Executed(ex[e]) /\ refreshGen \in Nat
  BY Facts
<1>3. Executed(r)
  BY <1>1, <1>2 DEF Executed
<1>4. Judged(r)
  BY <1>v, <1>1, <1>2 DEF Judged
<1>5. Flying(ex[e]) /\ r.pc # "sweep" /\ ex[e].pc # "sweep"
  BY <1>1 DEF Flying
<1>6. QED
  BY <1>1, <1>3, <1>4, <1>5, OneMoves

\* Declining what carried what it should have, as far as could be known.
LEMMA DeclineStep ==
    ASSUME HttpInv, NEW e \in Exchange, NEW why \in {"known", "same"}, Declines(e, why),
           ex[e].pc \in {"mismatch", "compare"},
           why = "same" => (ex[e].tool \in UpTo(MaxPages) => ex[e].sent),
           why = "known" => (ex[e].tool \in wants => ex[e].sent \/ ex[e].cold),
           UNCHANGED <<server, gone, conn, schemas, sweep>>
    PROVE  HttpInv'
<1>1. PICK r \in ExType :
        /\ ex' = [ex EXCEPT ![e] = r]
        /\ r.pc = "deliver" /\ r.runs = ex[e].runs /\ r.gen = 0 /\ r.verdict = why
        /\ r.tool = ex[e].tool /\ r.sent = ex[e].sent /\ r.cold = ex[e].cold
  BY DeclinedShape
<1>2. Executed(ex[e]) /\ refreshGen \in Nat
  BY Facts
<1>3. Executed(r)
  BY <1>1, <1>2 DEF Executed
<1>4. Judged(r)
  BY <1>1, <1>2 DEF Judged
<1>5. Flying(ex[e]) /\ r.pc # "sweep" /\ ex[e].pc # "sweep"
  BY <1>1 DEF Flying
<1>6. QED
  BY <1>1, <1>3, <1>4, <1>5, Frame, OneMoves

\* An exchange that was in flight is over.
LEMMA OverStep ==
    ASSUME HttpInv, NEW e \in Exchange, Over(e), ex[e].pc # "sweep",
           inbox' \in 0 .. InboxCap,
           UNCHANGED <<server, rd, closer, closing, connDone, schemas, sweep>>
    PROVE  HttpInv'
<1>1. gone' \subseteq Exchange
      /\ \E r \in ExType :
            /\ ex' = [ex EXCEPT ![e] = r]
            /\ r.pc = "done" /\ r.runs = 0 /\ r.gen = 0 /\ r.verdict = None
  BY OverShape
<1>2. PICK r \in ExType :
            /\ ex' = [ex EXCEPT ![e] = r]
            /\ r.pc = "done" /\ r.runs = 0 /\ r.gen = 0 /\ r.verdict = None
  BY <1>1
<1>3. Executed(r) /\ ~Flying(r) /\ r.pc # "sweep"
  BY <1>2 DEF Executed, Flying
<1>4. refreshGen \in Nat /\ TypeOK
  BY Facts
<1>5. Judged(r)
  BY <1>2, <1>4, HttpAssumption DEF Judged
<1>6. Grows /\ UNCHANGED <<known, cooling, refreshGen>>
  BY <1>4 DEF Grows, schemas, TypeOK
<1>7. QED
  BY <1>1, <1>2, <1>3, <1>5, <1>6, OneMoves

\* A failure is answered, or logged.
LEMMA FailStep ==
    ASSUME HttpInv, NEW e \in Exchange, NEW x \in {0, 1}, Fails(e, x),
           ex[e].pc \in {"post", "stream"}, ex[e].pc = "stream" => x = 0,
           UNCHANGED <<server, conn, schemas, sweep>>
    PROVE  HttpInv'
<1>1. CASE Settles(e, x) /\ UNCHANGED gone
  BY <1>1, Frame, SettleStep
<1>2. CASE Over(e)
  <2>1. inbox' \in 0 .. InboxCap
    BY DEF HttpInv, TypeOK, conn
  <2>2. QED
    BY <1>2, <2>1, OverStep DEF conn
<1>3. QED
  BY <1>1, <1>2 DEF Fails

\* A move that changes nothing but where the exchange is.
LEMMA GoStep ==
    ASSUME HttpInv, NEW e \in Exchange, NEW p \in PCs, Goes(e, p),
           p \notin {"stream", "deliver", "sweep", "gen", "post", "mismatch"},
           ex[e].pc \notin {"stream", "deliver", "sweep"},
           p = "compare" => Reached,
           p \in {"idle", "admit"} \/ Flying(ex[e]) \/ ~closing,
           UNCHANGED <<server, gone, conn, schemas, sweep>>
    PROVE  HttpInv'
<1>v. None \notin {"known", "same"}
  BY HttpAssumption
<1>1. PICK r \in ExType :
        /\ ex' = [ex EXCEPT ![e] = r]
        /\ r.pc = p /\ r.runs = ex[e].runs /\ r.gen = ex[e].gen
        /\ r.verdict = ex[e].verdict /\ r.tool = ex[e].tool /\ r.sent = ex[e].sent /\ r.cold = ex[e].cold
  BY PCShape
<1>2. Executed(ex[e]) /\ Judged(ex[e])
  BY Facts
<1>3. Executed(r)
  BY <1>1, <1>2 DEF Executed
<1>4. Judged(r)
  BY <1>v, <1>1, <1>2 DEF Judged
<1>5. Flying(r) => Flying(ex[e]) \/ ~closing
  BY <1>1 DEF Flying
<1>6. QED
  BY <1>1, <1>3, <1>4, <1>5, Frame, OneMoves

\* From Write to the POST.
LEMMA SendingSteps ==
    ASSUME HttpInv, NEW e \in Exchange,
           Write(e) \/ Admit(e) \/ Sample(e) \/ SampleGen(e) \/ HeaderMismatch(e)
    PROVE  HttpInv'
<1>0. TypeOK /\ ex[e] \in ExType /\ Executed(ex[e]) /\ Judged(ex[e]) /\ refreshGen \in Nat
      /\ ex \in [Exchange -> ExType] /\ UNCHANGED <<server, gone, conn, schemas, sweep>>
  BY Facts, Types DEF Write, Admit, Sample, SampleGen, HeaderMismatch
<1>v. None \notin {"known", "same"}
  BY HttpAssumption
<1>1. CASE Write(e)
  <2>1. PICK k \in KindOf, t \in Tool :
          ex' = [ex EXCEPT ![e].pc = "admit", ![e].kind = k,
                           ![e].tool = IF k = "call" THEN t ELSE None]
    BY <1>1 DEF Write
  <2> DEFINE u == IF k = "call" THEN t ELSE None
             r == [ex[e] EXCEPT !.pc = "admit", !.kind = k, !.tool = u]
  <2>2. ex' = [ex EXCEPT ![e] = r]
    BY <1>0, <2>1, Zenon
  <2>3. u \in Tool \cup {None} /\ ex[e].pc = "idle"
    BY <1>1 DEF Write, At
  <2> HIDE DEF u
  <2>4. r \in ExType /\ r.pc = "admit" /\ r.runs = ex[e].runs /\ r.gen = ex[e].gen
        /\ r.verdict = ex[e].verdict
    BY <1>0, <2>3 DEF ExType, PCs
  <2>5. Executed(r)
    BY <1>0, <2>3, <2>4 DEF Executed
  <2>6. Judged(r)
    BY <1>0, <1>v, <2>3, <2>4 DEF Judged
  <2>7. ~Flying(r) /\ r.pc # "sweep" /\ ex[e].pc # "sweep"
    BY <2>3, <2>4 DEF Flying
  <2>8. QED
    BY <1>0, <2>2, <2>4, <2>5, <2>6, <2>7, Frame, OneMoves
<1>2. CASE Admit(e)
  BY <1>0, <1>2, GoStep DEF Admit, At, PCs
<1>3. CASE Sample(e)
  <2> DEFINE b == paramHeadersFor(e)
             c == ex[e].tool # None /\ ~known
             r == [ex[e] EXCEPT !.pc = "gen", !.sent = b, !.cold = c]
  <2>1. b \in BOOLEAN /\ c \in BOOLEAN /\ ex[e].pc = "sample"
    BY <1>3 DEF paramHeadersFor, Sample, At
  <2>2. ex' = [ex EXCEPT ![e] = r]
    BY <1>0, <1>3, Zenon DEF Sample
  <2>c. ex[e].tool \in wants => b \/ c
    <3>1. None \notin wants /\ (known => Informed)
      BY <1>0, HttpAssumption DEF HttpInv, TypeOK, Learned
    <3>2. QED
      BY <3>1 DEF paramHeadersFor, Informed
  <2> HIDE DEF b, c
  <2>3. r \in ExType /\ r.pc = "gen" /\ r.runs = ex[e].runs /\ r.gen = ex[e].gen
        /\ r.verdict = ex[e].verdict /\ r.tool = ex[e].tool /\ r.sent = b /\ r.cold = c
    BY <1>0, <2>1 DEF ExType, PCs
  <2>4. Executed(r)
    BY <1>0, <2>1, <2>3 DEF Executed
  <2>5. Judged(r)
    BY <1>0, <1>v, <2>1, <2>c, <2>3 DEF Judged
  <2>6. Flying(ex[e]) /\ r.pc # "sweep" /\ ex[e].pc # "sweep"
    BY <2>1, <2>3 DEF Flying
  <2>7. QED
    BY <1>0, <2>2, <2>3, <2>4, <2>5, <2>6, Frame, OneMoves
<1>4. CASE SampleGen(e)
  <2> DEFINE r == [ex[e] EXCEPT !.pc = "post", !.gen = refreshGen]
  <2>1. ex[e].pc = "gen" /\ ex' = [ex EXCEPT ![e] = r]
    BY <1>0, <1>4, Zenon DEF SampleGen, At
  <2>2. r \in ExType /\ r.pc = "post" /\ r.runs = ex[e].runs /\ r.gen = refreshGen
        /\ r.verdict = ex[e].verdict /\ r.tool = ex[e].tool /\ r.sent = ex[e].sent
        /\ r.cold = ex[e].cold
    <3>1. "post" \in PCs
      BY DEF PCs
    <3>2. QED
      BY <1>0, <3>1, Zenon DEF ExType
  <2>3. Executed(r)
    BY <1>0, <2>1, <2>2 DEF Executed
  <2>4. Judged(r)
    BY <1>0, <1>v, <2>1, <2>2 DEF Judged
  <2>5. Flying(ex[e]) /\ r.pc # "sweep" /\ ex[e].pc # "sweep"
    BY <2>1, <2>2 DEF Flying
  <2>6. QED
    BY <1>0, <2>1, <2>2, <2>3, <2>4, <2>5, Frame, OneMoves
<1>5. CASE HeaderMismatch(e)
  <2> DEFINE r == [ex[e] EXCEPT !.pc = "mismatch", !.attempt = 0]
  <2>1. ex[e].pc = "post" /\ ex' = [ex EXCEPT ![e] = r]
    BY <1>0, <1>5, Zenon DEF HeaderMismatch, At
  <2>2. r \in ExType /\ r.pc = "mismatch" /\ r.runs = ex[e].runs /\ r.gen = ex[e].gen
        /\ r.verdict = ex[e].verdict /\ r.tool = ex[e].tool /\ r.sent = ex[e].sent
        /\ r.cold = ex[e].cold
    <3>1. "mismatch" \in PCs /\ 0 \in 0 .. 1
      BY DEF PCs
    <3>2. QED
      BY <1>0, <3>1, Zenon DEF ExType
  <2>3. Executed(r)
    BY <1>0, <2>1, <2>2 DEF Executed
  <2>4. Judged(r)
    BY <1>0, <1>v, <2>1, <2>2 DEF Judged
  <2>5. Flying(ex[e]) /\ r.pc # "sweep" /\ ex[e].pc # "sweep"
    BY <2>1, <2>2 DEF Flying
  <2>6. QED
    BY <1>0, <2>1, <2>2, <2>3, <2>4, <2>5, Frame, OneMoves
<1>6. QED
  BY <1>1, <1>2, <1>3, <1>4, <1>5

\* A page of tools/list only adds to what is known, and read after those before
\* it, it leaves the tools up to its end known.
LEMMA AbsorbGrows ==
    ASSUME HttpInv, NEW p \in Nat, absorb(p)
    PROVE  Grows /\ (UpTo(p - 1) \subseteq learned.mirrored => UpTo(p) \subseteq learned'.mirrored)
<1>1. /\ wants \subseteq Tool /\ learned \in [present : SUBSET Tool, mirrored : SUBSET Tool]
      /\ \A t \in Tool : pageOf[t] \in Nat
  BY HttpAssumption DEF HttpInv, TypeOK
<1> DEFINE here == {t \in Tool : pageOf[t] = p}
<1>2. UpTo(p) \subseteq UpTo(p - 1) \cup (here \cap wants)
  BY <1>1 DEF UpTo
<1>3. /\ learned' \in [present : SUBSET Tool, mirrored : SUBSET Tool]
      /\ learned'.mirrored = learned.mirrored \cup (here \cap wants)
  <2>1. CASE here \cap wants = {}
    <3>1. learned' = learned
      BY <2>1 DEF absorb
    <3>2. QED
      BY <1>1, <2>1, <3>1
  <2>2. CASE here \cap wants # {}
    <3>1. learned' = [present |-> learned.present \cup here,
                      mirrored |-> learned.mirrored \cup (here \cap wants)]
      BY <2>2 DEF absorb
    <3>2. QED
      BY <1>1, <3>1
  <2>3. QED
    BY <2>1, <2>2
<1>4. QED
  BY <1>2, <1>3 DEF Grows

\* What a client's own listing says is added too, or nothing is.
LEMMA AbsorbsGrow ==
    ASSUME HttpInv, NEW e \in Exchange, Absorbs(e)
    PROVE  Grows
<1>1. CASE \E p \in 1 .. lastPage : absorb(p)
  <2>1. PICK p \in 1 .. lastPage : absorb(p)
    BY <1>1
  <2>2. p \in Nat
    BY HttpAssumption DEF HttpInv, TypeOK
  <2>3. QED
    BY <2>1, <2>2, AbsorbGrows
<1>2. CASE UNCHANGED learned
  BY <1>2 DEF HttpInv, TypeOK, Grows
<1>3. QED
  BY <1>1, <1>2 DEF Absorbs

\* What comes of a POST at once, and of a stream at its end.
LEMMA AnswerSteps ==
    ASSUME HttpInv, NEW e \in Exchange,
           \/ Lost(e) \/ Rejected(e) \/ Unauthorized(e) \/ Responds(e)
           \/ Streams(e) \/ StreamEnds(e)
    PROVE  HttpInv'
<1>0. TypeOK /\ ex[e] \in ExType /\ Executed(ex[e]) /\ Judged(ex[e]) /\ refreshGen \in Nat
      /\ ex \in [Exchange -> ExType]
  BY Facts, Types
<1>v. None \notin {"known", "same"}
  BY HttpAssumption
<1>1. CASE Lost(e) \/ Rejected(e)
  <2>1. /\ ex[e].pc = "post" /\ \E x \in {0, 1} : Fails(e, x)
        /\ UNCHANGED <<server, conn, schemas, sweep>>
    BY <1>1 DEF Lost, Rejected, At
  <2>2. QED
    BY <2>1, FailStep
<1>2. CASE Unauthorized(e)
  <2>0. ex[e].pc = "post" /\ UNCHANGED <<server, conn, schemas, sweep>>
    BY <1>2 DEF Unauthorized, At
  <2>1. CASE ex[e].attempt = 0
    <3> DEFINE r == [ex[e] EXCEPT !.attempt = 1]
    <3>1. ex' = [ex EXCEPT ![e] = r] /\ UNCHANGED gone
      BY <1>0, <1>2, <2>1, Zenon DEF Unauthorized
    <3>2. r \in ExType /\ r.pc = "post" /\ r.runs = ex[e].runs /\ r.gen = ex[e].gen
          /\ r.verdict = ex[e].verdict /\ r.tool = ex[e].tool /\ r.sent = ex[e].sent
          /\ r.cold = ex[e].cold
      BY <1>0, <2>0 DEF ExType
    <3>3. Executed(r)
      BY <1>0, <2>0, <3>2 DEF Executed
    <3>4. Judged(r)
      BY <1>0, <1>v, <2>0, <3>2 DEF Judged
    <3>5. Flying(ex[e]) /\ r.pc # "sweep" /\ ex[e].pc # "sweep"
      BY <2>0, <3>2 DEF Flying
    <3>6. QED
      BY <2>0, <3>1, <3>2, <3>3, <3>4, <3>5, Frame, OneMoves
  <2>2. CASE ex[e].attempt # 0
    <3>1. Fails(e, 0)
      BY <1>2, <2>2 DEF Unauthorized
    <3>2. QED
      BY <2>0, <3>1, FailStep
  <2>3. QED
    BY <2>1, <2>2
<1>3. CASE Responds(e) \/ StreamEnds(e)
  <2>1. CASE Fails(e, 0) /\ UNCHANGED learned /\ StreamEnds(e)
    BY <2>1, FailStep DEF StreamEnds, At, schemas
  <2>2. CASE \E x \in {0, 1} : Settles(e, x) /\ (ex[e].pc = "stream" => x = 0) /\ Absorbs(e)
                               /\ UNCHANGED gone
    <3>1. PICK x \in {0, 1} : Settles(e, x) /\ (ex[e].pc = "stream" => x = 0)
      BY <2>2
    <3>2. ex[e].pc \in {"post", "stream"}
      BY <1>3 DEF Responds, StreamEnds, Accepts, At
    <3>3. Grows
      BY <2>2, AbsorbsGrow
    <3>4. /\ gone' \subseteq Exchange
          /\ inbox' \in 0 .. InboxCap
          /\ UNCHANGED <<server, rd, closer, closing, connDone, known, cooling, refreshGen, sweep>>
      BY <1>0, <1>3, <2>2 DEF Responds, StreamEnds, TypeOK, conn
    <3>5. QED
      BY <3>1, <3>2, <3>3, <3>4, SettleStep
  <2>3. QED
    BY <1>3, <2>1, <2>2 DEF Responds, StreamEnds, Accepts, At
<1>4. CASE Streams(e)
  <2> DEFINE n == ex[e].runs + 1
             k == ex[e].kind
             r == [Fresh EXCEPT !.pc = "stream", !.kind = k, !.runs = n]
  <2>0. ex[e].pc = "post" /\ UNCHANGED <<server, gone, conn, schemas, sweep>>
    BY <1>4 DEF Streams, Accepts, At
  <2>1. ex' = [ex EXCEPT ![e] = r]
    BY <1>0, <1>4, Zenon DEF Streams
  <2>2. n = 1 /\ k \in KindOf
    BY <1>0, <2>0 DEF Executed, ExType
  <2> HIDE DEF n, k
  <2>3. r \in ExType /\ r.pc = "stream" /\ r.runs = n /\ r.gen = 0 /\ r.verdict = None
    BY <2>2, FreshType DEF ExType, PCs
  <2>4. Executed(r)
    BY <2>2, <2>3 DEF Executed
  <2>5. Judged(r)
    BY <1>0, <1>v, <2>0, <2>3 DEF Judged
  <2>6. Flying(ex[e]) /\ r.pc # "sweep" /\ ex[e].pc # "sweep"
    BY <2>0, <2>3 DEF Flying
  <2>7. QED
    BY <2>0, <2>1, <2>3, <2>4, <2>5, <2>6, Frame, OneMoves
<1>5. QED
  BY <1>1, <1>2, <1>3, <1>4

\* The end of an exchange, with an answer or without one.
LEMMA EndSteps ==
    ASSUME HttpInv, NEW e \in Exchange, EndsSilently(e) \/ Cut(e) \/ Deliver(e)
    PROVE  HttpInv'
<1>1. Over(e) /\ ex[e].pc # "sweep"
  BY DEF EndsSilently, Cut, Deliver, Put, At, Accepts
<1>2. /\ inbox' \in 0 .. InboxCap
      /\ UNCHANGED <<server, rd, closer, closing, connDone, schemas, sweep>>
  <2>0. inbox \in 0 .. InboxCap /\ InboxCap \in Nat
    BY HttpAssumption DEF HttpInv, TypeOK
  <2>1. CASE EndsSilently(e) \/ Cut(e)
    BY <2>0, <2>1 DEF EndsSilently, Cut, conn
  <2>2. CASE Deliver(e)
    BY <2>0, <2>2 DEF Deliver, Put
  <2>3. QED
    BY <2>1, <2>2
<1>3. QED
  BY <1>1, <1>2, OverStep

-----------------------------------------------------------------------------
(* The recovery from a header mismatch *)

\* A rejected call is given up, or waits for a sweep, or uses one that ended
\* since it sampled the generation.
LEMMA RecoverySteps ==
    ASSUME HttpInv, NEW e \in Exchange, retryWithParamHeaders(e) \/ UsesAnother(e) \/ Compare(e)
    PROVE  HttpInv'
<1>0. TypeOK /\ ex[e] \in ExType /\ Executed(ex[e]) /\ Judged(ex[e]) /\ refreshGen \in Nat
      /\ ex \in [Exchange -> ExType] /\ UNCHANGED <<server, gone, conn, schemas, sweep>>
  BY Facts, Types DEF retryWithParamHeaders, UsesAnother, Compare
<1>v. None \notin {"known", "same"}
  BY HttpAssumption
<1>f. /\ gone' \subseteq Exchange
      /\ inbox' \in 0 .. InboxCap
      /\ Grows
      /\ UNCHANGED <<server, rd, closer, closing, connDone, known, cooling, refreshGen, sweep>>
  BY <1>0, Frame
<1>1. CASE retryWithParamHeaders(e)
  <2>1. ex[e].pc = "mismatch"
        /\ (Declines(e, "known") \/ Settles(e, 0) \/ Goes(e, "lock"))
    BY <1>1 DEF retryWithParamHeaders, At
  <2>2. CASE Declines(e, "known")
    <3>1. ex[e].tool \in wants => ex[e].sent \/ ex[e].cold
      BY <1>0, <2>1 DEF Judged
    <3>2. QED
      BY <1>0, <2>1, <2>2, <3>1, DeclineStep
  <2>3. CASE Settles(e, 0)
    BY <1>f, <2>1, <2>3, SettleStep
  <2>4. CASE Goes(e, "lock")
    BY <1>0, <2>1, <2>4, GoStep DEF PCs, Flying
  <2>5. QED
    BY <2>1, <2>2, <2>3, <2>4
<1>2. CASE UsesAnother(e)
  <2>1. ex[e].pc = "lock" /\ refreshGen # ex[e].gen /\ Goes(e, "compare")
    BY <1>2 DEF UsesAnother, At
  <2>2. refreshGen > 0
    BY <1>0, <2>1 DEF Judged, ExType
  <2>3. Reached
    BY <2>2 DEF HttpInv, Learned
  <2>4. QED
    BY <1>0, <2>1, <2>3, GoStep DEF PCs, Flying
<1>3. CASE Compare(e)
  <2>1. ex[e].pc = "compare" /\ Reached
    BY <1>0, <1>3 DEF Compare, At, Judged
  <2>2. CASE paramHeadersFor(e) = ex[e].sent
    <3>1. Declines(e, "same")
      BY <1>3, <2>2 DEF Compare
    <3>2. ex[e].tool \in UpTo(MaxPages) => ex[e].sent
      BY <2>1, <2>2 DEF Reached, paramHeadersFor
    <3>3. QED
      BY <1>0, <2>1, <3>1, <3>2, DeclineStep
  <2>3. CASE paramHeadersFor(e) # ex[e].sent
    <3> DEFINE t == ex[e].tool
               n == ex[e].runs
               r == [Fresh EXCEPT !.pc = "sample", !.tool = t, !.retried = TRUE, !.runs = n]
    <3>1. ex' = [ex EXCEPT ![e] = r]
      BY <1>0, <1>3, <2>3, Zenon DEF Compare
    <3>t. t \in Tool \cup {None} /\ n \in Nat /\ n = ex[e].runs
      BY <1>0 DEF ExType
    <3> HIDE DEF t, n
    <3>2. r \in ExType /\ r.pc = "sample" /\ r.runs = ex[e].runs /\ r.gen = 0
          /\ r.verdict = None
      BY <3>t, FreshType DEF ExType, PCs
    <3>3. Executed(r)
      BY <1>0, <2>1, <3>2 DEF Executed
    <3>4. Judged(r)
      BY <1>0, <1>v, <2>1, <3>2 DEF Judged
    <3>5. Flying(ex[e]) /\ r.pc # "sweep" /\ ex[e].pc # "sweep"
      BY <2>1, <3>2 DEF Flying
    <3>6. QED
      BY <1>f, <3>1, <3>2, <3>3, <3>4, <3>5, OneMoves
  <2>4. QED
    BY <2>2, <2>3
<1>4. QED
  BY <1>1, <1>2, <1>3

\* An exchange takes refreshMu, or gives it back: sweeping is one exchange's
\* at a time.  A sweep that ends counts once it has read what it could.
LEMMA SweepMoves ==
    ASSUME HttpInv, NEW e \in Exchange, NEW r \in ExType, ex' = [ex EXCEPT ![e] = r],
           Executed(r), r.verdict # None => r.pc = "deliver",
           r.verdict # "same",
           r.gen <= refreshGen,
           r.pc = "compare" => UpTo(MaxPages) \subseteq learned'.mirrored,
           r.pc \notin {"gen", "post", "mismatch"}, r.verdict # "known",
           Flying(ex[e]),
           \/ r.pc = "sweep" /\ holder = None /\ holder' = e /\ page' = 1
           \/ r.pc # "sweep" /\ ex[e].pc = "sweep" /\ holder' = None /\ page' = 0,
           Grows,
           refreshGen' \in Nat, refreshGen' >= refreshGen,
           known' \in BOOLEAN, cooling' \in BOOLEAN,
           known' => wants \subseteq learned'.mirrored,
           refreshGen' > 0 => UpTo(MaxPages) \subseteq learned'.mirrored,
           UNCHANGED <<server, gone, conn>>
    PROVE  HttpInv'
<1>0. TypeOK /\ Exchanges /\ Sweeping /\ Learned /\ Latched
  BY DEF HttpInv
<1>1. /\ ex \in [Exchange -> ExType]
      /\ ex' \in [Exchange -> ExType]
      /\ ex'[e] = r /\ \A d \in Exchange \ {e} : ex'[d] = ex[d]
  BY <1>0, Types
<1>2. TypeOK'
  <2>1. /\ wants' \subseteq Tool /\ lastPage' \in Listings /\ pageOf' \in [Tool -> 1 .. lastPage']
        /\ gone' \subseteq Exchange
        /\ inbox' \in 0 .. InboxCap
        /\ rd' \in {"reading", "dead"}
        /\ closer' \in {"open", "cancel", "drain", "drained", "gaveup"}
        /\ closing' \in BOOLEAN /\ connDone' \in BOOLEAN
    BY <1>0, Types DEF server, conn
  <2>2. holder' \in Exchange \cup {None} /\ page' \in 0 .. MaxPages
    BY HttpAssumption
  <2>3. QED
    BY <1>1, <2>1, <2>2 DEF TypeOK, ExType, PCs, Grows
<1>3. Exchanges'
  <2>0. UNCHANGED <<wants, pageOf>> /\ (Reached => Reached') /\ refreshGen \in Nat
    BY <1>0, Types DEF server, Grows, Reached, UpTo
  <2>1. ASSUME NEW d \in Exchange \ {e} PROVE Executed(ex[d])' /\ Judged(ex[d])'
    <3>1. Executed(ex[d]) /\ Judged(ex[d]) /\ ex'[d] = ex[d] /\ ex[d].gen \in Nat
      BY <1>0, <1>1 DEF Exchanges, ExType
    <3>2. QED
      BY <2>0, <3>1 DEF Executed, Judged, UpTo
  <2>2. Executed(ex[e])' /\ Judged(ex[e])'
    <3>1. r.gen \in Nat
      BY DEF ExType
    <3>2. QED
      BY <1>1, <2>0, <3>1 DEF Executed, Judged, Reached, UpTo
  <2>3. QED
    BY <2>1, <2>2 DEF Exchanges
<1>4. Sweeping'
  <2>1. e # None /\ 1 \in 1 .. lastPage'
    <3>1. lastPage \in Nat \ {0}
      BY <1>0, HttpAssumption DEF TypeOK
    <3>2. QED
      BY <3>1, HttpAssumption DEF server
  <2>2. CASE r.pc = "sweep" /\ holder = None /\ holder' = e /\ page' = 1
    <3>1. \A d \in Exchange \ {e} : ex[d].pc # "sweep"
      BY <1>0, <2>2, HttpAssumption DEF Sweeping
    <3>2. UpTo(page - 1)' = {}
      <4>1. \A t \in wants' : pageOf'[t] \in Nat /\ pageOf'[t] >= 1
        BY <1>2, HttpAssumption DEF TypeOK
      <4>2. QED
        BY <2>2, <4>1 DEF UpTo
    <3>3. QED
      BY <1>1, <2>1, <2>2, <3>1, <3>2 DEF Sweeping
  <2>3. CASE r.pc # "sweep" /\ ex[e].pc = "sweep" /\ holder' = None /\ page' = 0
    <3>1. holder = e
      BY <1>0, <2>3 DEF Sweeping
    <3>2. \A d \in Exchange \ {e} : ex[d].pc # "sweep"
      BY <1>0, <3>1 DEF Sweeping
    <3>3. \A d \in Exchange : ex'[d].pc # "sweep" /\ d # None
      BY <1>1, <2>3, <3>2, HttpAssumption
    <3>4. QED
      BY <2>3, <3>3 DEF Sweeping
  <2>4. QED
    BY <2>2, <2>3
<1>5. Learned'
  BY <1>0 DEF Learned, Informed, Reached, UpTo, server
<1>6. Latched'
  <2>1. closer' = closer /\ closing' = closing
    BY DEF conn
  <2>2. ASSUME closer' = "drained" PROVE FALSE
    BY <1>0, <2>1, <2>2 DEF Latched, Drained, InFlight, Flying
  <2>3. QED
    BY <1>0, <2>1, <2>2 DEF Latched, Drained
<1>7. QED
  BY <1>2, <1>3, <1>4, <1>5, <1>6 DEF HttpInv

\* A sweep from its start to its end.
LEMMA SweepSteps ==
    ASSUME HttpInv, NEW e \in Exchange,
           StartSweep(e) \/ SweepPage(e) \/ SweepDone(e) \/ SweepFails(e)
    PROVE  HttpInv'
<1>0. TypeOK /\ ex[e] \in ExType /\ Executed(ex[e]) /\ Judged(ex[e]) /\ refreshGen \in Nat
      /\ ex \in [Exchange -> ExType] /\ Exchanges /\ Sweeping /\ Learned /\ Latched
  BY Facts, Types DEF HttpInv
<1>v. None \notin {"known", "same"}
  BY HttpAssumption
<1>n. lastPage \in Nat \ {0} /\ MaxPages \in Nat \ {0} /\ page \in 0 .. MaxPages
  BY <1>0, HttpAssumption DEF TypeOK
<1>s. ex[e].pc = "sweep" => page \in 1 .. lastPage /\ UpTo(page - 1) \subseteq learned.mirrored
  BY <1>0, HttpAssumption DEF Sweeping
<1>1. CASE StartSweep(e)
  <2>1. /\ ex[e].pc = "lock" /\ holder = None /\ Goes(e, "sweep")
        /\ holder' = e /\ page' = 1
        /\ UNCHANGED <<server, gone, conn, schemas>>
    BY <1>1 DEF StartSweep, At
  <2>2. PICK r \in ExType :
          /\ ex' = [ex EXCEPT ![e] = r]
          /\ r.pc = "sweep" /\ r.runs = ex[e].runs /\ r.gen = ex[e].gen
          /\ r.verdict = ex[e].verdict /\ r.tool = ex[e].tool /\ r.sent = ex[e].sent /\ r.cold = ex[e].cold
    BY <2>1, PCShape DEF PCs
  <2>3. Executed(r) /\ r.verdict = None /\ r.gen <= refreshGen
    BY <1>0, <2>1, <2>2 DEF Executed, Judged
  <2>4. Flying(ex[e])
    BY <2>1 DEF Flying
  <2>5. Grows /\ UNCHANGED <<learned, known, cooling, refreshGen>>
    BY <1>0, <2>1 DEF schemas, Grows, TypeOK
  <2>6. /\ known' \in BOOLEAN /\ cooling' \in BOOLEAN
        /\ known' => wants \subseteq learned'.mirrored
        /\ refreshGen' > 0 => UpTo(MaxPages) \subseteq learned'.mirrored
    BY <1>0, <2>5 DEF TypeOK, Learned, Informed, Reached
  <2>7. refreshGen' \in Nat /\ refreshGen' >= refreshGen
    BY <1>0, <2>5
  <2>8. /\ r.verdict \notin {"known", "same"} /\ (r.verdict # None => r.pc = "deliver")
        /\ r.pc \notin {"compare", "gen", "post", "mismatch"}
    BY <1>v, <2>2, <2>3
  <2>9. QED
    BY <2>1, <2>2, <2>3, <2>4, <2>5, <2>6, <2>7, <2>8, SweepMoves
<1>2. CASE SweepPage(e)
  <2>1. /\ ex[e].pc = "sweep" /\ page < lastPage /\ page < MaxPages
        /\ absorb(page) /\ page' = page + 1
        /\ UNCHANGED <<server, ex, gone, conn, known, cooling, refreshGen, holder>>
    BY <1>2 DEF SweepPage, At
  <2>2. Grows /\ UpTo(page) \subseteq learned'.mirrored
    BY <1>n, <1>s, <2>1, AbsorbGrows
  <2>3. page' \in 0 .. MaxPages /\ page' \in 1 .. lastPage /\ page' - 1 = page
    BY <1>n, <2>1
  <2>4. UNCHANGED <<wants, lastPage, pageOf>> /\ (Informed => Informed') /\ (Reached => Reached')
    BY <2>1, <2>2 DEF server, Grows, Informed, Reached, UpTo
  <2>5. TypeOK'
    BY <1>0, <2>1, <2>2, <2>3 DEF TypeOK, Grows, server, conn
  <2>6. Exchanges'
    BY <1>0, <2>1, <2>4 DEF Exchanges, Executed, Judged, UpTo
  <2>7. Sweeping'
    BY <1>0, <2>1, <2>2, <2>3, <2>4 DEF Sweeping, UpTo
  <2>8. Learned'
    BY <1>0, <2>1, <2>4 DEF Learned
  <2>9. Latched'
    BY <1>0, <2>1 DEF Latched, Drained, InFlight, conn
  <2>10. QED
    BY <2>5, <2>6, <2>7, <2>8, <2>9 DEF HttpInv
<1>3. CASE SweepDone(e)
  <2>1. /\ ex[e].pc = "sweep" /\ (page = lastPage \/ page = MaxPages)
        /\ absorb(page) /\ Goes(e, "compare")
        /\ known' = (known \/ page = lastPage)
        /\ cooling' = (page # lastPage)
        /\ refreshGen' = refreshGen + 1
        /\ holder' = None /\ page' = 0
        /\ UNCHANGED <<server, gone, conn>>
    BY <1>3 DEF SweepDone, At
  <2>2. Grows /\ UpTo(page) \subseteq learned'.mirrored
    BY <1>n, <1>s, <2>1, AbsorbGrows
  <2>3. PICK r \in ExType :
          /\ ex' = [ex EXCEPT ![e] = r]
          /\ r.pc = "compare" /\ r.runs = ex[e].runs /\ r.gen = ex[e].gen
          /\ r.verdict = ex[e].verdict /\ r.tool = ex[e].tool /\ r.sent = ex[e].sent /\ r.cold = ex[e].cold
    BY <2>1, PCShape DEF PCs
  <2>4. Executed(r) /\ r.verdict = None /\ r.gen <= refreshGen
    BY <1>0, <2>1, <2>3 DEF Executed, Judged
  <2>u. page = lastPage => UpTo(page) = wants /\ UpTo(MaxPages) \subseteq UpTo(page)
    <3>1. \A t \in wants : pageOf[t] \in 1 .. lastPage
      BY <1>0 DEF TypeOK
    <3>2. QED
      BY <1>n, <3>1 DEF UpTo
  <2>5. UpTo(MaxPages) \subseteq learned'.mirrored
    BY <2>1, <2>2, <2>u
  <2>6. known' => wants \subseteq learned'.mirrored
    BY <1>0, <2>1, <2>2, <2>u DEF Learned, Grows, Informed
  <2>7. Flying(ex[e])
    BY <2>1 DEF Flying
  <2>8. known' \in BOOLEAN /\ cooling' \in BOOLEAN
    BY <2>1
  <2>9. refreshGen' \in Nat /\ refreshGen' >= refreshGen
    BY <1>0, <2>1
  <2>10. QED
    BY <1>v, <2>1, <2>2, <2>3, <2>4, <2>5, <2>6, <2>7, <2>8, <2>9, SweepMoves
<1>4. CASE SweepFails(e)
  <2>1. /\ ex[e].pc = "sweep" /\ Settles(e, 0)
        /\ holder' = None /\ page' = 0
        /\ UNCHANGED <<server, gone, conn, schemas>>
    BY <1>4 DEF SweepFails, At
  <2>2. PICK r \in ExType :
          /\ ex' = [ex EXCEPT ![e] = r]
          /\ r.pc = "deliver" /\ r.runs = ex[e].runs + 0 /\ r.gen = 0 /\ r.verdict = None
    BY <2>1, SettledShape
  <2>3. Executed(r) /\ r.gen <= refreshGen
    BY <1>0, <2>1, <2>2 DEF Executed
  <2>4. Flying(ex[e])
    BY <2>1 DEF Flying
  <2>5. Grows /\ UNCHANGED <<learned, known, cooling, refreshGen>>
    BY <1>0, <2>1 DEF schemas, Grows, TypeOK
  <2>6. /\ known' \in BOOLEAN /\ cooling' \in BOOLEAN
        /\ known' => wants \subseteq learned'.mirrored
        /\ refreshGen' > 0 => UpTo(MaxPages) \subseteq learned'.mirrored
    BY <1>0, <2>5 DEF TypeOK, Learned, Informed, Reached
  <2>7. refreshGen' \in Nat /\ refreshGen' >= refreshGen
    BY <1>0, <2>5
  <2>8. /\ r.verdict \notin {"known", "same"} /\ (r.verdict # None => r.pc = "deliver")
        /\ r.pc \notin {"compare", "gen", "post", "mismatch"}
    BY <1>v, <2>2, <2>3
  <2>9. QED
    BY <2>1, <2>2, <2>3, <2>4, <2>5, <2>6, <2>7, <2>8, SweepMoves
<1>5. QED
  BY <1>1, <1>2, <1>3, <1>4

-----------------------------------------------------------------------------
(* The rest of the connection, and the theorems *)

\* Steps that move no exchange and learn nothing.
LEMMA RestSteps ==
    ASSUME HttpInv, NEW e,
           \/ e \in Exchange /\ (StreamNote(e) \/ Leave(e))
           \/ Read \/ Close \/ ConnCancel \/ awaitInflight \/ CooledDown
           \/ UNCHANGED vars
    PROVE  HttpInv'
<1>0. TypeOK /\ Exchanges /\ Sweeping /\ Learned /\ Latched
  BY DEF HttpInv
<1>1. UNCHANGED <<server, ex, learned, known, refreshGen, sweep>>
  BY DEF StreamNote, Leave, Read, Close, ConnCancel, awaitInflight, CooledDown, vars, schemas
<1>2. Exchanges' /\ Sweeping' /\ Learned'
  BY <1>0, <1>1 DEF Exchanges, Executed, Judged, Sweeping, Learned, Informed, Reached, UpTo, server,
                    sweep
<1>3. gone' \subseteq Exchange
  BY <1>0 DEF StreamNote, Leave, Read, Close, ConnCancel, awaitInflight, CooledDown, vars, TypeOK, conn
<1>4. inbox' \in 0 .. InboxCap
  <2>1. \/ inbox' = inbox
        \/ inbox < InboxCap /\ inbox' = inbox + 1
        \/ inbox > 0 /\ inbox' = inbox - 1
    BY DEF StreamNote, Leave, Read, Close, ConnCancel, awaitInflight, CooledDown, vars, conn
  <2>2. inbox \in 0 .. InboxCap /\ InboxCap \in Nat
    BY <1>0, HttpAssumption DEF TypeOK
  <2>3. QED
    BY <2>1, <2>2
<1>5. /\ rd' \in {"reading", "dead"} /\ connDone' \in BOOLEAN /\ cooling' \in BOOLEAN
  BY <1>0 DEF StreamNote, Leave, Read, Close, ConnCancel, awaitInflight, CooledDown, vars, TypeOK,
              conn, schemas
<1>6. \/ UNCHANGED <<closer, closing>>
      \/ closer = "open" /\ closer' = "cancel" /\ closing' = TRUE
      \/ closer = "cancel" /\ closer' = "drain" /\ UNCHANGED closing
      \/ /\ closer = "drain" /\ closer' \in {"gaveup", "drained"} /\ UNCHANGED closing
         /\ closer' = "drained" => \A d \in Exchange : ~InFlight(d)
  BY DEF StreamNote, Leave, Read, Close, ConnCancel, awaitInflight, CooledDown, vars, conn
<1>7. /\ closer' \in {"open", "cancel", "drain", "drained", "gaveup"} /\ closing' \in BOOLEAN
  BY <1>0, <1>6 DEF TypeOK
<1>8. Latched'
  BY <1>0, <1>1, <1>6 DEF Latched, Drained, InFlight
<1>9. TypeOK'
  BY <1>0, <1>1, <1>3, <1>4, <1>5, <1>7 DEF TypeOK, server, sweep
<1>10. QED
  BY <1>2, <1>8, <1>9 DEF HttpInv

\* A connection that has just been made has exchanged and learned nothing.
LEMMA InitInv == Init => HttpInv
<1> SUFFICES ASSUME Init PROVE HttpInv
  OBVIOUS
<1>1. TypeOK
  <2>1. ex \in [Exchange -> ExType]
    BY FreshType DEF Init
  <2>2. lastPage \in Listings /\ wants \subseteq Tool /\ pageOf \in [Tool -> 1 .. lastPage]
        /\ InboxCap \in Nat \ {0} /\ MaxPages \in Nat
    BY HttpAssumption DEF Init
  <2>3. FALSE \in BOOLEAN
    OBVIOUS
  <2>4. learned \in [present : SUBSET Tool, mirrored : SUBSET Tool]
    BY DEF Init
  <2>5. inbox \in 0 .. InboxCap
    BY <2>2 DEF Init
  <2>6. closing \in BOOLEAN /\ connDone \in BOOLEAN /\ known \in BOOLEAN /\ cooling \in BOOLEAN
    BY <2>3 DEF Init
  <2>7. /\ gone \subseteq Exchange /\ rd \in {"reading", "dead"}
        /\ closer \in {"open", "cancel", "drain", "drained", "gaveup"}
        /\ refreshGen \in Nat /\ holder \in Exchange \cup {None} /\ page \in 0 .. MaxPages
    BY <2>2 DEF Init
  <2>8. QED
    BY <2>1, <2>2, <2>4, <2>5, <2>6, <2>7, Types
<1>2. \A e \in Exchange : ex[e] = Fresh
  BY DEF Init
<1>3. Exchanges
  <2>1. Executed(Fresh) /\ Judged(Fresh)
    BY FreshType, HttpAssumption DEF Executed, Judged, Init
  <2>2. QED
    BY <1>2, <2>1 DEF Exchanges
<1>4. Sweeping
  BY <1>2, FreshType, HttpAssumption DEF Sweeping, Init
<1>5. Learned
  BY DEF Learned, Init
<1>6. Latched
  BY DEF Latched, Drained, Init
<1>7. QED
  BY <1>1, <1>3, <1>4, <1>5, <1>6 DEF HttpInv

\* Every step preserves the invariant.
LEMMA NextInv == HttpInv /\ [Next]_vars => HttpInv'
<1> SUFFICES ASSUME HttpInv, [Next]_vars PROVE HttpInv'
  OBVIOUS
<1>1. ASSUME NEW e \in Exchange,
             \/ Write(e) \/ Steps(e) \/ Answers(e) \/ Cut(e) \/ Leave(e)
             \/ SweepPage(e) \/ SweepDone(e)
      PROVE  HttpInv'
  <2>1. CASE Write(e) \/ Admit(e) \/ Sample(e) \/ SampleGen(e) \/ HeaderMismatch(e)
    BY <2>1, SendingSteps
  <2>2. CASE \/ Lost(e) \/ Rejected(e) \/ Unauthorized(e) \/ Responds(e)
             \/ Streams(e) \/ StreamEnds(e)
    BY <2>2, AnswerSteps
  <2>3. CASE EndsSilently(e) \/ Cut(e) \/ Deliver(e)
    BY <2>3, EndSteps
  <2>4. CASE retryWithParamHeaders(e) \/ UsesAnother(e) \/ Compare(e)
    BY <2>4, RecoverySteps
  <2>5. CASE StartSweep(e) \/ SweepPage(e) \/ SweepDone(e) \/ SweepFails(e)
    BY <2>5, SweepSteps
  <2>6. CASE StreamNote(e) \/ Leave(e)
    BY <2>6, RestSteps
  <2>7. QED
    BY <1>1, <2>1, <2>2, <2>3, <2>4, <2>5, <2>6 DEF Steps, Answers
<1>2. CASE Read \/ Close \/ ConnCancel \/ awaitInflight \/ CooledDown \/ UNCHANGED vars
  BY <1>2, RestSteps
<1>3. QED
  BY <1>1, <1>2 DEF Next

\* The invariant holds whatever the server answers, whoever leaves and
\* whenever Close comes.
THEOREM HttpInvariant == Spec => []HttpInv
  BY InitInv, NextInv, PTL DEF Spec

\* The inbox never holds more than it has room for, and a sweep never asks for
\* more pages than its cap.
THEOREM HttpTypeCorrect == Spec => []TypeOK
<1>1. HttpInv => TypeOK
  BY DEF HttpInv
<1>2. QED
  BY <1>1, HttpInvariant, PTL

\* http.go:197: after Close has reported its exchanges drained none runs and
\* none starts, for any number of Writes that were under way.
THEOREM CloseDrains == Spec => []Drained
<1>1. HttpInv => Drained
  BY DEF HttpInv, Latched
<1>2. QED
  BY <1>1, HttpInvariant, PTL

\* http.go:303: no retry, after a 401 or with other headers, executes a
\* request a second time.
THEOREM ExecutedOnce == Spec => []AtMostOnce
<1>1. HttpInv => AtMostOnce
  <2>1. ASSUME HttpInv, NEW e \in Exchange PROVE ex[e].runs <= 1
    BY <2>1, Facts DEF Executed
  <2>2. QED
    BY <2>1 DEF AtMostOnce
<1>2. QED
  BY <1>1, HttpInvariant, PTL

\* http.go:451, 477, 858 and 862: whatever sweeps overlap and fail, of the calls
\* given up as beyond recovery one that did not carry what its tool wants has
\* either a tool beyond the reach of a sweep, or was declined at line 451 on a
\* listing that was read to its end only after its headers were computed.  The
\* second is the one hasty verdict the code has; no other cause leads to one.
THEOREM OnlyColdCallsGivenUp == Spec => []HastyOnlyWhenCold
<1>1. HttpInv => HastyOnlyWhenCold
  <2>1. ASSUME HttpInv, NEW e \in Exchange,
               ex[e].verdict # None, ex[e].tool \in wants, ~ex[e].sent
        PROVE  \/ ex[e].verdict = "same" /\ pageOf[ex[e].tool] > MaxPages
               \/ ex[e].verdict = "known" /\ ex[e].cold
    <3>1. Judged(ex[e]) /\ ex[e].verdict \in {None, "known", "same"}
      BY <2>1, Facts DEF ExType
    <3>2. pageOf[ex[e].tool] \in Nat /\ MaxPages \in Nat
      BY <2>1, HttpAssumption DEF HttpInv, TypeOK
    <3>3. QED
      BY <2>1, <3>1, <3>2 DEF Judged, UpTo
  <2>2. QED
    BY <2>1 DEF HttpInv, Learned, Informed, HastyOnlyWhenCold
<1>2. QED
  BY <1>1, HttpInvariant, PTL

=============================================================================
