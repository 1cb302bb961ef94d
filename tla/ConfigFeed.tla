----------------------------- MODULE ConfigFeed -----------------------------
(***************************************************************************)
(* pkg/configsource: a source watched by one or more consumers, each of    *)
(* which is a configsource.Run that applies what its Watch emits.          *)
(*                                                                         *)
(* A Watch is a goroutine that reads the configuration on a trigger        *)
(* (SIGHUP, a change event, the ticker), passes it through its             *)
(* changeFilter and hands it to Run over an unbuffered channel.  Run       *)
(* applies on its own goroutine, and reports a failed apply back to the    *)
(* source, which clears the filters of every live Watch.                   *)
(*                                                                         *)
(* kind is "file" (File), "nats" (NATS), "poll" (Poll) or "dedup" (Dedup   *)
(* around a source that emits whatever it reads on each of its triggers,   *)
(* and is not Retryable).  A revision is its content hash.                 *)
(*                                                                         *)
(* The goroutine of a Dedup and that of the source it wraps are one here:  *)
(* what the wrapped source has read goes straight to Dedup's filter, where *)
(* the code lets it wait while an earlier update is still being sent.      *)
(***************************************************************************)
EXTENDS Integers, FiniteSets

CONSTANTS
    Watcher,    \* Watches, each with its Run
    Content,    \* revisions
    Bad,        \* what cannot be read or parsed
    NoContent

ASSUME ContentAssumption == Bad # NoContent /\ {Bad, NoContent} \cap Content = {}

VARIABLES
    kind,       \* the source the gateway was started with
    polls,      \* its Watches have a ticker
    content,    \* what the file or the controller holds
    watch,      \* where the goroutine of each Watch is
    booted,     \* it is past its initial read
    trigger,    \* its buffered trigger channel: File.watchers, NATS's events
    update,     \* the Update it is about to filter or send
    filter,     \* its changeFilter
    run,        \* where each Run is
    serving,    \* Run's serving
    applying,   \* the revision passed to apply
    live,       \* the revision last applied
    todo,       \* filters Retry has still to clear
    refire,     \* one of those cleared had swallowed a revision
    cancelled,  \* the context of the Watch and its Run
    unread,     \* history: triggers came since the Watch last read
    owed        \* history: the revision last read, until an apply of it begins

source == <<kind, polls>>
watchVars == <<watch, booted, trigger, update>>
runVars == <<run, serving, applying, live, todo, refire>>
history == <<unread, owed>>
feedVars == <<source, content, watchVars, filter, runVars, cancelled, history>>

Revision == Content \cup {NoContent}
Filter == [last : Revision, seen : BOOLEAN, swallowed : BOOLEAN]
NewFilter == [last |-> NoContent, seen |-> FALSE, swallowed |-> FALSE]

FeedTypeOK ==
    /\ kind \in {"file", "nats", "poll", "dedup"}
    /\ polls \in BOOLEAN
    /\ content \in Content \cup {Bad}
    /\ watch \in [Watcher -> {"off", "subscribe", "load", "read", "send", "idle", "closed"}]
    /\ booted \in [Watcher -> BOOLEAN]
    /\ trigger \in [Watcher -> BOOLEAN]
    /\ update \in [Watcher -> Content \cup {Bad, NoContent}]
    /\ filter \in [Watcher -> Filter]
    /\ run \in [Watcher -> {"wait", "apply", "retry", "done"}]
    /\ serving \in [Watcher -> BOOLEAN]
    /\ applying \in [Watcher -> Revision]
    /\ live \in [Watcher -> Revision]
    /\ todo \in [Watcher -> SUBSET Watcher]
    /\ refire \in [Watcher -> BOOLEAN]
    /\ cancelled \in [Watcher -> BOOLEAN]
    /\ unread \in [Watcher -> BOOLEAN]
    /\ owed \in [Watcher -> Revision]

FeedInit ==
    /\ kind \in {"file", "nats", "poll", "dedup"}
    /\ polls \in IF kind \in {"nats", "poll"} THEN {TRUE} ELSE BOOLEAN
    /\ content \in Content \cup {Bad}
    /\ watch = [w \in Watcher |-> "off"]
    /\ booted = [w \in Watcher |-> FALSE]
    /\ trigger = [w \in Watcher |-> FALSE]
    /\ update = [w \in Watcher |-> NoContent]
    /\ filter = [w \in Watcher |-> NewFilter]
    /\ run = [w \in Watcher |-> "wait"]
    /\ serving = [w \in Watcher |-> FALSE]
    /\ applying = [w \in Watcher |-> NoContent]
    /\ live = [w \in Watcher |-> NoContent]
    /\ todo = [w \in Watcher |-> {}]
    /\ refire = [w \in Watcher |-> FALSE]
    /\ cancelled = [w \in Watcher |-> FALSE]
    /\ unread = [w \in Watcher |-> FALSE]
    /\ owed = [w \in Watcher |-> NoContent]

-----------------------------------------------------------------------------
(* The goroutine of a Watch *)

Watching(w) == watch[w] \notin {"off", "closed"}

\* Mutant: triggers are subscribed to once the initial read is done.
Registered_AfterRead(w) == Watching(w) /\ booted[w]

\* Triggers reach it: File registers in Watch itself, NATS subscribes in the
\* goroutine, before its initial fetch.
Registered(w) == Watching(w) /\ watch[w] # "subscribe"

GoesTo(w, pc) == watch' = [watch EXCEPT ![w] = pc]

Watch(w) ==
    /\ watch[w] = "off"
    /\ GoesTo(w, IF kind = "nats" THEN "subscribe" ELSE "load")
    /\ UNCHANGED <<source, content, booted, trigger, update, filter, runVars, cancelled, history>>

Subscribe(w) ==
    /\ watch[w] = "subscribe"
    /\ GoesTo(w, "load")
    /\ UNCHANGED <<source, content, booted, trigger, update, filter, runVars, cancelled, history>>

SubscribeErr(w) ==
    /\ watch[w] = "subscribe"
    /\ GoesTo(w, "send")
    /\ update' = [update EXCEPT ![w] = Bad]
    /\ UNCHANGED <<source, content, booted, trigger, filter, runVars, cancelled, history>>

\* config.Load, p.fetch, s.fetch
Load(w) ==
    /\ watch[w] = "load"
    /\ content # Bad
    /\ GoesTo(w, "read")
    /\ update' = [update EXCEPT ![w] = content]
    /\ unread' = [unread EXCEPT ![w] = FALSE]
    /\ owed' = [owed EXCEPT ![w] = content]
    /\ UNCHANGED <<source, content, booted, trigger, filter, runVars, cancelled>>

\* A failed read is emitted as an error.  NATS does not emit the failures of
\* its initial fetch, which it repeats, until it gives up: see BootTimeout.
LoadErr(w) ==
    /\ watch[w] = "load"
    /\ kind = "nats" => booted[w]
    /\ GoesTo(w, "send")
    /\ booted' = [booted EXCEPT ![w] = TRUE]
    /\ update' = [update EXCEPT ![w] = Bad]
    /\ unread' = [unread EXCEPT ![w] = FALSE]
    /\ owed' = [owed EXCEPT ![w] = NoContent]
    /\ UNCHANGED <<source, content, trigger, filter, runVars, cancelled>>

BootTimeout(w) ==
    /\ watch[w] = "load"
    /\ kind = "nats" /\ ~booted[w]
    /\ GoesTo(w, "send")
    /\ update' = [update EXCEPT ![w] = Bad]
    /\ UNCHANGED <<source, content, booted, trigger, filter, runVars, cancelled, history>>

Same(w) == filter[w].seen /\ filter[w].last = update[w]

\* Mutant: suppressing a revision leaves no trace.
Suppress_Silent(w) ==
    /\ watch[w] = "read" /\ Same(w)
    /\ GoesTo(w, "idle")
    /\ booted' = [booted EXCEPT ![w] = TRUE]
    /\ update' = [update EXCEPT ![w] = NoContent]
    /\ UNCHANGED <<source, content, trigger, filter, runVars, cancelled, history>>

\* The filter is asked whether the revision is news: no, and yes.
Suppress(w) ==
    /\ watch[w] = "read" /\ Same(w)
    /\ GoesTo(w, "idle")
    /\ booted' = [booted EXCEPT ![w] = TRUE]
    /\ update' = [update EXCEPT ![w] = NoContent]
    /\ filter' = [filter EXCEPT ![w] = [last |-> @.last, seen |-> TRUE, swallowed |-> TRUE]]
    /\ UNCHANGED <<source, content, trigger, runVars, cancelled, history>>

changed(w) ==
    /\ watch[w] = "read" /\ ~Same(w)
    /\ GoesTo(w, "send")
    /\ booted' = [booted EXCEPT ![w] = TRUE]
    /\ filter' = [filter EXCEPT ![w] = [last |-> update[w], seen |-> TRUE, swallowed |-> FALSE]]
    /\ UNCHANGED <<source, content, trigger, update, runVars, cancelled, history>>

Triggered(w) ==
    /\ watch[w] = "idle" /\ trigger[w]
    /\ GoesTo(w, "load")
    /\ trigger' = [trigger EXCEPT ![w] = FALSE]
    /\ UNCHANGED <<source, content, booted, update, filter, runVars, cancelled, history>>

Tick(w) ==
    /\ watch[w] = "idle" /\ polls
    /\ GoesTo(w, "load")
    /\ UNCHANGED <<source, content, booted, trigger, update, filter, runVars, cancelled, history>>

\* Where a Watch goes once send returns: NATS ends after an error of its boot.
AfterSend(w) == IF update[w] = Bad /\ kind = "nats" /\ ~booted[w] THEN "closed" ELSE "idle"

\* send gives up when the context ends; the Watch may still read once more
\* before it looks at the context itself.
SendAborted(w) ==
    /\ watch[w] = "send" /\ cancelled[w]
    /\ GoesTo(w, AfterSend(w))
    /\ update' = [update EXCEPT ![w] = NoContent]
    /\ UNCHANGED <<source, content, booted, trigger, filter, runVars, cancelled, history>>

\* The context is looked at between reads, and between boot's fetches.
Close(w) ==
    /\ cancelled[w]
    /\ \/ watch[w] = "idle"
       \/ watch[w] = "load" /\ kind = "nats" /\ ~booted[w]
    /\ GoesTo(w, "closed")
    /\ update' = [update EXCEPT ![w] = NoContent]
    /\ UNCHANGED <<source, content, booted, trigger, filter, runVars, cancelled, history>>

-----------------------------------------------------------------------------
(* Run *)

RunsTo(w, pc) == run' = [run EXCEPT ![w] = pc]

Sent(w) ==
    /\ watch[w] = "send" /\ run[w] = "wait"
    /\ GoesTo(w, AfterSend(w))
    /\ update' = [update EXCEPT ![w] = NoContent]

TakeErr(w) ==
    /\ Sent(w) /\ update[w] = Bad
    /\ RunsTo(w, IF serving[w] THEN "wait" ELSE "done")
    /\ UNCHANGED <<source, content, booted, trigger, filter, serving, applying, live, todo, refire,
                   cancelled, history>>

Take(w) ==
    /\ Sent(w) /\ update[w] # Bad
    /\ RunsTo(w, "apply")
    /\ applying' = [applying EXCEPT ![w] = update[w]]
    /\ owed' = [owed EXCEPT ![w] = IF @ = update[w] THEN NoContent ELSE @]
    /\ UNCHANGED <<source, content, booted, trigger, filter, serving, live, todo, refire,
                   cancelled, unread>>

ApplyOk(w) ==
    /\ run[w] = "apply"
    /\ RunsTo(w, "wait")
    /\ serving' = [serving EXCEPT ![w] = TRUE]
    /\ live' = [live EXCEPT ![w] = applying[w]]
    /\ applying' = [applying EXCEPT ![w] = NoContent]
    /\ UNCHANGED <<source, content, watchVars, filter, todo, refire, cancelled, history>>

\* Mutant: the source is not told.
ApplyErr_NotReported(w) ==
    /\ run[w] = "apply"
    /\ RunsTo(w, IF serving[w] THEN "wait" ELSE "done")
    /\ applying' = [applying EXCEPT ![w] = NoContent]
    /\ UNCHANGED <<source, content, watchVars, filter, serving, live, todo, refire, cancelled, history>>

\* The filters that are live now are the ones Retry will clear.
ApplyErr(w) ==
    /\ run[w] = "apply"
    /\ RunsTo(w, IF serving[w] THEN "retry" ELSE "done")
    /\ todo' = [todo EXCEPT ![w] = IF serving[w] THEN {v \in Watcher : Watching(v)} ELSE {}]
    /\ applying' = [applying EXCEPT ![w] = NoContent]
    /\ UNCHANGED <<source, content, watchVars, filter, serving, live, refire, cancelled, history>>

\* changeFilter.retry, one filter at a time.
retry(w, v) ==
    /\ run[w] = "retry" /\ v \in todo[w]
    /\ todo' = [todo EXCEPT ![w] = @ \ {v}]
    /\ refire' = [refire EXCEPT ![w] = @ \/ filter[v].swallowed]
    /\ filter' = [filter EXCEPT ![v] = [last |-> @.last, seen |-> FALSE, swallowed |-> FALSE]]
    /\ UNCHANGED <<source, content, watchVars, run, serving, applying, live, cancelled, history>>

\* File.Reload: every Watch, coalescing with a trigger it has not read yet.
ReloadAll == trigger' = [w \in Watcher |-> trigger[w] \/ Registered(w)]

\* Only File fires a trigger in place of the one that was spent.
RetryDone(w) ==
    /\ run[w] = "retry" /\ todo[w] = {}
    /\ IF kind = "file" /\ refire[w] THEN ReloadAll ELSE UNCHANGED trigger
    /\ RunsTo(w, "wait")
    /\ refire' = [refire EXCEPT ![w] = FALSE]
    /\ UNCHANGED <<source, content, watch, booted, update, filter, serving, applying, live, todo,
                   cancelled, history>>

RunEnds(w) ==
    /\ run[w] = "wait"
    /\ cancelled[w] \/ watch[w] = "closed"
    /\ RunsTo(w, "done")
    /\ UNCHANGED <<source, content, watchVars, filter, serving, applying, live, todo, refire,
                   cancelled, history>>

-----------------------------------------------------------------------------
(* The operator, the controller and the owner of the context *)

Edit(c) ==
    /\ content # c
    /\ content' = c
    /\ UNCHANGED <<source, watchVars, filter, runVars, cancelled, history>>

\* SIGHUP, a change event, or the wrapped source's own trigger.
Hup ==
    /\ kind # "poll"
    /\ ReloadAll
    /\ unread' = [w \in Watcher |-> unread[w] \/ Watching(w)]
    /\ UNCHANGED <<source, content, watch, booted, update, filter, runVars, cancelled, owed>>

Cancel(w) ==
    /\ ~cancelled[w]
    /\ cancelled' = [cancelled EXCEPT ![w] = TRUE]
    /\ UNCHANGED <<source, content, watchVars, filter, runVars, history>>

-----------------------------------------------------------------------------

Emits(w) ==
    \/ Subscribe(w) \/ SubscribeErr(w)
    \/ Load(w) \/ LoadErr(w) \/ BootTimeout(w)
    \/ Suppress(w) \/ changed(w)
    \/ SendAborted(w) \/ Triggered(w) \/ Close(w)

Runs(w) ==
    \/ TakeErr(w) \/ Take(w) \/ ApplyOk(w) \/ ApplyErr(w)
    \/ \E v \in Watcher : retry(w, v)
    \/ RetryDone(w) \/ RunEnds(w)

FeedNext ==
    \/ \E w \in Watcher : Watch(w) \/ Emits(w) \/ Tick(w) \/ Runs(w) \/ Cancel(w)
    \/ \E c \in Content \cup {Bad} : Edit(c)
    \/ Hup

FeedSpec == FeedInit /\ [][FeedNext]_feedVars

\* Goroutines that can step do, and a ticker ticks; a source that is read again
\* and again is readable in the end, and a revision applied again and again is
\* accepted in the end.
Fairness ==
    \A w \in Watcher :
        /\ WF_feedVars(Emits(w)) /\ WF_feedVars(Runs(w)) /\ WF_feedVars(Tick(w))

Recovery ==
    \A w \in Watcher : SF_feedVars(Load(w)) /\ SF_feedVars(ApplyOk(w))

FairFeedSpec == FeedSpec /\ Fairness
RecoverySpec == FairFeedSpec /\ Recovery

-----------------------------------------------------------------------------
(* Properties *)

Rests(w) == watch[w] = "idle" /\ ~trigger[w] /\ run[w] = "wait" /\ ~cancelled[w]

\* source.go:69 and file.go:91: with no ticker, a trigger is never eaten.  When
\* a Watch and its Run have come to rest, the revision the last trigger read is
\* the one being served, or an apply of it began after it was read; a trigger
\* suppressed while that revision was failing to apply is fired again.
TriggerHonoured ==
    \A w \in Watcher :
        kind = "file" /\ ~polls /\ Rests(w) => \/ owed[w] \in {NoContent, live[w]}
                              \/ \E v \in Watcher : refire[v]

\* nats.go:137 and file.go:69: a trigger that comes once Watch has been called,
\* however early in its start, is followed by a read.
EveryTriggerRead ==
    \A w \in Watcher : watch[w] = "idle" /\ unread[w] => trigger[w]

\* run.go:28: once the gateway is serving, no source error and no failed apply
\* ends Run.
ServingSurvives ==
    \A w \in Watcher : serving[w] /\ run[w] = "done" => cancelled[w]

\* dedup.go:37: with a ticker, a configuration that stays as it is ends up
\* being served, whatever failed on the way.
Converges ==
    \A w \in Watcher, c \in Content :
        <>[](polls /\ content = c /\ ~cancelled[w] /\ watch[w] # "off")
            => <>[](live[w] = c \/ run[w] = "done")
=============================================================================
