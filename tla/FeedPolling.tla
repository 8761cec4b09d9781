---------------------------- MODULE FeedPolling ----------------------------
(***************************************************************************)
(* The polling scheduler of the backend and the routes that race with it.  *)
(*                                                                         *)
(* One scheduler task (ingest/scheduler.rs) selects due feeds, claims each *)
(* with a lease and polls them concurrently; it starts no new batch before *)
(* the whole batch has ended.  The HTTP routes (routes/feeds.rs) re-enable *)
(* feeds, make them due, and add or drop subscriptions at any moment,      *)
(* between any two SQL statements of a poll.                               *)
(*                                                                         *)
(* Time is abstracted to what select_due can tell apart: a feed's          *)
(* next_fetch_at either has come (the feed is in `due') or has not, and    *)
(* `earlier' orders the due feeds by it.                                   *)
(***************************************************************************)
EXTENDS Integers, FiniteSets

CONSTANTS
  Users,
  Feeds,
  Hosts,
  HostOf,       \* the host part of each feed's URL (url_util::host_of)
  MaxFailures,  \* ingest/settings.rs MAX_FAILURES
  Batch,        \* scheduler.rs BATCH, the LIMIT of select_due
  Concurrency,  \* IngestSettings.concurrency, permits of the semaphore
  MaxTorn       \* bound: failure records cut in two, per feed

ASSUME FeedsAssumption == IsFiniteSet(Feeds)
ASSUME HostsAssumption == HostOf \in [Feeds -> Hosts]
ASSUME LimitsAssumption ==
  /\ MaxFailures \in Nat \ {0}
  /\ Batch \in Nat \ {0}
  /\ Concurrency \in Nat \ {0}
  /\ MaxTorn \in Nat

VARIABLES
  sub,       \* subscriptions: sub[u][f], "muted" is a row with disabled = 1
  disabled,  \* feeds.disabled
  failures,  \* feeds.failure_count
  due,       \* the feeds with next_fetch_at <= now
  earlier,   \* <<f, g>>: both due, f's next_fetch_at before g's
  selected,  \* feeds of the current tick that are not yet claimed
  phase,     \* how far the poll of each feed has come
  note,      \* locals of record_failure between its two UPDATEs
  marking,   \* subscribe requests between INSERT and mark_due
  torn,      \* history: failure records cut in two since the last reset
  wanted     \* history: a refresh, "asked" for or with its poll "begun"

rowVars == <<disabled, failures, due, earlier, torn>>
pollVars == <<selected, phase, note>>
vars == <<sub, rowVars, pollVars, marking, wanted>>

Phases == {"idle",       \* no poll of this feed is running
           "queued",     \* claimed, its task waits for a permit
           "permitted",  \* has a permit, waits for the host lock
           "fetching",   \* has the host lock, request under way
           "stored",     \* items committed, success not recorded yet
           "counted",    \* record_failure ran its first UPDATE
           "alerting",   \* feed-health notification being sent
           "ok",         \* process_feed returned a good outcome
           "failed"}     \* process_feed returned a failed outcome

Notes == [disable : BOOLEAN, alert : BOOLEAN]
NoNote == [disable |-> FALSE, alert |-> FALSE]

Working == {"fetching", "stored", "counted", "alerting"}
HasPermit == Working \cup {"permitted", "ok", "failed"}

----------------------------------------------------------------------------
(* The feeds table.                                                        *)

Active(f) == \E u \in Users : sub[u][f] = "active"
Eligible(f) == ~disabled[f] /\ Active(f)

WithoutFeeds(order, S) == {p \in order : p[1] \notin S /\ p[2] \notin S}

\* next_fetch_at = datetime('now'): due, after everything that already is.
MakeDue(S) ==
  /\ due' = due \cup S
  /\ earlier' = WithoutFeeds(earlier, S) \cup ((due \ S) \X S)

\* Fault: the postponed feed keeps its old place in the order.
PostponeInPlace(f) ==
  /\ due' = due \ {f}
  /\ UNCHANGED earlier

\* next_fetch_at = datetime('now', '+n seconds')
Postpone(f) ==
  /\ due' = due \ {f}
  /\ earlier' = WithoutFeeds(earlier, {f})

ClearFailures(S) ==
  /\ failures' = [f \in Feeds |-> IF f \in S THEN 0 ELSE failures[f]]
  /\ torn' = [f \in Feeds |-> IF f \in S THEN 0 ELSE torn[f]]

----------------------------------------------------------------------------
(* The scheduler loop.                                                     *)

TickIdle == selected = {} /\ \A f \in Feeds : phase[f] = "idle"

Candidates == {f \in due : Eligible(f)}

\* Fault: no ORDER BY.
SelectableInAnyOrder(S) ==
  /\ S # {}
  /\ Cardinality(S) = (IF Cardinality(Candidates) < Batch
                         THEN Cardinality(Candidates) ELSE Batch)

\* ORDER BY next_fetch_at LIMIT Batch, ties in any order.
Selectable(S) ==
  /\ S # {}
  /\ Cardinality(S) = (IF Cardinality(Candidates) < Batch
                         THEN Cardinality(Candidates) ELSE Batch)
  /\ \A f \in S, g \in Candidates \ S : <<g, f>> \notin earlier

\* Fault: the loop does not wait for the tasks of its last batch.
StartTickUnawaited ==
  /\ selected = {}
  /\ \E S \in SUBSET Candidates : Selectable(S) /\ selected' = S
  /\ UNCHANGED <<sub, rowVars, phase, note, marking, wanted>>

StartTick ==
  /\ TickIdle
  /\ \E S \in SUBSET Candidates : Selectable(S) /\ selected' = S
  /\ UNCHANGED <<sub, rowVars, phase, note, marking, wanted>>

\* The lease; an error of its UPDATE is ignored and leaves the feed due.
Claim(f) ==
  /\ f \in selected
  /\ selected' = selected \ {f}
  /\ phase' = [phase EXCEPT ![f] = "queued"]
  /\ Postpone(f) \/ UNCHANGED <<due, earlier>>
  /\ UNCHANGED <<sub, disabled, failures, torn, note, marking, wanted>>

Enter(f, from, to) ==
  /\ phase[f] = from
  /\ phase' = [phase EXCEPT ![f] = to]

AcquirePermit(f) ==
  /\ Cardinality({g \in Feeds : phase[g] \in HasPermit}) < Concurrency
  /\ Enter(f, "queued", "permitted")
  /\ UNCHANGED <<sub, rowVars, selected, note, marking, wanted>>

\* A poll can only answer a refresh that was asked for before it began.
BeginAnswer(f) ==
  wanted' = [wanted EXCEPT ![f] = IF @ = "asked" THEN "begun" ELSE @]

\* Fault: a task that only waits for the host lock counts as holding it.
AcquireHostEagerly(f) ==
  /\ \A g \in Feeds \ {f} : phase[g] \in HasPermit => HostOf[g] # HostOf[f]
  /\ Enter(f, "permitted", "fetching")
  /\ BeginAnswer(f)
  /\ UNCHANGED <<sub, rowVars, selected, note, marking>>

AcquireHost(f) ==
  /\ \A g \in Feeds : phase[g] \in Working => HostOf[g] # HostOf[f]
  /\ Enter(f, "permitted", "fetching")
  /\ BeginAnswer(f)
  /\ UNCHANGED <<sub, rowVars, selected, note, marking>>

\* 304: record_not_modified, one UPDATE that does not touch `disabled'.
NotModified(f) ==
  /\ Enter(f, "fetching", "ok")
  /\ ClearFailures({f})
  /\ Postpone(f)
  /\ UNCHANGED <<sub, disabled, selected, note, marking, wanted>>

\* The body parsed and insert_items committed its transaction.
StoreItems(f) ==
  /\ Enter(f, "fetching", "stored")
  /\ UNCHANGED <<sub, rowVars, selected, note, marking, wanted>>

RecordSuccess(f) ==
  /\ Enter(f, "stored", "ok")
  /\ ClearFailures({f})
  /\ Postpone(f)
  /\ UNCHANGED <<sub, disabled, selected, note, marking, wanted>>

\* A `?' before record_success or record_failure: an unparseable body, a
\* UNIQUE clash of a redirected feed_url, a database error.  The row keeps
\* the claim's lease and no failure is counted.
PollError(f) ==
  /\ Enter(f, "fetching", "failed") \/ Enter(f, "stored", "failed")
  /\ UNCHANGED <<sub, rowVars, selected, note, marking, wanted>>

\* Fault: one failure too many is tolerated.
CountFailureLeniently(f, terminal) ==
  /\ Enter(f, "fetching", "counted")
  /\ failures' = [failures EXCEPT ![f] = @ + 1]
  /\ note' = [note EXCEPT ![f] =
       [disable |-> terminal \/ failures'[f] > MaxFailures,
        alert |-> failures'[f] = 1 /\ ~disabled[f]]]
  /\ UNCHANGED <<sub, disabled, due, earlier, torn, selected, marking,
                 wanted>>

\* record_failure, first UPDATE ... RETURNING failure_count, disabled.
CountFailure(f, terminal) ==
  /\ Enter(f, "fetching", "counted")
  /\ failures' = [failures EXCEPT ![f] = @ + 1]
  /\ note' = [note EXCEPT ![f] =
       [disable |-> terminal \/ failures'[f] >= MaxFailures,
        alert |-> failures'[f] = 1 /\ ~disabled[f]]]
  /\ UNCHANGED <<sub, disabled, due, earlier, torn, selected, marking,
                 wanted>>

\* record_failure, second UPDATE: SET disabled = ?, next_fetch_at = ...
SettleFailure(f) ==
  /\ Enter(f, "counted", IF note[f].alert THEN "alerting" ELSE "failed")
  /\ disabled' = [disabled EXCEPT ![f] = note[f].disable]
  /\ Postpone(f)
  /\ note' = [note EXCEPT ![f] = NoNote]
  /\ wanted' = [wanted EXCEPT ![f] = IF note[f].disable THEN "no" ELSE @]
  /\ UNCHANGED <<sub, failures, torn, selected, marking>>

\* The second UPDATE fails: the count stays, the verdict is lost.
SettleError(f) ==
  /\ torn[f] < MaxTorn
  /\ Enter(f, "counted", "failed")
  /\ torn' = [torn EXCEPT ![f] = @ + 1]
  /\ note' = [note EXCEPT ![f] = NoNote]
  /\ UNCHANGED <<sub, disabled, failures, due, earlier, selected, marking,
                 wanted>>

AlertSent(f) ==
  /\ Enter(f, "alerting", "failed")
  /\ UNCHANGED <<sub, rowVars, selected, note, marking, wanted>>

\* events.feed_done and the end of the task.
Report(f) ==
  /\ Enter(f, "ok", "idle") \/ Enter(f, "failed", "idle")
  /\ wanted' = [wanted EXCEPT ![f] = IF @ = "begun" THEN "no" ELSE @]
  /\ UNCHANGED <<sub, rowVars, selected, note, marking>>

\* Some feed's next_fetch_at (interval, backoff or lease) arrives.
TimePasses(f) ==
  /\ f \notin due
  /\ MakeDue({f})
  /\ UNCHANGED <<sub, disabled, failures, torn, pollVars, marking,
                 wanted>>

----------------------------------------------------------------------------
(* Requests.                                                               *)

\* `wanted' follows one refresh of a feed at a time, whichever it may be.
Ask(S) ==
  \E T \in SUBSET {f \in S : wanted[f] = "no"} :
    wanted' = [f \in Feeds |-> IF f \in T THEN "asked" ELSE wanted[f]]

\* Fault: the refresh keeps the quarantine.
ReenableKeepingQuarantine(S) ==
  /\ ClearFailures(S)
  /\ MakeDue(S)
  /\ Ask(S)
  /\ UNCHANGED <<sub, disabled, pollVars, marking>>

Reenable(S) ==
  /\ disabled' = [f \in Feeds |-> IF f \in S THEN FALSE ELSE disabled[f]]
  /\ ClearFailures(S)
  /\ MakeDue(S)
  /\ Ask(S)
  /\ UNCHANGED <<sub, pollVars, marking>>

\* POST /feeds/{id}/refresh, allowed for a muted subscription too.
RefreshFeed(u, f) == sub[u][f] # "none" /\ Reenable({f})

\* The UPDATE of POST /feeds/refresh-all.
RefreshAll(u) ==
  LET followed == {f \in Feeds : sub[u][f] = "active"}
  IN followed # {} /\ Reenable(followed)

\* INSERT INTO subscriptions; `prompt' is false for an OAuth sync.
Subscribe(u, f, prompt) ==
  /\ sub[u][f] = "none"
  /\ sub' = [sub EXCEPT ![u][f] = "active"]
  /\ marking' = IF prompt THEN marking \cup {<<u, f>>} ELSE marking
  /\ UNCHANGED <<rowVars, pollVars, wanted>>

MarkDue(u, f) ==
  /\ <<u, f>> \in marking
  /\ marking' = marking \ {<<u, f>>}
  /\ MakeDue({f})
  /\ UNCHANGED <<sub, disabled, failures, torn, pollVars, wanted>>

Unsubscribe(u, f) ==
  /\ sub[u][f] # "none"
  /\ sub' = [sub EXCEPT ![u][f] = "none"]
  /\ UNCHANGED <<rowVars, pollVars, marking, wanted>>

\* PATCH /feeds/{id} with `disabled'; unmuting does not make the feed due.
SetMuted(u, f, muted) ==
  /\ sub[u][f] # "none"
  /\ sub' = [sub EXCEPT ![u][f] = IF muted THEN "muted" ELSE "active"]
  /\ UNCHANGED <<rowVars, pollVars, marking, wanted>>

----------------------------------------------------------------------------
\* The process stops and boots again: tasks are gone, rows stay.
Restart ==
  /\ \A f \in Feeds : phase[f] = "counted" => torn[f] < MaxTorn
  /\ torn' = [f \in Feeds |->
                IF phase[f] = "counted" THEN torn[f] + 1 ELSE torn[f]]
  /\ selected' = {}
  /\ phase' = [f \in Feeds |-> "idle"]
  /\ note' = [f \in Feeds |-> NoNote]
  /\ marking' = {}
  /\ wanted' =
       [f \in Feeds |-> IF wanted[f] = "begun" THEN "asked" ELSE wanted[f]]
  /\ UNCHANGED <<sub, disabled, failures, due, earlier>>

Init ==
  /\ sub = [u \in Users |-> [f \in Feeds |-> "none"]]
  /\ disabled = [f \in Feeds |-> FALSE]
  /\ failures = [f \in Feeds |-> 0]
  /\ due \in SUBSET Feeds
  /\ earlier = {}
  /\ selected = {}
  /\ phase = [f \in Feeds |-> "idle"]
  /\ note = [f \in Feeds |-> NoNote]
  /\ marking = {}
  /\ torn = [f \in Feeds |-> 0]
  /\ wanted = [f \in Feeds |-> "no"]

\* What a poll that reached its fetch does next, on any outcome.
FetchEnds(f) ==
  \/ NotModified(f)
  \/ StoreItems(f)
  \/ PollError(f)
  \/ \E terminal \in BOOLEAN : CountFailure(f, terminal)

PollStep(f) ==
  \/ Claim(f)
  \/ AcquirePermit(f)
  \/ AcquireHost(f)
  \/ FetchEnds(f)
  \/ RecordSuccess(f)
  \/ SettleFailure(f) \/ SettleError(f)
  \/ AlertSent(f)
  \/ Report(f)

UserStep(u, f) ==
  \/ RefreshFeed(u, f) \/ MarkDue(u, f)
  \/ \E prompt \in BOOLEAN : Subscribe(u, f, prompt)
  \/ Unsubscribe(u, f)
  \/ \E muted \in BOOLEAN : SetMuted(u, f, muted)

Next ==
  \/ StartTick
  \/ \E f \in Feeds : PollStep(f) \/ TimePasses(f)
  \/ \E u \in Users : RefreshAll(u) \/ \E f \in Feeds : UserStep(u, f)
  \/ Restart

Spec == Init /\ [][Next]_vars

\* The loop wakes at least every 15 s, fetches and pushes have timeouts, the
\* semaphore and the host locks are queues, handlers run to their end and
\* clocks advance.
Fairness ==
  /\ WF_vars(StartTick)
  /\ \A f \in Feeds : WF_vars(PollStep(f)) /\ WF_vars(TimePasses(f))
  /\ \A u \in Users, f \in Feeds : WF_vars(MarkDue(u, f))

\* Liveness is claimed for a process that stops restarting at some point.
FairSpec == Spec /\ Fairness /\ <>[][~Restart]_vars

----------------------------------------------------------------------------
(* Properties.                                                             *)

TypeOK ==
  /\ sub \in [Users -> [Feeds -> {"none", "active", "muted"}]]
  /\ disabled \in [Feeds -> BOOLEAN]
  /\ failures \in [Feeds -> Nat]
  /\ due \in SUBSET Feeds
  /\ earlier \in SUBSET (due \X due)
  /\ selected \in SUBSET Feeds
  /\ phase \in [Feeds -> Phases]
  /\ note \in [Feeds -> Notes]
  /\ marking \in SUBSET (Users \X Feeds)
  /\ torn \in [Feeds -> 0..MaxTorn]
  /\ wanted \in [Feeds -> {"no", "asked", "begun"}]

\* A feed between its selection and the verdict on its poll.
BeforeVerdict(f) ==
  f \in selected
    \/ phase[f] \in {"queued", "permitted", "fetching", "stored", "counted"}

\* From selection to verdict a feed stays enabled, whatever the routes do in
\* between: so `disabled = ?' in record_failure's second UPDATE can only
\* disable, and `was_disabled' (store.rs:199) is always 0.
PolledFeedsAreEnabled == \A f \in Feeds : BeforeVerdict(f) => ~disabled[f]

\* A selected feed has no poll under way: no feed is ever polled by two
\* tasks, although the lease may expire while its poll still runs.
NoOverlappingPolls == \A f \in selected : phase[f] = "idle"

\* Quarantine (MAX_FAILURES): an enabled feed has failed fewer than
\* MaxFailures times since its last reset, plus one for every failure
\* record whose second UPDATE a crash or a database error suppressed.
Quarantine ==
  \A f \in Feeds :
    failures[f] < MaxFailures + torn[f]
      + (IF disabled[f] \/ phase[f] = "counted" THEN 1 ELSE 0)

\* Only a user's refresh takes a feed out of quarantine; it then starts with
\* a clean count and is due at once.  No outcome of a poll does.
OnlyRefreshReenables ==
  [][\A f \in Feeds : disabled[f] /\ ~disabled'[f] =>
        failures'[f] = 0 /\ f \in due' /\ phase'[f] = phase[f]]_vars

\* The scheduling premises of the two liveness properties: nobody refreshes f
\* once more while it already waits in the queue, and claims are written.
Undisturbed(f) ==
  /\ f \in due /\ f \in due' =>
       \A g \in due' \ {f} :
         /\ <<g, f>> \in earlier' => <<g, f>> \in earlier
         /\ g \notin due \/ <<f, g>> \in earlier => <<f, g>> \in earlier'
  /\ \A g \in selected \ selected' : g \notin due'

\* Permits are taken before host locks, and a task that waits for a host
\* lock keeps its permit: still, whatever the polls wait for, one of them can
\* go on, so the loop's wait for the whole batch ends.
NoPollStuck ==
  (\E f \in Feeds : phase[f] # "idle")
    => \E f \in Feeds : phase[f] # "idle" /\ ENABLED PollStep(f)

\* No starvation, even with more due feeds than a batch holds: a feed that
\* stays enabled and followed is fetched again and again.
PolledForever ==
  \A f \in Feeds :
    <>[]Eligible(f) /\ <>[][Undisturbed(f)]_vars => []<>(phase[f] = "fetching")

\* A refresh ("poll now; also re-enables", feeds.rs:264) is answered: a poll
\* that begins after it is reported, though polls that began before it still
\* end, and restarts cut the answering ones off.  Two things end the promise:
\* nobody follows the feed any more, or a failure record disables the feed,
\* which may be the record of a poll that the refresh came after: its second
\* UPDATE then takes the refresh back.
RequestAnswered ==
  \A f \in Feeds :
    <>[][Undisturbed(f)]_vars =>
      (wanted[f] # "no" /\ Active(f) ~> wanted[f] = "no" \/ ~Active(f))
=============================================================================
