----------------------------- MODULE Summaries ------------------------------
(***************************************************************************)
(* Summaries of items: requests of readers (ai/summarize.rs), the          *)
(* transcript worker that also makes the automatic ones                    *)
(* (ai/transcript_worker.rs, ai/transcript.rs), the token budget           *)
(* (ai/budget.rs), and the routes of Providers, which admins change        *)
(* meanwhile.                                                              *)
(*                                                                         *)
(* A call's reads of routes, item and cache are one step: a write between  *)
(* them has the effect of one before or after.  Only the counter of the    *)
(* day is modelled; the one of the month differs in its period.            *)
(***************************************************************************)
EXTENDS Providers

CONSTANTS
  Items,      \* ids of items
  Videos,     \* those of YouTube feeds
  Requests,   \* requests of readers that may be served together
  Worker,     \* the transcript worker, which also summarizes
  Batch,      \* items of a tick
  Budget,     \* daily budget of tokens
  Tokens,     \* what a call may report to have used
  MaxCalls,   \* bound: requests of readers
  MaxDay,     \* bound: the clock
  MaxCrashes  \* bound: restarts and failed writes

ASSUME ItemsAssumption == Items \subseteq Nat /\ Videos \subseteq Items
ASSUME CallsAssumption ==
  /\ Worker \notin Requests /\ IsFiniteSet(Requests)
  /\ IsFiniteSet(Tokens) /\ Tokens # {} /\ Tokens \subseteq Nat
  /\ {Batch, Budget} \subseteq Nat \ {0}
ASSUME BoundsAssumption == {MaxCalls, MaxDay, MaxCrashes} \subseteq Nat

VARIABLES
  here,       \* items that are stored
  arrived,    \* items that were stored once
  transcript, \* transcript_status of each
  pending,    \* items with auto_summary_pending
  cache,      \* item_summaries: the model, by item, provider and kind
  usage,      \* ai.usage_day
  day,
  job,        \* locals of each call of summarize_item
  batch,      \* rest of the worker's batch
  worker,     \* where the worker is
  calls, crashes, \* what MaxCalls and MaxCrashes bound
  spent,      \* tokens that calls have used today
  blurred,    \* some of today's tokens were lost or may be
  settled     \* items summarized automatically for the present configuration

content == <<here, arrived, transcript, pending, cache>>
ghosts == <<spent, blurred, settled>>
bounds == <<calls, crashes>>
vars == <<config, content, usage, day, job, batch, worker, bounds, ghosts>>

Jobs == Requests \cup {Worker}
IdleJob == [at |-> "idle", item |-> 0, text |-> <<>>, native |-> <<>>, via |-> "text",
            left |-> <<>>, status |-> "none", day |-> 0, count |-> 0]

\* Other writes make the snapshot of an open settings request stale.
Commit == admin' = Staled /\ UNCHANGED <<providers, made, routing, handled>>

Go(j, at) == job' = [job EXCEPT ![j].at = at]
Leave(j) == job' = [job EXCEPT ![j] = IdleJob]

----------------------------------------------------------------------------
(* The cache and the budget.                                               *)

\* Fault: only the first provider of a route is looked up.
FirstHit(i, route, kind) ==
  route # <<>> /\ <<i, route[1].id, kind>> \in DOMAIN cache
    /\ cache[<<i, route[1].id, kind>>] = route[1].model

\* cached, for the providers of a route
Hit(i, route, kind) == \E n \in DOMAIN route :
  <<i, route[n].id, kind>> \in DOMAIN cache /\ cache[<<i, route[n].id, kind>>] = route[n].model

\* read_period
Counted(d) == IF usage.day = d THEN usage.count ELSE 0

\* Fault: the budget is not looked at.
AlwaysAffordable == TRUE
\* budget::check
Affordable == Counted(day) < Budget

----------------------------------------------------------------------------
(* summarize_item                                                          *)

NativeRoute(i) == IF i \in Videos THEN VideoRoute ELSE <<>>

\* What the list and the preview look for, too.
HasSummary(i) == Hit(i, NativeRoute(i), "native") \/ Hit(i, TextRoute, "text")

\* Nothing to answer from the cache, and someone to ask.
Asks(i, force) ==
  /\ i \in here
  /\ force \/ ~HasSummary(i)
  /\ NativeRoute(i) # <<>> \/ TextRoute # <<>>

Asked(j, i) ==
  [job EXCEPT ![j] = [IdleJob EXCEPT !.at = "native", !.item = i, !.text = TextRoute,
     !.native = NativeRoute(i), !.left = NativeRoute(i), !.status = transcript[i]]]

Request(j, i, force) ==
  /\ calls < MaxCalls /\ calls' = calls + 1
  /\ job[j].at = "idle" /\ Asks(i, force) /\ job' = Asked(j, i)
  /\ UNCHANGED <<config, content, usage, day, batch, worker, crashes, ghosts>>

\* The next provider that watches the video, if the budget allows.
Native(j) ==
  /\ job[j].at = "native"
  /\ IF job[j].left = <<>> THEN Go(j, "transcript")
     ELSE IF Affordable THEN job' = [job EXCEPT ![j].at = "call", ![j].via = "native"]
     ELSE Leave(j)
  /\ UNCHANGED <<config, content, usage, day, batch, worker, bounds, ghosts>>

\* fetch: what the page, the player and the captions come to; only a 429
\* counts as "limited", every other failure as no captions.
Captions == {"text", "live", "unavailable", "limited"}

\* What is stored of it, and set_transcript.
StatusOf(captions) == IF captions = "text" THEN "fetched" ELSE "unavailable"
WithStatus(i, captions) ==
  IF i \in here THEN [transcript EXCEPT ![i] = StatusOf(captions)] ELSE transcript

\* fetch_and_store, unless it was tried; load_item again.  A live recording
\* that somebody looks at stays.
FetchAndStore(j, captions) ==
  LET i == job[j].item  tried == i \notin Videos \/ job[j].status # "none" IN
  /\ job[j].at = "transcript"
  /\ transcript' = IF tried \/ captions = "limited" THEN transcript ELSE WithStatus(i, captions)
  /\ IF tried \/ i \in here THEN job' = [job EXCEPT ![j].at = "text", ![j].status = "none"]
     ELSE Leave(j)
  /\ Commit
  /\ UNCHANGED <<here, arrived, pending, cache, usage, day, batch, worker, bounds, ghosts>>

\* The text route, if there is something to summarize and the budget allows.
Text(j, empty) ==
  /\ job[j].at = "text"
  /\ IF empty \/ ~Affordable \/ job[j].text = <<>> THEN Leave(j)
     ELSE job' = [job EXCEPT ![j].at = "call", ![j].via = "text", ![j].left = job[j].text]
  /\ UNCHANGED <<config, content, usage, day, batch, worker, bounds, ghosts>>

Recording(j) == job[j].at \in {"read", "write"}

\* The provider answers, with the tokens it has used; record takes the day.
CallOk(j, tokens) ==
  /\ job[j].at = "call"
  /\ job' = [job EXCEPT ![j].at = IF tokens > 0 THEN "read" ELSE "store",
                        ![j].day = IF tokens > 0 THEN day ELSE 0, ![j].count = tokens]
  /\ spent' = spent + tokens
  /\ blurred' = (blurred \/ (tokens > 0 /\ \E k \in Jobs : Recording(k)))
  /\ UNCHANGED <<config, content, usage, day, batch, worker, bounds, settled>>

CallFail(j) ==
  /\ job[j].at = "call"
  /\ job' = [job EXCEPT ![j].left = Tail(@),
       ![j].at = IF job[j].via = "native" THEN "native"
                 ELSE IF Len(job[j].left) > 1 THEN "call" ELSE "failed"]
  /\ UNCHANGED <<config, content, usage, day, batch, worker, bounds, ghosts>>

\* All providers have failed.
Fail(j) ==
  /\ job[j].at = "failed" /\ Leave(j)
  /\ UNCHANGED <<config, content, usage, day, batch, worker, bounds, ghosts>>

\* bump, in two statements.
BumpRead(j) ==
  /\ job[j].at = "read"
  /\ job' = [job EXCEPT ![j].at = "write", ![j].count = @ + Counted(job[j].day)]
  /\ UNCHANGED <<config, content, usage, day, batch, worker, bounds, ghosts>>

BumpWrite(j) ==
  /\ job[j].at = "write"
  /\ usage' = [day |-> job[j].day, count |-> job[j].count]
  /\ job' = [job EXCEPT ![j].at = "store", ![j].day = 0, ![j].count = 0]
  /\ Commit
  /\ UNCHANGED <<content, day, batch, worker, bounds, ghosts>>

\* store_summary, which its foreign key refuses for an item that is gone.
Store(j) ==
  LET i == job[j].item  provider == Head(job[j].left)
      key == <<i, provider.id, job[j].via>> IN
  /\ job[j].at = "store"
  /\ cache' = IF i \notin here THEN cache
              ELSE [k \in DOMAIN cache \cup {key} |-> IF k = key THEN provider.model ELSE cache[k]]
  /\ Leave(j) /\ Commit
  /\ settled' =
       IF job[j].text # TextRoute \/ job[j].native # NativeRoute(i)
       THEN settled \ {i}
       ELSE IF j = Worker /\ i \in here THEN settled \cup {i} ELSE settled
  /\ UNCHANGED <<here, arrived, transcript, pending, usage, day, batch, worker, bounds, spent, blurred>>

----------------------------------------------------------------------------
(* The transcript worker.                                                  *)

Due == {i \in here \cap Videos : transcript[i] = "none" \/ i \in pending}

\* select_due: the oldest ones, with what each of them needs.
SelectDue ==
  /\ worker = "idle" /\ Due # {}
  /\ batch' = [n \in 1..Min({Batch, Cardinality(Due)}) |->
       LET i == SetToSortSeq(Due, <)[n] IN
       [item |-> i, fetch |-> transcript[i] = "none", summarize |-> i \in pending]]
  /\ worker' = "next"
  /\ UNCHANGED <<config, content, usage, day, job, bounds, ghosts>>

\* transcript_is_due
StartItem ==
  /\ worker = "next"
  /\ worker' = IF batch = <<>> THEN "idle"
               ELSE IF batch[1].fetch /\ batch[1].item \in here
                       /\ transcript[batch[1].item] = "none" THEN "fetch"
               ELSE "summary"
  /\ UNCHANGED <<config, content, usage, day, job, batch, bounds, ghosts>>

\* Fault: ON DELETE CASCADE is missing.
KeptSummaries(i) == cache

\* What the cascade to item_summaries leaves.
LeftSummaries(i) == [k \in {k \in DOMAIN cache : k[1] # i} |-> cache[k]]

\* DELETE FROM items
Forget(i) ==
  /\ here' = here \ {i} /\ pending' = pending \ {i} /\ settled' = settled \ {i}
  /\ cache' = LeftSummaries(i)
  /\ Commit

\* fetch_store_or_remove_if_live
Fetched(captions) ==
  /\ worker = "fetch"
  /\ transcript' = WithStatus(batch[1].item, captions)
  /\ worker' = "summary"
  /\ Commit
  /\ UNCHANGED <<here, arrived, pending, cache, usage, day, job, batch, bounds, ghosts>>

RemovedLive ==
  /\ worker = "fetch"
  /\ Forget(batch[1].item)
  /\ batch' = Tail(batch) /\ worker' = "next"
  /\ UNCHANGED <<arrived, transcript, usage, day, job, bounds, spent, blurred>>

RateLimited ==
  /\ worker = "fetch"
  /\ batch' = <<>> /\ worker' = "idle"
  /\ UNCHANGED <<config, content, usage, day, job, bounds, ghosts>>

\* attempt_auto_summary, which is over at once when summarize_item has
\* nothing to ask a provider for.
Attempt ==
  LET i == batch[1].item IN
  /\ worker = "summary"
  /\ IF ~batch[1].summarize
     THEN batch' = Tail(batch) /\ worker' = "next" /\ job' = job
     ELSE /\ worker' = "attempt" /\ batch' = batch
          /\ job' = IF Asks(i, FALSE) THEN Asked(Worker, i) ELSE job
  /\ UNCHANGED <<config, content, usage, day, bounds, ghosts>>

\* Fault: the marker stays, to try again.
NotCleared(i) == pending

Cleared(i) == pending \ {i}

\* The marker is cleared whatever the attempt came to.
ClearMarker ==
  /\ worker = "attempt" /\ job[Worker].at = "idle"
  /\ pending' = Cleared(batch[1].item)
  /\ batch' = Tail(batch) /\ worker' = "next"
  /\ Commit
  /\ UNCHANGED <<here, arrived, transcript, cache, usage, day, job, bounds, ghosts>>

\* That write fails, which is only logged.
ClearFails ==
  /\ worker = "attempt" /\ job[Worker].at = "idle"
  /\ crashes < MaxCrashes /\ crashes' = crashes + 1
  /\ batch' = Tail(batch) /\ worker' = "next"
  /\ UNCHANGED <<config, content, usage, day, job, calls, ghosts>>

----------------------------------------------------------------------------
(* The world, and the specification.                                       *)

\* insert_items_with_auto_summary, with the marker if the setting says so.
Arrive(i, auto) ==
  /\ i \notin arrived
  /\ here' = here \cup {i} /\ arrived' = arrived \cup {i}
  /\ pending' = IF auto THEN pending \cup {i} ELSE pending
  /\ Commit
  /\ UNCHANGED <<transcript, cache, usage, day, job, batch, worker, bounds, ghosts>>

\* The retention, or the last unsubscription, deletes an item.
Purge(i) ==
  /\ i \in here /\ Forget(i)
  /\ UNCHANGED <<arrived, transcript, usage, day, job, batch, worker, bounds, spent, blurred>>

NextDay ==
  /\ day < MaxDay /\ day' = day + 1
  /\ spent' = 0
  /\ blurred' = \E j \in Jobs : Recording(j)
  /\ UNCHANGED <<config, content, usage, job, batch, worker, bounds, settled>>

Crash ==
  /\ crashes < MaxCrashes /\ crashes' = crashes + 1
  /\ job' = [j \in Jobs |-> IdleJob] /\ batch' = <<>> /\ worker' = "idle"
  /\ admin' = [a \in Admins |-> IdleAdmin]
  /\ blurred' = (blurred \/ \E j \in Jobs : Recording(j))
  /\ UNCHANGED <<providers, made, routing, handled, content, usage, day, calls, spent, settled>>

Configure ==
  /\ ProvidersNext
  /\ settled' = IF <<providers, routing>>' = <<providers, routing>> THEN settled ELSE {}
  /\ UNCHANGED <<content, usage, day, job, batch, worker, bounds, spent, blurred>>

Init ==
  /\ ProvidersInit
  /\ here = {} /\ arrived = {} /\ pending = {} /\ cache = <<>>
  /\ transcript = [i \in Items |-> "none"]
  /\ usage = [day |-> 0, count |-> 0] /\ day = 0
  /\ job = [j \in Jobs |-> IdleJob] /\ batch = <<>> /\ worker = "idle"
  /\ calls = 0 /\ crashes = 0 /\ spent = 0 /\ blurred = FALSE /\ settled = {}

\* What goes on by itself: every call to a provider has a timeout.
JobStep(j) ==
  \/ Native(j) \/ BumpRead(j) \/ BumpWrite(j) \/ Store(j) \/ CallFail(j) \/ Fail(j)
  \/ \E captions \in Captions : FetchAndStore(j, captions)
  \/ \E empty \in BOOLEAN : Text(j, empty)
  \/ \E tokens \in Tokens : CallOk(j, tokens)

NotLimited == RemovedLive \/ \E captions \in Captions \ {"live", "limited"} : Fetched(captions)
WorkerStep == SelectDue \/ StartItem \/ NotLimited \/ RateLimited \/ Attempt \/ ClearMarker

Next ==
  \/ Configure
  \/ \E j \in Requests, i \in Items, force \in BOOLEAN : Request(j, i, force)
  \/ \E j \in Jobs : JobStep(j)
  \/ WorkerStep \/ ClearFails
  \/ \E i \in Items : Purge(i) \/ \E auto \in BOOLEAN : Arrive(i, auto /\ i \in Videos)
  \/ NextDay \/ Crash

\* The tick of the worker comes back, and YouTube does not limit for ever.
Spec ==
  /\ Init /\ [][Next]_vars
  /\ WF_vars(WorkerStep \/ JobStep(Worker)) /\ SF_vars(NotLimited)

----------------------------------------------------------------------------
(* Properties.                                                             *)

\* Every variable has its type; cached summaries and markers are of items
\* that are stored.
TypeOK ==
  /\ ProvidersTypeOK
  /\ pending \cup settled \subseteq here /\ here \subseteq arrived /\ arrived \subseteq Items
  /\ transcript \in [Items -> {"none", "fetched", "unavailable"}]
  /\ \A k \in DOMAIN cache : k[1] \in here /\ k[3] \in {"native", "text"} /\ cache[k] \in Models
  /\ \A j \in Jobs : job[j].at \in
       {"idle", "native", "transcript", "text", "call", "failed", "read", "write", "store"}
  /\ worker \in {"idle", "next", "fetch", "summary", "attempt"}
  /\ calls \in 0..MaxCalls /\ crashes \in 0..MaxCrashes

\* The budget of a day is overrun by no more than the calls that were let
\* through before their predecessors were counted, one for each caller, as
\* long as no two of them write the counter at the same time, none does so
\* over midnight and none is interrupted.  `spent' is what answers report:
\* the tokens of an answer that is empty (LlmError::Empty) and of attempts
\* that are retried (client.rs:66-76) are in no counter of the code either.
BudgetHolds ==
  ~blurred => spent <= Budget - 1 + Cardinality(Jobs) * Max(Tokens)

\* An automatic summary that has been stored is not paid for again while
\* the configuration stands: an attempt that a restart repeats, because the
\* marker was not cleared yet, finds it in the cache.
AutoPaidOnce ==
  job[Worker].at = "call" => job[Worker].item \notin settled

\* Every item marked for an automatic summary gets its attempt, or goes.
MarkerCleared == \A i \in Videos : i \in pending ~> i \notin pending
=============================================================================
