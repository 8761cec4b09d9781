# A TLA+ model of digestly

Digestly is a self-hosted feed reader: a Rust server (`src/backend`, axum and
SQLite) that polls feeds, stores their items, writes AI summaries and
periodic digests, and a React client (`src/web`) that shows them and works
offline. Paths below are relative to `src/`. This directory models the parts
of it where the order of events matters, checks them with TLC on small
instances, and proves the central facts with TLAPS for every instance.

* [Inventory](#inventory)
* [Modules](#modules)
* [Runs](#runs)
* [Bounds](#bounds)
* [Fairness](#fairness)
* [Proofs](#proofs)
* [What the model shows about the code](#what-the-model-shows-about-the-code)
* [Not modelled](#not-modelled)
* [Plan](#plan)

## Inventory

| Component | State | Operations | What is hard | What makes it correct |
|---|---|---|---|---|
| Polling scheduler (`backend/src/ingest/scheduler.rs`, `store.rs`) | rows `feeds` (`disabled`, `failure_count`, `next_fetch_at`); per batch: semaphore, host locks, join set | tick: select due, claim with a lease, poll, record success / 304 / failure | routes write the same rows between any two statements; leases shorter than a batch; restart in the middle | one poll per feed at a time, no feed starves, failing feeds are quarantined and only a user lifts that |
| Feed fetching and parsing (`ingest/fetch.rs`, `parse.rs`, `sanitize.rs`) | none | conditional GET, parse, sanitize | external documents | outcome classified as not modified, parsed, failed, terminal |
| Item store (`ingest/store.rs`) | `items`, `item_states` | insert or update the items of a poll in one transaction | reads before it writes in a deferred transaction | no duplicates, user state survives an update |
| Feed and subscription routes (`routes/feeds.rs`, `opml.rs`) | `subscriptions`, `feeds` | subscribe, move, unsubscribe, mute, refresh, refresh all, import, export | several statements per request, each racing the scheduler, the sync and other users | a refresh is followed by a poll; an import restores an export |
| Ingest runs (`events.rs`) | in memory: next id, runs, last run of each user | `open_run`, `feed_done`, `sweep`, `run_for` | events are sent after the lock is released; runs share feeds | each run announced once and truly |
| Event stream and toast (`routes/events.rs`, `web/src/hooks/useIngest.ts`, `stores/ingest.ts`) | store `runId`, timer, toasts; a broadcast channel | GET stream, GET status, refresh-all, callbacks | lossy stream, late answers, ids reused after a restart | the button comes back, the toast closes |
| Offline outbox (`web/src/lib/outbox.ts`, `sync.ts`, `hooks/useItems.ts`, `public/sw.js`) | query cache, `localStorage` queue, requests under way | change, send or queue, coalesce, replay | overlapping flushes, lost answers, app closed in the middle | the server ends with the user's last choice |
| Item routes (`routes/items.rs`) | `item_states` | read / star upserts, paged lists, summarize | read, then write; two statements per page, pages cut by offset | flags stay as answered, paging shows everything |
| Digest engine (`digest/mod.rs`, `routes/digest.rs`) | archive of digests, `digest.last_run` | cron tick, run for all, manual run, send | windows of consecutive digests, concurrent runs, late items, restart, daylight saving | no item printed twice, none left out |
| AI providers, budget, summaries (`ai/`, `routes/ai.rs`) | `ai_providers`, routes in settings, usage counters, summary cache | add, edit, activate, delete, route; check, call, record; cache | settings requests racing deletion; check-then-act over a slow call | routes name what exists; bounded overrun; no automatic summary paid twice |
| Transcript worker (`ai/transcript_worker.rs`, `transcript.rs`) | transcript columns, automatic-summary marker | batch, fetch, back off, summarize | rate limits, failed writes, restarts in a batch, items purged under it | every marked item gets its attempt |
| Notifications (`notify/`) | channel settings | push to channels | timeouts | a slow channel delays nothing but its sender |
| Retention (`maintenance.rs`) | `items` | purge by age and by number | next poll meets purged items; stars set during the purge | starred items stay, purged ones do not return |
| Accounts, sessions, passkeys (`routes/auth.rs`, `me.rs`, `admin.rs`, `passkeys.rs`, `auth/`) | users, sessions, credentials, ceremonies in memory | register, sign in, rename, demote, disable, delete, enroll | everything read before the write it guards | an admin remains, rows stay with their person, a ceremony answers once |
| Categories (`routes/categories.rs`) | categories, subscriptions | create, rename, delete with reassignment | subscribe and rename racing the delete, names that differ in case | every subscription in an existing category |
| OAuth connections (`oauth/`, `routes/oauth.rs`) | pending states in memory, tokens | authorize, callback, disconnect, sync subscriptions | expiry, restart, repeated and late callbacks, a sync beside requests by hand | a flow links once, for whom began it; a sync keeps its word |
| Settings autosave (`web/src/hooks`) | drafts, timers | debounced save | refetches and answers out of order | the last edit is stored |
| Web views, HTTP server, configuration | display state, wiring | render, serve | none of its own | the server is asked again after a mutation |

How they interact. The scheduler is one task. A tick reads `feeds` and
`subscriptions`, spawns a task for each selected feed and joins them all. Each
task calls fetch, parse, the item store, perhaps notifications, and at its end
`events.feed_done`. Routes run concurrently on the same SQLite database: a
statement is atomic, a handler is not. `refresh-all` opens a run in the event
bus, then makes the feeds due and wakes the scheduler. The event bus sends
events over a broadcast channel to the stream handler, which sends those of its
user to every tab. The client's outbox talks to the item routes only. Rows
survive a restart of the process; runs, tasks, permits and locks do not.

`PROJECT.json` lists each component with its status, and under `hazards` each
place in the code where one of these orders can go wrong.

## Modules

| Module | Models | Notes |
|---|---|---|
| `FeedPolling` | the scheduler and the routes that race with it | the core |
| `FeedPolling_proofs` | theorems about `FeedPolling` | TLAPS |
| `RunPromise` | what "Ingest now" promises | abstract |
| `IngestRuns` | the registry of runs in `events.rs` | implements `RunPromise` |
| `IngestRuns_proofs` | theorems about `IngestRuns` and `IngestToast`, with the refinement of `RunPromise` | TLAPS |
| `IngestToast` | one tab, composed with `IngestRuns` through a lossy stream | extends `IngestRuns` |
| `Outbox` | the offline outbox of one browser and the server rows it writes | |
| `Digest` | the digest engine: windows, archive, concurrent runs | |
| `Digest_proofs` | theorems about `Digest` | TLAPS |
| `Accounts` | accounts, sessions, passkeys and their ceremonies | |
| `Accounts_proofs` | theorems about `Accounts` | TLAPS |
| `Categories` | categories, subscriptions, OPML | |
| `Categories_proofs` | theorems about `Categories` | TLAPS |
| `Items` | item store, retention, flags and the paged list | |
| `Items_proofs` | theorems about `Items` and `Outbox`: flags at the server and in the browser | TLAPS |
| `Providers` | AI providers and the routes of summaries | |
| `Summaries` | summaries, budget and the transcript worker | extends `Providers` |
| `Summaries_proofs` | theorems about `Providers` and `Summaries` | TLAPS |
| `OAuth` | linking accounts, syncing subscriptions, adding feeds by hand | |
| `OAuth_proofs` | theorems about `OAuth` | TLAPS |
| `MC...` | instances and symmetry for TLC | |

Operators whose comment begins with "Fault" are variants of an operator with
a plausible bug; no specification uses them. `PROJECT.json` pairs each
with the property that tells it from the original.

### FeedPolling

*State.* `sub`, `disabled` and `failures` are columns. Time is reduced to
what `select_due` can distinguish: `due` is the set of feeds whose
`next_fetch_at` has come, `earlier` their order. Backoff, interval and lease
differ only in when the feed gets due again, so all of them are `Postpone`
followed, at any later time, by `TimePasses`; this makes the claim's lease
expire during a poll too, which the code allows. `selected` and `phase` are
the tick's list and the program counter of each task; `note` holds the locals
of `record_failure` between its two statements. `torn` and `wanted` are
history variables. `wanted` follows one refresh of each feed at a time, whichever it
may be: asked for, then with a poll that began after it, then reported. `Restart`
puts it back to asked, because the poll that was to answer it is gone; only a verdict that
disables the feed ends it otherwise.

*Actions.* One per statement that other actors can observe: `Claim` (whose
error is ignored, as in the code), the permit, the host lock, then the fetch
ends as `NotModified`, `StoreItems` and `RecordSuccess`, `CountFailure` and
`SettleFailure`, or `PollError` (every `?` on the way). `SettleError` is a
failed second statement. `Report` ends the task. Routes: `RefreshFeed`,
`RefreshAll`, `Subscribe` and `MarkDue` (two statements of one handler),
`Unsubscribe`, `SetMuted`. `Restart` forgets everything in memory.

The outcomes of a fetch are free choices, so every run of the HTTP and parsing
code is among them.

### IngestRuns and RunPromise

`OpenRun`, `FeedDone` and `LoopTurns` are the locked parts of `open_run`,
`feed_done` and `sweep`. The vectors of events that the code collects under
the lock and sends after it are `out` (one per feed task) and `swept`; `Emit`
sends one event. `EmitReport` keeps the order of the code: progress of all
runs, then completions. `polled` says that a tick reports a feed at most
once, which is what `FeedPolling` shows as `NoOverlappingPolls`. Ages are
counted up to one past the limit they are compared with.

`RunPromise` has no registry and no events: a run is unopened, open, expired
or announced, hears each of its feeds at most once, and its announcement
accounts for what it heard. The refinement mapping of `IngestRuns` reads a
run's status from where its completion is: in the registry or in a task's
hands it is open, in `swept` it is expired, once sent it is announced.

### IngestToast

One tab, with its own actions for every callback that can come late: the answer
to refresh-all (`ClickAnswered`), to the status request (`StatusAnswered`),
an event (`Receive`), the timer, and the end of `settle`, which runs
after a refetch. `inbox` is the stream; `Disconnect` empties it and
`Reload` starts the tab again. `OpenRun` is also possible from another tab and
for another user; the stream (`user_stream`) and the status (`run_for`) keep to
the runs of the tab's own user.

### Outbox

Its specification is `OutboxSpec`, with names of its own for what the other modules call
`Init`, `Next` and `TypeOK`, so that it can stand beside another one in a module of proofs.
`Change` is the mutation function, `Enqueue` its catch branch. A flush is a
process with a copy of the queue (`flush[p]`) and the fate of its request
(`flight[p]`); `StopReplay` and the last `EntryDone` write the remainder over
whatever the queue has become. `fate` decides what the server does when the
request is sent; the client sees it only later, and "reached" may still
end as a lost answer. `PauseChange` and `ResumeChange` are the behaviour of the
query library (external; the code relies on its default network mode).
Changes of a key that overtake one another are recorded in `raced`, changes
that were rejected or closed with the app in `gone`: `SettledWithoutRace`
says what holds outside those cases.

### Digest

`run[r]` holds the locals of one call of `run_all`: the cron task has one, each
manual request another. A call reads the clock once (`Begin`), then for each
user the boundary (`ReadBoundary`, which may fail and then counts as no
previous digest), the items (`Gather`) and, after AI calls that may take
arbitrarily long, inserts the row (`Archive`). `BuildFails` is any failed query
of `build_and_archive`. The tick writes its stamp in the same step in which it
decides to run (`Fire`): nothing else writes the stamp. A restart drops all
calls and keeps rows and settings. `StoreItem` gives an item any publication
time, before or after its storage. Time is in whole seconds, as the columns
are; `InWindow` has the inclusive and the exclusive lower bound of the two
queries. `known` in a row is a history variable: the number of rows its run
took into account.

### Accounts, Categories and OAuth

In these three a handler is a request with locals `req[r]`: it begins, does one
statement per step, and ends; `Fail` or `Stop` ends it after any statement, as
a failed statement or a closed connection does, and `Restart` ends all of them.
Two requests may be served at once, so whatever a request has read may be stale
when it writes. What SQLite guarantees is part of each write: `UNIQUE`,
foreign keys with their cascades, `AUTOINCREMENT`, and a transaction that
begins with a write is one step.

`Accounts`: the extractors are `Extract`, which resolves the caller once; every
later step works with that account's id, whoever has it by then. `person` in a row is
a history variable that tells two accounts of one id apart. `Take` is the one
step under the mutex of the ceremony store. `Restart` runs the bootstrap.

`Categories`: `Fold` is `COLLATE NOCASE`, `Source` a URL without its scheme: the
checks look for names and feeds that are alike, the `UNIQUE` constraints for
equal ones. `file` is what the last export wrote; an import takes its entries in any
order. The onboarding's starter feeds are a loop of their own: `StarterEntry` inserts
an entry's category unless it exists and `StarterId` reads its id, each a statement
by itself; from there on both loops share the subscribing steps, and `Treated` goes back to the loop
a request is in.

`OAuth`: a flow is its `state` value. `states` is the store in memory, `begun`
and `dropped` are history variables. `CallbackTake` removes the state under the
mutex, `CallbackSave` is `save_connection` after the slow exchange. A sync is a request that
goes through `SyncLoad`, `SyncCategory`, `SyncFetch`, `SyncNext` for each entry
and `SyncTouch`; it shares `FindFeed`, `InsertFeed` and `AddSubscription` with
the request that adds a feed by hand, as `subscribe_url` and `subscribe` share
`upsert_feed`. Unsubscribing, deleting a category and the scheduler's claim go on beside them.

### Items

A poll reads (`PollRead`) and writes (`PollWrite`) in one deferred transaction;
a commit of another connection in between makes it fail (`poll.stale`). The
purge loads its two settings one after the other and deletes in two statements. A
flag request is `FlagBegin`, `FlagRead`, `FlagWrite`; the upsert writes one
column of a row that exists and both of a new one. The reader's walk is a count
and a page per request.

A row has the date (`published`) that its entry had when it was inserted: one of those
with which the feed's documents date the entry (`Dates`), or the day of the fetch if they
do not (`EntryDates`, `parse.rs:92`). Dates may be equal. A query by `ORDER BY
published_at` then returns any of the possible orders, each time anew (`First`, `IsPage`).
`rows` counts the polls that stored something and numbers the rows they
made, so that a row that was purged and stored again is told from the old one.

`acked` is the last answer about a flag, kept until the
user asks to change that flag again. `purgedAt` and the `unseen` of a walk are history: the
age under which an item was purged, and the items that have been in the list, with a date
of their own, ever since the walk began and were not on a page yet.

### Providers and Summaries

`Providers` has the statements of the handlers in `routes/ai.rs` that change providers and
routes. `put_ai_settings` reads and then writes in one transaction, which fails
when anything was committed in between (`stale`); `delete` begins with a write.

`Summaries` extends it. A call of `summarize_item` is `job[j]`: the routes and
the cache are read when it begins, then the native route, the transcript, the
text route, each provider of a route in turn with the budget checked before,
`record` in two statements, and the cache. The worker is one more caller. `batch`
is the rest of its tick, and an item of it may be purged, fetched by a reader or
summarized by one before its turn. `spent`, `blurred` and `settled` are history: what today's calls
have used, whether an update of the counter may have been lost, and which items have an automatic summary
under the present configuration.

## Runs

| Run | Question |
|---|---|
| `polling` | with two feeds of one host competing for permits and the host lock, routes between all statements, restarts and torn failure records: is a feed ever polled twice at once, disabled while polled, stuck, or kept enabled past the limit? |
| `polling_live` | with one permit and batches of one, does each feed get polled forever and each refresh answered by a poll that began after it? |
| `runs` | is each run announced once, truly, in time, and does the registry implement `RunPromise`? |
| `toast` | is the button released, whatever is lost? |
| `outbox` | does the server end with the last choice? |
| `digest` | with a scheduled and a manual run that overlap, fail or are cut by a restart: is an item printed twice, or in no digest? |
| `accounts` | with any two requests overlapping: does an administrator remain, does every row stay with its person, is a ceremony used once, has who is signed in a category? |
| `categories` | does a deletion lose a subscription, is there always one Other, does an import restore an export? |
| `items` | do answered flags stand, does a purged item stay away, does paging show everything while polls insert between the pages? |
| `providers` | does a route ever name a provider that is gone or cannot watch videos? |
| `summaries` | how far is the budget overrun, is an automatic summary paid twice, is every marker cleared? |
| `oauth` | does a flow link twice or for somebody else, has a sync done what it answers, is a feed added by hand due? |

All properties hold, in the sense their statements spell out:

* `PolledFeedsAreEnabled`, `NoOverlappingPolls`, `Quarantine`: `record_failure`
  writes `disabled = ?` without reading it, and the lease may end before the poll
  does. That this is harmless depends on the tick joining its tasks and on no
  route disabling feeds; the properties fail when either is changed.
* `NoPollStuck`: permits are taken before host locks and kept while waiting.
  Some poll that is under way can always go on.
* `PolledForever`, `RequestAnswered`: no starvation by the batch limit,
  because `select_due` orders by `next_fetch_at`. The premise `Undisturbed`
  excludes that claims fail to be written and that somebody keeps refreshing
  feeds past one that waits: with either, the code gives no guarantee. What answers
  a refresh is the report of a poll that began after it, through any restart. Two things
  end the promise: nobody follows the feed any more, or a failure record disables
  it, which may be the record of a poll older than the refresh (see below).
  The answer may come late: a poll that was under way moves `next_fetch_at` by the
  whole interval after the refresh has set it. Neither property says anything about
  a failing feed that is not counted (`PollError`): it goes on being polled.
* `AnnouncedOnce`, `AnnouncementsTrue`, `RunsEnd`, `KeepsPromise`: two tasks finishing
  at once, events sent after the lock is released, runs whose feeds never report, and a
  cooldown shorter than the life of a run.
* `ButtonReleased`: across lost events, reused run ids and stale answers.
* `SettledWithoutRace`: lost answers, partial replays, overlapping flushes and
  a closed app lose nothing, unless changes of one key overtook each other.
* `NoReprint`, `NothingSkipped`: the two directions of "each item in one
  digest", with every exception the code makes spelled out. Overlapping runs
  archive rows out of order; the next window starts from `MAX(period_end)`,
  which covers all of them, and a user whose build failed is reached by the
  next window. Exceptions: two runs that read the boundary before either has
  archived print the same items, a manual override prints again what it
  spans, a boundary exactly one look-back old prints its own second again;
  an item stored after its time was covered, one older than the look-back cap,
  and one that a short override jumps over are in no digest.
* `BuiltInAdminStays`: the count of enabled administrators is stale when it is used, and two
  of them may well remove each other; what saves the instance is that the built-in
  one is told apart by its name, which no handler can give away.
* `RowsFollowPerson`: late statements of a request whose account is gone
  meet a foreign key, and an id is never given twice.
* `SignedInHasOther`: except for a registration that stopped half way.
* `Lossless`: for an import that ran to its end into an account that was empty and did nothing else.
* `WalkMissesNothing`: insertions between pages repeat items and never hide one; what
  removes items from the list (reading them under the filter "unread") does hide some, so such walks are excluded,
  and so are items that share their date with another of the list, which may change places from page to page.
* `NoFlapping`: unless the cutoff of the polls is off or longer than the age of the purge, or the
  entry has a later date than before, as an undated entry has at every fetch.
* `RoutesResolve`: a settings request that has looked up a provider fails when it is deleted before the commit.
* `BudgetHolds`: every caller may be let through before its predecessors are counted, so
  the overrun is at most one call for each caller; days on which two updates of the counter overlap are excluded.
* `AutoPaidOnce`: a marker that survives its summary finds it in the cache. `MarkerCleared`: an attempt that fails is not repeated.
* `ConnectionsAreWanted`, `SyncKeepsItsWord`, `HandAddedIsDue`: see `OAuth`.

## Bounds

* `polling`: 2 feeds, 1 user, `MAX_FAILURES` 2, one torn record per feed
  (`MaxTorn`), batch and permits 2. Two feeds on one host are the least that
  compete for a lock with permits to spare. Symmetric in feeds. 1.0 million states.
* `polling_live`: the same with batch and permits 1 (so that one feed must
  wait for the other) and no torn record, without symmetry. 146 thousand states.
* `runs`: 2 users with shared feeds, 2 feeds, 2 runs between restarts
  (`MaxRuns`), `Cooldown` 0 and `Ttl` 1: the cooldown is shorter than the
  life of a run, as in the code, so a user can have two open runs. 132
  thousand states.
* `toast`: 1 feed, 2 runs, one event on the way (`MaxInbox`), two settle
  calls of one run under way (`MaxSettles`). The second run is what a stale
  answer, a stale settle or a reused id can confuse with the first. One user: the
  runs of a second one reach the tab as gaps in the ids only, and the run with two (645 thousand
  states, which passes as well) takes too long to repeat. 354 thousand states.
* `outbox`: 2 keys, 2 flushes, 3 changes (`MaxChanges`): one change to be
  queued, one to overtake it, one more of the other key so that a replay has
  a rest. Symmetric in keys and flushes. 1.5 million states.
* `digest`: 1 user, 2 items, the cron run and one manual run, 3 runs in all
  (`MaxRuns`), 3 moments (`MaxTime`), look-backs of 1 and 2. Users do not
  interact but through the order of the loop; two runs that overlap and a third that builds on
  both are what the properties are about. 4.4 million states; symmetric in items.
* `accounts`: 2 names (one the built-in's), 2 passwords, 2 sessions, 1 key, 1
  ceremony, 3 accounts ever created, 5 requests, 2 at a time; at the start the built-in
  administrator has enrolled the key or not. 768 thousand states. Signing in,
  deleting, registering again and a late statement of the first need four; two
  requests are what a stale read needs.
* `categories`: 2 users, 3 names of which two differ in case only, 3 URLs of
  which two differ in scheme only, one starter feed whose category differs from
  another in case only, 4 categories ever made, 4 requests, 2 at a time. 2.4
  million states.
* `items`: 3 items, one dated the day before the start, one dated the day of it and one undated; the
  feed publishes all of them or all but the second. 2 users, flags of one item (`Marked`), 2 flag requests at
  a time, page size 1, days 0 to 2, limits none or 1, two polls that store something (`MaxRows`), 2 changes of
  flags or settings and walks (`MaxRequests`). Three items are the least for an insertion between two pages
  of a walk: the first poll stores two, which make two pages, and the second inserts the other before, between or
  behind them. The undated item shares its date with a dated one when it is fetched on that day, and has a later
  one when it is fetched again after a purge. Two rows of an item are what a stale request can confuse.
  1.9 million states, symmetric in requests.
* `providers`: a start without providers and routes, up to 3 providers, 2 admins, 6 requests, which
  make both.
* `summaries`: 1 video, 1 reader's request, 1 admin's request, which may make a second provider
  the next of the text route or split the two routes between the providers, budget 1, calls of 1
  token, 1 restart or failed write, 2 days. 417 thousand states. The reader and the worker are the
  two callers who share the counter, the cache and the transcript.
* `oauth`: 2 users, 2 providers, 1 feed, 2 flows, 3 requests, 2 at a time, the
  third for what comes after. 2.6 million states, symmetric in requests and users.

A counter at its bound stops the action that would raise it (a new change,
run or torn record), so that bounded behaviour is a part of the real one.

## Fairness

* Scheduler: `StartTick`, every step of a poll and the passing of time are
  weakly fair. The loop wakes at least every 15 s (`scheduler.rs`), fetches
  and pushes have timeouts, the semaphore and the host locks are FIFO queues,
  and each feed's interval ends. `MarkDue` is the second statement of a handler.
* Registry: the loop sweeps on each turn, tasks send the events they hold, and
  the clock advances. Requests and polls promise nothing: a feed of a run may
  never be polled.
* Tab: callbacks and timers that are due run, and a request the server has
  received is served. Deliveries of the stream and requests may be lost, and
  `Disconnect` and `RequestLost` have no fairness.
* Transcript worker: its steps and those of the call it makes are weakly fair,
  since the tick comes back and every call to YouTube or a provider has a timeout.
  `NotLimited` is strongly fair: YouTube does not answer every attempt with a
  rate limit for ever.
* All liveness is claimed for a server that stops restarting at some point.

`Outbox` has no liveness property: nothing makes the browser go online again.
`Digest` has none either: a failed run is not repeated. A request of the other
modules may be dropped at any step, so they promise safety only.

## Proofs

`FeedPolling_proofs` proves, for all sets of users, all finite sets of feeds,
all hosts, batch sizes, permits and failure limits:

| Theorem | States |
|---|---|
| `Inductive` | the inductive invariant `IInv` |
| `TypeCorrect` | `TypeOK` |
| `PolledFeedsEnabled` | `PolledFeedsAreEnabled` |
| `OnePollPerFeed` | `NoOverlappingPolls` |
| `QuarantineHolds` | `Quarantine` |
| `RefreshAloneReenables` | `OnlyRefreshReenables` |
| `NoCircularWait` | `SomePollGoesOn`, which is `NoPollStuck` with the guards of the steps in place of `ENABLED` |

The assumptions are those of the module: the constants are numbers of the
right kind and each feed has a host.

The argument. `Quarantine` alone is not inductive: when `SettleFailure`
writes `note[f].disable`, the new flag is a local of the task, computed one
step before, and a refresh may have cleared the count in between. So `IInv`
adds `VerdictSound`: while a feed is counted, a verdict not to disable was taken on
a count that is still below the limit (counts only grow by that feed's own
poll, of which there is one, and otherwise fall to 0). It also needs
`PolledFeedsAreEnabled`, because `SettleFailure` writes the flag blindly, and
`NoOverlappingPolls`, because a second poll could raise the count between
the two statements. With the three in place each action is checked by itself
(`InvStep`); actions that only move a poll along share `QuietStep`.
`RefreshAloneReenables` follows from `PolledFeedsAreEnabled`: the only other
writer of `disabled` writes it for a feed that is enabled. `NoCircularWait`
follows from the types: who holds a host lock or has an outcome waits for nobody; if
there is no such task, the first one with a permit finds its host free; and if there is none
of these either, every permit is.

`Digest_proofs` proves, for any number of users, items, manual runs and runs in
all, any look-backs and any schedule (assumed: the look-backs and the minute
are positive, and no manual run is called "cron"):

| Theorem | States |
|---|---|
| `Inductive` | the inductive invariant `IInv` |
| `TypeCorrect` | `TypeOK` |
| `NoReprintHolds` | `NoReprint` |
| `NothingSkippedHolds` | `NothingSkipped` |

The argument. A row is inserted some steps after its run read the boundary
and the items, and other runs insert rows meanwhile. `RunSound` says what is
still true by then: the rows the run knew of end at or before its start
(`MAX`), an exclusive start is the end of some row, and each stored item of the
window was gathered or is stored after the window's end. `RowSound` keeps the
first part for the row. `NoReprint` follows from `RowSound`: an item of both
rows lies at the end of one and the start of the other, and only an inclusive
start, which is the cap, admits it. `NothingSkipped` is kept by `Archive`
(`ArchiveSound`): an item the new row is the first to reach lies before its
start, in its window, or on an exclusive start, and then the row that ends
there had reached it before. All other steps leave the archive alone and
store items no earlier than any row's end (`SameRows`).

`OAuth_proofs` proves, for any users, providers, feeds and requests and any number of
flows (assumed: there is a provider and a feed, so that the locals of an idle
request have a value):

| Theorem | States |
|---|---|
| `Inductive` | the inductive invariant `IInv` |
| `ConnectionsWanted` | `ConnectionsAreWanted` |
| `Answers` | the inductive invariant `AnswersOK` |
| `SyncsKeepTheirWord` | `SyncKeepsItsWord` |
| `AddedByHandIsDue` | `HandAddedIsDue` |

The argument for connections. `ConnectionsAreWanted` says of a saved token that it is not
dropped, but what a callback is about to save was taken from the store several steps
before. `IInv` follows a flow from place to place: pending, held by one callback, the
token of one connection, dropped. `HeldApart` says that a held flow is in no
other place and in no other callback, which is what `take` under the mutex gives;
`ConnectedApart` the same for tokens. Four kinds of steps move a flow; for each, one lemma
shows that it is in its new place only. All others leave the flows
where they are (`Elsewhere`, `MovesOn`).

The argument for answers. Both properties speak of a request that is about to answer, and what
they promise was done entry by entry, or statement by statement, while other requests
worked on the same rows. `AnswersOK` carries it along: for a sync (`SyncOK`), each entry
that it listed is still to come, in hand, or settled, that is, the user is subscribed to
it, or has unsubscribed from it since; for a request by hand (`HandOK`), once
`mark_due` has run the feed is due or has been polled, whichever of the two created the row; and a feed that is due
at once was added by hand (`FeedsOK`). What the others do while a request waits is
one of two kinds: the tables only grow, and then what held goes on to hold
(`ContentGrows`, `WaitingStays`), or a user unsubscribes or the scheduler polls, and the
requests concerned take note of it (`MeanwhileAnswersOK`).

`IngestRuns_proofs` proves, for any users, any finite set of feeds, any time to live and
cooldown and any number of runs (assumed: a feed reports stored, unchanged or failed):

| Theorem | States |
|---|---|
| `Inductive` | the inductive invariant `IInv` |
| `Typed` | `TypeOK` |
| `Once` | `AnnouncedOnce` |
| `Truthful` | `AnnouncementsTrue` |
| `Keeps` | `KeepsPromise`: `IngestRuns` implements `RunPromise` |
| `Composes` | `ToastSpec => Spec`: all of these hold with a tab and its requests beside the registry |
| `TabTyped` | `TabTypeOK`, of `ToastSpec` |

The argument. A run that has left the registry does not change any more, so its
counters determine the one completion it can have (`Completion`). `PlacedOnce` says
where that is: not yet anywhere while the run is registered, then in one task's hands
or in the sweep's, then sent. `RunTrue` ties the counters to what the feeds reported.
`Keeps` takes these facts as given and shows of each action which action of `RunPromise` it
is, under the mapping of `IngestRuns`; sends of progress and the clock are stutters.
`Composes` holds because each step of `IngestToast` is one of the registry or leaves it alone; `TabTyped` takes
the types of events and ids from it, and needs that a set timer belongs to a tracked run, since the
timer settles whatever is tracked when it fires.

`Accounts_proofs` proves, for any names, passwords, sessions, passkeys and ceremonies, and any
numbers of accounts and requests (assumed: the built-in's name and password are
among them):

| Theorem | States |
|---|---|
| `Inductive` | the inductive invariant `IInv` |
| `Typed` | `TypeOK` |
| `AdminRemains` | `BuiltInAdminStays` |
| `RowsFollow` | `RowsFollowPerson` |
| `TakenOnce` | `CeremonyOnce` |
| `HasOther` | `SignedInHasOther` |

The argument. `BuiltInAdminStays` is disturbed by a write whose target was chosen
steps before. `LocalOK` therefore says for every stage of a request which
targets and arguments it can still have: one that renames or deletes its own account
was refused to the built-in at its beginning, one that demotes, disables or
deletes another was refused the built-in as target. The count of administrators, which is
stale when used, plays no part. `PersonsAreIds` replaces the history variable `person` by the id, which
`AUTOINCREMENT` makes possible, and `AccountsHaveOther` extends
`SignedInHasOther` to all accounts, of which some are still being seeded.

`Categories_proofs` proves, for any names with any folding, URLs with any `Source`,
users and requests (assumed: users are finite in number and fit under the bound on categories; the
starter feeds spell Other as the code does, as `seed.rs:14` has it):

| Theorem | States |
|---|---|
| `Inductive` | the inductive invariant `IInv` |
| `Typed` | `TypeOK` |
| `OtherStays` | `OneOther` |
| `Removes` | `OnlyUnsubscribeRemoves` |
| `RoundTrip` | `Lossless` |

The argument. What a request has read of a category is used in a later statement.
`KnowsOK` says what is still true then: the row, if it is there, belongs to the
same user and is the catch-all or not, as it was read. That is preserved because no step turns a row
into the catch-all or the catch-all into another row (`TablesStep`). `Lossless` is about a whole import:
`ImportOK` follows it from entry to entry (what was treated is subscribed or in hand,
what is there came from the file), for as long as nobody else works on the account, and
survives the steps of other users.

`Items_proofs` proves, for any users and readers, any finite set of items with any dates or none, also
equal ones, any documents, page size, limits and numbers of requests (assumed: "off" is among the limits):

| Theorem | States |
|---|---|
| `Inductive` | the inductive invariant `IInv` |
| `Typed` | `TypeOK` |
| `Answered` | `AnswersStand` |
| `Complete` | `WalkMissesNothing` |
| `Settles` | `NoFlapping` |

The argument has three parts that do not need each other. `PollInv`: the date of an item that was purged
for its age is further back than that age, and a poll that has found it new, and is not stale, has
a cutoff that reaches further or a later date for it. `FlagInv`: the row that a flag request works on existed when it read,
and an answer about a flag is only kept while no request is under way to change it. `WalkInv`: an item
that is still owed to the reader has at least as many items before it as the pages so far have skipped or shown. The
place of an item with a date of its own is decided by the dates alone (`Position`, the number of items
with a later date), in whatever order a query returns the others: it is among the first n rows exactly if its
position is below n (`FirstHolds`), and so on the page its position says (`PageHolds`). An insertion moves
positions up only.

The same module proves, for any keys, flushes and numbers of changes (assumed: the keys are finite in number):

| Theorem | States |
|---|---|
| `OutboxInductive` | the inductive invariant `OutboxInv` |
| `OutboxTyped` | `OutboxTypeOK`, of `OutboxSpec` |
| `Settled` | `SettledWithoutRace`, of `OutboxSpec` |

The argument. `SettledWithoutRace` is about keys with nothing pending, and says nothing while
something is. `KeysOK` says what holds of every key that was neither raced nor lost meanwhile: there is
one value v (`SettlesTo`) that the last entry of the key in the queue has, and every entry of
it in a flush; v is at the server already if the queue holds no entry of the key or a flush has
dealt with it, so that an older or a repeated delivery changes nothing; and v is the user's
last choice unless a change of his is still paused or sent and unanswered. Then one such change at
most is under way (`DirectOK`), and if it has reached the server no entry of its key is left that could overwrite it. With
v fixed per key, each step shows which v it leaves: a flush the same one,
`Enqueue` the value of the change it puts behind the others. Coalescing keeps v because it keeps
the last entry of each key, which is a fact about ranks of positions
(`RankType`, `RankGrows`, `Ranks`) and needs no induction over the queue.
The two specifications of the module share neither variables nor theorems.

`Summaries_proofs` proves, for any items, requests of readers and admins, settings bodies,
models, budgets and call sizes (assumed: requests and call sizes are finite in number, a call has some
size; the bodies are well-formed and the first settings are such as requests leave them):

| Theorem | States |
|---|---|
| `Resolves` | `RoutesResolve`, of `ProvidersSpec` |
| `Inductive` | the inductive invariant `IInv` of `Summaries` |
| `Typed` | `TypeOK` |
| `PaidOnce` | `AutoPaidOnce` |
| `Budgeted` | `BudgetHolds` |

The argument. `PutsOK` says of an open settings request that what it has checked
still holds unless its snapshot is stale, and `LeftOK` of a job that the providers it has left
belong to the route it began with. `PaidInv` strengthens `AutoPaidOnce` by its reason: for each item of
`settled` the cache has a hit on a present route. A job that stores under
a route that was changed meanwhile takes its item out of `settled`; every other step keeps
the entries of the cache or forgets them with their item. For
the budget, `CountOK` says that on a day that is not blurred one call at most is being counted, and
that the counter and its tokens are all that was spent. `Within` is the bound with the calls
that have not ended reckoned at the largest size: a call that ends moves its share into
`spent`, and one that begins was let through below the budget, while at least one
of the callers is not calling when something is still being counted. `WorkerInv` is
needed because the worker's attempt overwrites the locals of its job.
`Kept` stands where the community modules offer `SelectSeq`: that one is defined by recursion
over the sequence, of which the provers can show nothing. `RankType`, `RankGrows` and `Ranks` are what `Kept` and `Max` need.

Each inductive invariant was evaluated by TLC on the instance of its run before
it was proved, and for the summaries also with two readers, calls of 0 and 2
tokens and a budget of 3. Every safety property and every action property of the runs is a theorem.
What is only model-checked is beyond the prover:

* `NoPollStuck` of `FeedPolling` speaks of `ENABLED`. `NoCircularWait` proves its form with guards;
  that the guards say what `ENABLED` does was checked by TLC on the instance of `polling`, with one permit and with two.
* The liveness properties (`PolledForever`, `RequestAnswered`, `RunsEnd`, `ButtonReleased`,
  `MarkerCleared`) need reasoning about fairness.

## What the model shows about the code

Places where the code does something that its reader may not expect. The models
have them all, and the properties above are stated around them.

Polling, toast, outbox and digest:

* A refresh between the two `UPDATE`s of `record_failure` (`ingest/store.rs:207`)
  is undone: the verdict on the old count disables the feed that the refresh
  (`routes/feeds.rs:264`: "poll now; also re-enables + clears backoff") has just enabled, and no poll answers it.
* A refresh during a successful poll is answered by the next poll only after the whole interval:
  `record_success` moves `next_fetch_at`, which the refresh had set to now.
* A new subscriber of a quarantined feed never gets a poll: `mark_due`
  leaves `disabled` alone (`routes/feeds.rs:160`) and `select_due` skips the feed.
* `feed_polled` opens the toast of runs the tab does not track, and a late
  status answer makes it forget a run with its timer (`useIngest.ts:96-99`, `129-136`);
  if the completion is lost, that toast spins on, against lines 10-11.
* A queued change overwrites a newer one that was sent directly
  (`sync.ts:45` against `outbox.ts:7-9` and `ARCHITECTURE.md:286-288`).
* An offline change is neither shown nor queued, because the query library
  pauses the mutation before its function runs (`useItems.ts:100` against
  `docs/deployment.md:40-41`).
* With the default schedule and look-back, the seconds by which a run fires later
  in its minute than the last one are in no digest (`digest/mod.rs:273`
  against `README.md:184-186`).
* A body that cannot be parsed ends the poll by `?` (`scheduler.rs:229`)
  without a failure record, so such a feed is polled forever and never
  quarantined; `ARCHITECTURE.md:66-68` counts it. The model has it as
  `PollError`.
* `useIngest.ts:11` calls its 120 s longer than the server's run TTL, which is
  300 s (`events.rs`, `RUN_TTL`).
* `events.rs:247` says that a user has at most one run; the cooldown of 60 s
  permits several within 300 s.
* `docs/deployment.md:50-51` has the service worker replay the outbox after the
  app was closed; `sw.js:45-56` only posts a message to open windows.
* A change queued while a flush is under way is erased by the flush's final
  write (`outbox.ts:121-122`); `raced` accounts for it.
* The comment in `digest/mod.rs:966` has no item in two consecutive digests. A
  boundary exactly one look-back old, or two runs that overlap, do that;
  `NoReprint` names both.
* The comment in `digest/mod.rs:618` says that each scheduled minute is
  observed; the tick waits for the whole run, which may take longer.

Accounts, categories and items:

* Demoting a disabled administrator is refused when one enabled one is
  left (`admin.rs:91-96`): the guard asks whether the target is an admin, and not whether it
  is enabled.
* A registration that stops before the seeding leaves an account without Other;
  `delete_category` then answers 500 there.
* A rename by `patch_me` stays when the password part of the request fails.
* Two requests that add a feed under `http` and `https` at once create two rows for one
  source: the variants are looked up before the insert (`feeds.rs:540`).
* The check for a category's name ignores case, the constraint does not: two
  requests at once can create both spellings. An import stops midway when its own insert clashes.
* Reading items under the filter "unread" while paging hides items (`items.rs`,
  by `OFFSET`); the count and the page are two statements.
* `ORDER BY published_at` (`query.rs:108`) has no second key: items of one date, such as the undated ones of
  one fetch, may change places between two pages, so that one is shown twice and another not at all.
* An undated entry that was purged for its age is stored again, unread, by the next poll that finds it in the
  document, whatever the cutoff: `parse.rs:92` gives it the time of the fetch, which no cutoff excludes
  (`store.rs:93`). Under retention it returns after every purge.

AI:

* `provider.rs:71-72` has an active provider after the first add; deleting the
  active one leaves none, and two first requests at once make two.
* When the only provider of the text route becomes the video route's, the text
  route stays empty (`provider.rs:274-275`) and does not fall back to the active provider.
* Updates of the token counter that overlap lose one; an update that crosses
  midnight writes over the new day's. Tokens of calls that fail or answer nothing are not counted.
* A late call under an old configuration overwrites the newer cached summary of
  its provider. A reader's failing fetch overwrites a transcript that the worker stored
  meanwhile. Under a rate limit, a reader's request caches a summary of the description alone.

OAuth:

* A callback whose exchange is under way when the user disconnects connects
  him again.
* Linking another account keeps `last_sync_at` of the old one, and a sync that
  ends after that stamps the new connection.

## Not modelled

Data: backoff arithmetic, jitter, HTTP caching headers, full-text
extraction, wording and layout. Pure I/O and conversions: HTTP client, parser,
sanitizer, encryption of keys, rendering. The `broadcast` channel's capacity
appears only as loss of events. In the outbox the network does not reorder two
requests of one client, in favour of the code. SQLite statements are atomic,
and a failed statement is modelled where the code reacts to it or ignores it.

In `Digest`, cron parsing, daylight saving, the categories filter and the content of a
digest are left out, `digest.enabled` is not a variable (nothing requires a run to
happen), and items are not purged: retention is off by default (`maintenance.rs:25`),
and a purge only takes items out of later windows.

In `Accounts`: display names, timestamps, names and signature counters of
passkeys; every account has a password, so the last passkey may go. In
`Categories`: positions, colours, titles. In `Items`: search, the other
facets and sort orders, and dates that are finer than days. In `Summaries`: wording, the summary's
text, the HTTP client and its retries, the month's counter, which only differs
in its period, the digests' own AI calls, and the one-shot reflow of
stored transcripts. In `OAuth`: labels, scopes, the clients' configuration and
`status_for`; the scheduler's polling of Reddit feeds with the connection of the lowest
user id.

Notifications: a push is sent and forgotten, and the settings of the channels are
one statement each; only its place in a poll is modelled. Settings autosave is in the
plan. The web views, the server's wiring and the configuration keep no state of their own
whose order of events matters.

## Plan

1. *Composition* of `FeedPolling` and `IngestRuns`: refresh-all in its two
   halves (open the run, then make the feeds due), with reports of polls
   that began before the click.
2. *Autosave* of settings, with refetches and answers out of order.
3. `Items` with the other filters and sort orders of the list.
