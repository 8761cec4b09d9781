----------------------------- MODULE IngestRuns -----------------------------
(***************************************************************************)
(* The registry of "Ingest now" runs (events.rs): opened by a request,     *)
(* counted down by the feed tasks of the scheduler, swept by its loop.     *)
(*                                                                         *)
(* feed_done and sweep change the registry under its lock but send their   *)
(* events after releasing it, so the events of two tasks interleave.  A    *)
(* tick polls a feed at most once and joins its tasks before the loop      *)
(* sweeps again.  Time advances in units; Cooldown and Ttl count them.     *)
(***************************************************************************)
EXTENDS Integers, FiniteSets

CONSTANTS
  Users,
  Feeds,
  Outcomes,  \* outcomes of a poll that a run tells apart
  MaxRuns,   \* bound: runs opened between two restarts
  Cooldown,  \* events.rs COOLDOWN
  Ttl        \* events.rs RUN_TTL

ASSUME FeedsFinite == IsFiniteSet(Feeds)
ASSUME OutcomesAssumption == Outcomes \subseteq {"stored", "unchanged", "failed"}
ASSUME TimesAssumption ==
  MaxRuns \in Nat \ {0} /\ Cooldown \in Nat /\ Ttl \in Nat

RunIds == 1..MaxRuns
VARIABLES
  nextId,    \* EventBus.next_id
  open,      \* keys of State.runs
  run,       \* State.runs; the last value of a removed run is kept
  since,     \* time since State.last_run_at; Cooldown + 1 also for "never"
  polled,    \* feeds that reported in the current tick
  out,       \* `out' of feed_done, the events its task has yet to send
  swept,     \* `out' of sweep
  sent,      \* history: every event sent
  heard      \* history: what each run heard of each feed

registry == <<nextId, open, run, since>>
vars == <<registry, polled, out, swept, sent, heard>>

NoRun == [owner |-> "nobody", pending |-> {}, total |-> 0, items |-> 0,
          failed |-> 0, age |-> 0]

\* Event::FeedPolled and Event::IngestFinished.
Progress(r, rec) == [kind |-> "polled", run |-> r,
                     done |-> rec.total - Cardinality(rec.pending)]
Finished(r, rec, timedOut) == [kind |-> "finished", run |-> r,
                               items |-> rec.items, failed |-> rec.failed,
                               timedOut |-> timedOut]

Is(condition) == IF condition THEN 1 ELSE 0

----------------------------------------------------------------------------
\* open_run: cooldown check and insertion under one lock.  S is the set of
\* the user's active subscriptions, read before.
OpenRun(u, S) ==
  /\ since[u] > Cooldown /\ nextId <= MaxRuns /\ S # {}
  /\ since' = [since EXCEPT ![u] = 0]
  /\ nextId' = nextId + 1
  /\ open' = open \cup {nextId}
  /\ run' = [run EXCEPT ![nextId] =
               [NoRun EXCEPT !.owner = u, !.pending = S,
                             !.total = Cardinality(S)]]
  /\ heard' = [heard EXCEPT ![nextId] =
                 [f \in Feeds |-> IF f \in S THEN "awaited" ELSE "not asked"]]
  /\ UNCHANGED <<polled, out, swept, sent>>

\* Fault: feed_done satisfies the first waiting run only.
WaitingFirst(f) ==
  {r \in open : f \in run[r].pending
                  /\ \A s \in open : f \in run[s].pending => r <= s}

\* Fault: the result of pending.remove is ignored.
WaitingOrNot(f) == open

\* The runs a report of feed f counts for.
Waiting(f) == {r \in open : f \in run[r].pending}

AfterReport(rec, f, outcome) ==
  [rec EXCEPT !.pending = @ \ {f},
              !.items = @ + Is(outcome = "stored"),
              !.failed = @ + Is(outcome = "failed")]

\* Fault: a finished run is not removed from the registry.
FeedDoneKeepingRun(f, outcome) ==
  LET complete == {r \in Waiting(f) : run[r].pending \subseteq {f}}
  IN /\ swept = {} /\ f \notin polled
     /\ polled' = polled \cup {f}
     /\ run' = [r \in RunIds |->
                  IF r \in Waiting(f)
                    THEN AfterReport(run[r], f, outcome) ELSE run[r]]
     /\ out' = [out EXCEPT ![f] =
                  {Progress(r, run'[r]) : r \in Waiting(f)}
                    \cup {Finished(r, run'[r], FALSE) : r \in complete}]
     /\ heard' = [r \in RunIds |->
                    IF r \in open /\ heard[r][f] = "awaited"
                      THEN [heard[r] EXCEPT ![f] = outcome] ELSE heard[r]]
     /\ UNCHANGED <<nextId, open, since, swept, sent>>

\* The locked part of feed_done.
FeedDone(f, outcome) ==
  LET complete == {r \in Waiting(f) : run[r].pending \subseteq {f}}
  IN /\ swept = {} /\ f \notin polled
     /\ polled' = polled \cup {f}
     /\ run' = [r \in RunIds |->
                  IF r \in Waiting(f)
                    THEN AfterReport(run[r], f, outcome) ELSE run[r]]
     /\ open' = open \ complete
     /\ out' = [out EXCEPT ![f] =
                  {Progress(r, run'[r]) : r \in Waiting(f)}
                    \cup {Finished(r, run'[r], FALSE) : r \in complete}]
     /\ heard' = [r \in RunIds |->
                    IF r \in open /\ heard[r][f] = "awaited"
                      THEN [heard[r] EXCEPT ![f] = outcome] ELSE heard[r]]
     /\ UNCHANGED <<nextId, since, swept, sent>>

\* emit of feed_done: the progress of each run before any completion.
EmitReport(f, e) ==
  /\ e \in out[f]
  /\ e.kind = "finished" => \A d \in out[f] : d.kind = "finished"
  /\ out' = [out EXCEPT ![f] = @ \ {e}]
  /\ sent' = sent \cup {e}
  /\ UNCHANGED <<registry, polled, swept, heard>>

\* Fault: the loop does not sweep.
LoopTurnsUnswept ==
  /\ swept = {} /\ \A f \in Feeds : out[f] = {}
  /\ polled' = {}
  /\ UNCHANGED <<registry, out, swept, sent, heard>>

\* The last tick's tasks are joined, the loop calls sweep (its locked part)
\* and then starts the next tick.
LoopTurns ==
  LET stale == {r \in open : run[r].age > Ttl}
  IN /\ swept = {} /\ \A f \in Feeds : out[f] = {}
     /\ open' = open \ stale
     /\ swept' = {Finished(r, run[r], TRUE) : r \in stale}
     /\ polled' = {}
     /\ UNCHANGED <<nextId, run, since, out, sent, heard>>

EmitSwept(e) ==
  /\ e \in swept
  /\ swept' = swept \ {e}
  /\ sent' = sent \cup {e}
  /\ UNCHANGED <<registry, polled, out, heard>>

Older(n, limit) == IF n > limit THEN n ELSE n + 1

\* A unit of time passes; ages beyond their limit are not told apart.
ClockTicks ==
  /\ since' = [u \in Users |-> Older(since[u], Cooldown)]
  /\ run' = [r \in RunIds |->
               IF r \in open THEN [run[r] EXCEPT !.age = Older(@, Ttl)]
                             ELSE run[r]]
  /\ UNCHANGED <<nextId, open, polled, out, swept, sent, heard>>

Fresh ==
  [nextId |-> 1, open |-> {}, run |-> [r \in RunIds |-> NoRun],
   since |-> [u \in Users |-> Cooldown + 1], polled |-> {},
   out |-> [f \in Feeds |-> {}], swept |-> {}, sent |-> {},
   heard |-> [r \in RunIds |-> [f \in Feeds |-> "not asked"]]]

Init ==
  /\ nextId = Fresh.nextId /\ open = Fresh.open /\ run = Fresh.run
  /\ since = Fresh.since /\ polled = Fresh.polled /\ out = Fresh.out
  /\ swept = Fresh.swept /\ sent = Fresh.sent /\ heard = Fresh.heard

\* Nothing of the registry is persisted, and run ids start at 1 again.
Restart ==
  /\ nextId' = Fresh.nextId /\ open' = Fresh.open /\ run' = Fresh.run
  /\ since' = Fresh.since /\ polled' = Fresh.polled /\ out' = Fresh.out
  /\ swept' = Fresh.swept /\ sent' = Fresh.sent /\ heard' = Fresh.heard

Emit(e) == EmitSwept(e) \/ \E f \in Feeds : EmitReport(f, e)

Outgoing == swept \cup UNION {out[f] : f \in Feeds}

Next ==
  \/ \E u \in Users, S \in SUBSET Feeds : OpenRun(u, S)
  \/ \E f \in Feeds, outcome \in Outcomes : FeedDone(f, outcome)
  \/ \E e \in Outgoing : Emit(e)
  \/ LoopTurns
  \/ ClockTicks
  \/ Restart

Spec == Init /\ [][Next]_vars

\* The scheduler's loop turns at least every 15 s, tasks that hold events
\* send them, and time passes; requests and polls promise nothing.
Fairness ==
  /\ WF_vars(LoopTurns)
  /\ WF_vars(\E e \in Outgoing : Emit(e))
  /\ WF_vars(ClockTicks)

FairSpec == Spec /\ Fairness /\ <>[][~Restart]_vars

----------------------------------------------------------------------------
(* Properties.                                                             *)

Events ==
  [kind : {"polled"}, run : RunIds, done : 0..Cardinality(Feeds)]
    \cup [kind : {"finished"}, run : RunIds, items : 0..Cardinality(Feeds),
          failed : 0..Cardinality(Feeds), timedOut : BOOLEAN]

TypeOK ==
  /\ nextId \in 1..(MaxRuns + 1)
  /\ open \in SUBSET (1..(nextId - 1))
  /\ run \in [RunIds -> [owner : Users \cup {"nobody"},
                         pending : SUBSET Feeds,
                         total : 0..Cardinality(Feeds),
                         items : 0..Cardinality(Feeds),
                         failed : 0..Cardinality(Feeds),
                         age : 0..(Ttl + 1)]]
  /\ since \in [Users -> 0..(Cooldown + 1)]
  /\ polled \in SUBSET Feeds
  /\ out \in [Feeds -> SUBSET Events]
  /\ swept \in SUBSET Events
  /\ sent \in SUBSET Events
  /\ heard \in [RunIds -> [Feeds -> Outcomes \cup {"not asked", "awaited"}]]

Completions(E, r) == {e \in E : e.kind = "finished" /\ e.run = r}
Count(r, outcome) == Cardinality({f \in Feeds : heard[r][f] = outcome})

\* A run is in the registry until it is finished; then its completion is
\* held by exactly one task or has been sent, never both and never twice,
\* whether its last report or the sweep finishes it.
AnnouncedOnce ==
  \A r \in 1..(nextId - 1) :
    LET holders == {f \in Feeds : Completions(out[f], r) # {}}
    IN Is(r \in open) + Cardinality(holders)
         + Cardinality(Completions(swept, r))
         + Cardinality(Completions(sent, r)) = 1

\* A completion says what the run's feeds reported while it was open: each
\* feed once, and timed out only if one of them never did.
AnnouncementsTrue ==
  \A e \in sent : e.kind = "finished" =>
    /\ e.items = Count(e.run, "stored")
    /\ e.failed = Count(e.run, "failed")
    /\ e.timedOut <=> Count(e.run, "awaited") > 0

\* No run stays open forever, even when a feed of it is never polled again
\* (RUN_TTL: "a stuck feed can't strand the client's toast forever").
RunsEnd ==
  \A r \in RunIds : r \in open ~> Completions(sent, r) # {} \/ r >= nextId

----------------------------------------------------------------------------
(* IngestRuns implements RunPromise: a run counts as open until its        *)
(* completion is sent, unless the sweep removed it.                        *)

StatusOf(r) ==
  IF r >= nextId THEN "unopened"
  ELSE IF Completions(sent, r) # {} THEN "announced"
  ELSE IF Completions(swept, r) # {} THEN "expired"
  ELSE "open"

AccountOf(r) ==
  IF Completions(sent, r) = {} THEN [items |-> 0, failed |-> 0, timedOut |-> FALSE]
  ELSE LET e == CHOOSE c \in Completions(sent, r) : TRUE
       IN [items |-> e.items, failed |-> e.failed, timedOut |-> e.timedOut]

Promise == INSTANCE RunPromise WITH
  status <- [r \in RunIds |-> StatusOf(r)],
  account <- [r \in RunIds |-> AccountOf(r)]

\* Registry, counters and interleaved events together keep the promise.
KeepsPromise == Promise!Spec
=============================================================================
