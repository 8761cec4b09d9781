------------------------------- MODULE Digest -------------------------------
(***************************************************************************)
(* The digest engine (digest/mod.rs): windows of consecutive digests, runs *)
(* of the cron task beside manual runs (routes/digest.rs), late items,     *)
(* failed builds and restarts.                                             *)
(*                                                                         *)
(* Times are whole seconds, as the digest rows and the items store them:   *)
(* a run's `now' is cut to its second before it bounds any query.  An item *)
(* is one that the filters of every user admit (subscription, score,       *)
(* category).  AI calls and pushes only let time pass: their failures are  *)
(* handled inside a build and do not reach the archive.                    *)
(***************************************************************************)
EXTENDS Integers, Sequences

CONSTANTS
  NumUsers,
  Items,
  Manuals,      \* requests POST /digest/run that may be served together
  Lookbacks,    \* values of digest.lookback_days and of its override
  Minute,       \* units of time in a minute of the cron schedule
  CronMinutes,  \* minutes that digest.cron matches
  MaxTime,      \* bound: the clock
  MaxRuns       \* bound: runs that are started

ASSUME CountsAssumption ==
  NumUsers \in Nat \ {0} /\ Minute \in Nat \ {0} /\ MaxTime \in Nat /\ MaxRuns \in Nat
ASSUME LookbacksAssumption == Lookbacks \subseteq Nat \ {0}
ASSUME CronAssumption == "cron" \notin Manuals

Users == 1..NumUsers  \* ORDER BY id
Times == 0..MaxTime
Runs == Manuals \cup {"cron"}
None == -1

VARIABLES
  now,
  item,      \* item[i]: when it was published and when it was stored
  lookback,  \* digest.lookback_days
  lastRun,   \* digest.last_run
  run,       \* locals of each call of run_all
  archive,   \* archive[u]: the rows of digests of user u, in order of id
  started    \* runs started so far

settings == <<lookback, lastRun>>
vars == <<now, item, settings, run, archive, started>>

NotStored == [published |-> None, stored |-> None]
Stored(i) == item[i].stored # None

\* A call of run_all, about to treat a user: its lookback_override, or None,
\* the bounds of the run, and that user.  Then `known' counts the user's
\* digests that the run knew of when it chose the window from `start'.
Call(stage, over, end, floor, user) ==
  [stage |-> stage, over |-> over, end |-> end, floor |-> floor,
   user |-> user, known |-> 0, start |-> 0, chosen |-> {}]

Idle == Call("idle", None, 0, 0, 1)

----------------------------------------------------------------------------
(* Windows.                                                                *)

\* compute_period_start
PeriodStart(lastEnd, floor) ==
  IF lastEnd # None /\ lastEnd > floor THEN lastEnd ELSE floor

Rows(u) == 1..Len(archive[u])

\* Fault: the latest row instead of MAX(period_end).
LatestRowEnd(u) == {archive[u][n].end : n \in Rows(u) \cap {Len(archive[u])}}

\* last_digest_end: MAX(period_end), nothing when there are no rows.
LastEnd(u) ==
  {archive[u][n].end : n \in {m \in Rows(u) : \A k \in Rows(u) :
                               archive[u][k].end <= archive[u][m].end}}

\* The bounds of the item query; w.start > w.floor is start_exclusive.
InWindow(w, time) ==
  /\ time <= w.end
  /\ IF w.start > w.floor THEN time > w.start ELSE time >= w.start

----------------------------------------------------------------------------
(* A run.                                                                  *)

Update(r, rec) == run' = [run EXCEPT ![r] = rec]

StartWith(r, over) ==
  /\ run[r].stage = "idle" /\ started < MaxRuns
  /\ started' = started + 1
  /\ Update(r, Call("starting", over, 0, 0, 1))

\* tick: the stamp is written before the run.  digest.enabled, which may keep
\* this from happening, is not a variable: nothing here requires that it does.
Fire ==
  LET minute == now \div Minute IN
    /\ minute \in CronMinutes /\ lastRun # minute
    /\ lastRun' = minute
    /\ StartWith("cron", None)
    /\ UNCHANGED <<now, item, lookback, archive>>

\* run_digest
Trigger(m, over) ==
  /\ StartWith(m, over)
  /\ UNCHANGED <<now, item, settings, archive>>

\* run_all up to its loop: one `now' and one lookback for all users.
Begin(r) ==
  LET over == run[r].over IN
    /\ run[r].stage = "starting"
    /\ Update(r, Call("boundary", over, now,
                      now - (IF over = None THEN lookback ELSE over), 1))
    /\ UNCHANGED <<now, item, settings, archive, started>>

\* The list of users cannot be read: the run ends.
BeginFails(r) ==
  /\ run[r].stage = "starting"
  /\ Update(r, Idle)
  /\ UNCHANGED <<now, item, settings, archive, started>>

\* A failed read of the boundary counts as no previous digest.
ReadBoundary(r) ==
  LET u == run[r].user IN
    /\ run[r].stage = "boundary"
    /\ \E lastEnd \in LastEnd(u) \cup {None} :
         LET used == IF run[r].over = None THEN lastEnd ELSE None IN
           Update(r, [run[r] EXCEPT
             !.stage = "gather",
             !.start = PeriodStart(used, run[r].floor),
             !.known = IF used = None THEN 0 ELSE Len(archive[u])])
    /\ UNCHANGED <<now, item, settings, archive, started>>

\* Fault: the loop goes one user too far.
NextUserBeyond(rec) ==
  IF rec.user > NumUsers THEN Idle
  ELSE Call("boundary", rec.over, rec.end, rec.floor, rec.user + 1)

NextUser(rec) ==
  IF rec.user = NumUsers THEN Idle
  ELSE Call("boundary", rec.over, rec.end, rec.floor, rec.user + 1)

\* build_and_archive reads the items; nothing new is not archived.
Gather(r) ==
  LET chosen == {i \in Items : Stored(i) /\ InWindow(run[r], item[i].published)}
  IN /\ run[r].stage = "gather"
     /\ Update(r, IF chosen = {} THEN NextUser(run[r])
                  ELSE [run[r] EXCEPT !.stage = "build", !.chosen = chosen])
     /\ UNCHANGED <<now, item, settings, archive, started>>

\* Fault: the digest ends when it is archived, not when its run began.
ArchiveLate(r) ==
  /\ run[r].stage = "build"
  /\ archive' = [archive EXCEPT ![run[r].user] =
       Append(@, [start |-> run[r].start, floor |-> run[r].floor,
                  end |-> now, over |-> run[r].over,
                  known |-> run[r].known, items |-> run[r].chosen])]
  /\ Update(r, NextUser(run[r]))
  /\ UNCHANGED <<now, item, settings, started>>

\* INSERT INTO digests
Archive(r) ==
  /\ run[r].stage = "build"
  /\ archive' = [archive EXCEPT ![run[r].user] =
       Append(@, [start |-> run[r].start, floor |-> run[r].floor,
                  end |-> run[r].end, over |-> run[r].over,
                  known |-> run[r].known, items |-> run[r].chosen])]
  /\ Update(r, NextUser(run[r]))
  /\ UNCHANGED <<now, item, settings, started>>

\* A query of build_and_archive fails; the loop goes on with the next user.
BuildFails(r) ==
  /\ run[r].stage \in {"gather", "build"}
  /\ Update(r, NextUser(run[r]))
  /\ UNCHANGED <<now, item, settings, archive, started>>

----------------------------------------------------------------------------
(* The rest of the system.                                                 *)

\* insert_items; feeds may date an item in the past or in the future.
StoreItem(i, published) ==
  /\ ~Stored(i)
  /\ item' = [item EXCEPT ![i] = [published |-> published, stored |-> now]]
  /\ UNCHANGED <<now, settings, run, archive, started>>

\* put_config
SetLookback(value) ==
  /\ lookback' = value
  /\ UNCHANGED <<now, item, lastRun, run, archive, started>>

ClockTicks ==
  /\ now < MaxTime
  /\ now' = now + 1
  /\ UNCHANGED <<item, settings, run, archive, started>>

\* Runs are lost, settings and archive stay.
Restart ==
  /\ run' = [r \in Runs |-> Idle]
  /\ UNCHANGED <<now, item, settings, archive, started>>

Init ==
  /\ now = 0
  /\ item = [i \in Items |-> NotStored]
  /\ lookback \in Lookbacks /\ lastRun = None
  /\ run = [r \in Runs |-> Idle]
  /\ archive = [u \in Users |-> <<>>]
  /\ started = 0

RunStep(r) ==
  \/ Begin(r) \/ BeginFails(r)
  \/ ReadBoundary(r)
  \/ Gather(r) \/ Archive(r) \/ BuildFails(r)

Next ==
  \/ Fire
  \/ \E m \in Manuals, over \in Lookbacks \cup {None} : Trigger(m, over)
  \/ \E r \in Runs : RunStep(r)
  \/ \E i \in Items, published \in Times : StoreItem(i, published)
  \/ \E value \in Lookbacks : SetLookback(value)
  \/ ClockTicks
  \/ Restart

Spec == Init /\ [][Next]_vars

----------------------------------------------------------------------------
(* Properties.                                                             *)

Digests == [start : Int, floor : Int, end : Times,
            over : Lookbacks \cup {None}, known : Nat, items : SUBSET Items]

RunRecords == [stage : {"idle", "starting", "boundary", "gather", "build"},
               over : Lookbacks \cup {None}, end : Times, floor : Int,
               user : Users, known : Nat, start : Int, chosen : SUBSET Items]

\* Every variable keeps its type; a run's index stays among the users.
TypeOK ==
  /\ now \in Times
  /\ item \in [Items -> [published : Times \cup {None},
                         stored : Times \cup {None}]]
  /\ lookback \in Lookbacks
  /\ lastRun \in Int
  /\ run \in [Runs -> RunRecords]
  /\ archive \in [Users -> Seq(Digests)]
  /\ started \in 0..MaxRuns

\* No reprint (issue #13): a digest shares no item with any digest its run
\* knew of when it chose the window, however the runs before it overlapped,
\* failed or were archived out of order.  The one item of which this is not
\* true has the second of a boundary that is exactly the look-back away:
\* there the clamped window is inclusive.
NoReprint ==
  \A u \in Users : \A n \in Rows(u) :
    LET d == archive[u][n] IN
      \A m \in 1..d.known : \A i \in d.items \cap archive[u][m].items :
        item[i].published = d.floor /\ item[i].published = archive[u][m].end

\* Nothing is skipped by failures, restarts or overlapping runs: an item up
\* to the last boundary is in some digest, unless it was stored after a
\* digest had covered its time, or lies before the start of a digest that no
\* earlier one reaches (the look-back cap, or a manual override).
NothingSkipped ==
  \A u \in Users, i \in Items :
    LET p == item[i].published IN
      Stored(i) /\ (\E n \in Rows(u) : p <= archive[u][n].end) =>
        \E n \in Rows(u) :
          LET d == archive[u][n] IN
            \/ i \in d.items
            \/ p <= d.end /\ d.end <= item[i].stored
            \/ p < d.start /\ \A m \in 1..(n - 1) : archive[u][m].end < p
=============================================================================
