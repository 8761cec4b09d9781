-------------------------- MODULE IngestRuns_proofs --------------------------
(***************************************************************************)
(* For all users, feeds and outcomes, a run is announced once, with a true *)
(* account, and IngestRuns implements RunPromise.                          *)
(*                                                                         *)
(* The registry counts what a run heard, so that its counters, which stay  *)
(* as they are once it is finished, determine the one completion it can    *)
(* have (Completion).  That event is in one place at a time: it does not   *)
(* exist while the run is in the registry, then one task or the loop has   *)
(* yet to send it, then it is sent.                                        *)
(*                                                                         *)
(* The last part composes the registry with the tab of IngestToast, which  *)
(* takes no step of its own in it.                                         *)
(***************************************************************************)
EXTENDS IngestToast, FiniteSetTheorems, TLAPS

Awaited(r) == {f \in Feeds : heard[r][f] = "awaited"}

\* The counters of a run say what its feeds reported.
RunTrue(r) ==
  /\ run[r].pending = Awaited(r)
  /\ run[r].items = Count(r, "stored") /\ run[r].failed = Count(r, "failed")
  /\ Cardinality(run[r].pending) <= run[r].total

RunsTrue ==
  /\ \A r \in RunIds : RunTrue(r)
  /\ \A r \in open : run[r].pending # {}

\* The completion of run r, if it has one.
Completion(r) == Finished(r, run[r], IF run[r].pending = {} THEN FALSE ELSE TRUE)

\* The events in E tell of runs that were opened and are finished.
Told(E) ==
  \A e \in E : e.kind = "finished" => e.run \in 1..(nextId - 1) \ open /\ e = Completion(e.run)

EventsTrue ==
  /\ Told(swept) /\ Told(sent) /\ \A f \in Feeds : Told(out[f])
  /\ \A e \in swept : e.kind = "finished" /\ run[e.run].pending # {}
  /\ \A f \in Feeds : \A e \in out[f] : e.kind = "finished" => run[e.run].pending = {}

\* A task has polled its feed before it has events to send.
TasksPolled == \A f \in Feeds \ polled : out[f] = {}

Holds(f, r) == Completion(r) \in out[f]

\* Where run r is: in the registry, or its completion with one holder.
PlacedOnce(r) ==
  /\ r \in open \/ (\E f \in Feeds : Holds(f, r)) \/ Completion(r) \in swept \cup sent
  /\ \A f \in Feeds : Holds(f, r) => Completion(r) \notin swept \cup sent
  /\ \A f, g \in Feeds : Holds(f, r) /\ Holds(g, r) => f = g
  /\ Completion(r) \notin swept \cap sent

IInv ==
  /\ TypeOK /\ RunsTrue /\ EventsTrue /\ TasksPolled
  /\ \A r \in 1..(nextId - 1) : PlacedOnce(r)

USE TimesAssumption

----------------------------------------------------------------------------
(* Counting feeds, and the records of runs and events.                     *)

\* Sets of feeds are finite, and no larger than Feeds.
LEMMA FeedSets ==
  ASSUME NEW S \in SUBSET Feeds
  PROVE  /\ IsFiniteSet(S) /\ Cardinality(S) \in Nat /\ Cardinality(S) \in 0..Cardinality(Feeds)
         /\ Cardinality(S) = 0 <=> S = {}
<1>1. IsFiniteSet(S) /\ Cardinality(S) <= Cardinality(Feeds)
  BY FeedsFinite, FS_Subset
<1>2. Cardinality(S) \in Nat /\ Cardinality(Feeds) \in Nat
  BY <1>1, FeedsFinite, FS_CardinalityType
<1>3. Cardinality(S) = 0 <=> S = {}
  BY <1>1, FS_EmptySet
<1> QED BY <1>1, <1>2, <1>3

LEMMA FeedCount == Cardinality(Feeds) \in Nat
BY FeedsFinite, FS_CardinalityType

Runs == [owner : Users \cup {"nobody"}, pending : SUBSET Feeds,
         total : 0..Cardinality(Feeds), items : 0..Cardinality(Feeds),
         failed : 0..Cardinality(Feeds), age : 0..(Ttl + 1)]

LEMMA EventTypes ==
  ASSUME NEW r \in RunIds, NEW rec \in Runs,
         Cardinality(rec.pending) <= rec.total, NEW late \in BOOLEAN
  PROVE  /\ Progress(r, rec) \in Events /\ Progress(r, rec).kind = "polled"
         /\ Finished(r, rec, late) \in Events
         /\ Finished(r, rec, late).kind = "finished" /\ Finished(r, rec, late).run = r
<1>1. Cardinality(rec.pending) \in 0..Cardinality(Feeds)
  BY FeedSets DEF Runs
<1>2. Cardinality(Feeds) \in Nat
  BY FeedsFinite, FS_CardinalityType
<1>3. rec.total - Cardinality(rec.pending) \in 0..Cardinality(Feeds)
  BY <1>1, <1>2 DEF Runs
<1>4. Progress(r, rec) \in Events /\ Progress(r, rec).kind = "polled"
  BY <1>3 DEF Progress, Events
<1>5. Finished(r, rec, late) \in Events
  BY DEF Finished, Events, Runs
<1>6. Finished(r, rec, late).kind = "finished" /\ Finished(r, rec, late).run = r
  BY DEF Finished
<1> QED BY <1>4, <1>5, <1>6

\* What the type invariant says of ids, and of runs and reports.
LEMMA IdTypes ==
  ASSUME TypeOK
  PROVE  /\ nextId \in Nat /\ nextId >= 1 /\ nextId <= MaxRuns + 1
         /\ open \subseteq 1..(nextId - 1) /\ 1..(nextId - 1) \subseteq RunIds
<1>1. nextId \in 1..(MaxRuns + 1) /\ open \subseteq 1..(nextId - 1)
  BY DEF TypeOK
<1>2. nextId \in Nat /\ nextId >= 1 /\ nextId <= MaxRuns + 1
  BY <1>1
<1>3. 1..(nextId - 1) \subseteq RunIds
  BY <1>2 DEF RunIds
<1> QED BY <1>1, <1>2, <1>3

LEMMA RegistryTypes ==
  ASSUME TypeOK
  PROVE  /\ run \in [RunIds -> Runs] /\ since \in [Users -> 0..(Cooldown + 1)]
         /\ heard \in [RunIds -> [Feeds -> Outcomes \cup {"not asked", "awaited"}]]
BY DEF TypeOK, Runs

\* The counters stay true while they and the reports stay.
LEMMA RunTrueStays ==
  ASSUME NEW r, RunTrue(r), heard'[r] = heard[r],
         run'[r].items = run[r].items, run'[r].failed = run[r].failed,
         run'[r].pending = run[r].pending, run'[r].total = run[r].total
  PROVE  RunTrue(r)'
<1>1. {f \in Feeds : heard'[r][f] = "awaited"} = {f \in Feeds : heard[r][f] = "awaited"}
  OBVIOUS
<1>2. \A o : {f \in Feeds : heard'[r][f] = o} = {f \in Feeds : heard[r][f] = o}
  OBVIOUS
<1> QED BY <1>1, <1>2 DEF RunTrue, Awaited, Count

LEMMA CompletionFields ==
  \A r : Completion(r).kind = "finished" /\ Completion(r).run = r
BY DEF Completion, Finished

\* What the counters determine stays while they do.
LEMMA CompletionStays ==
  ASSUME NEW r, run'[r].items = run[r].items, run'[r].failed = run[r].failed,
         run'[r].pending = run[r].pending
  PROVE  Completion(r)' = Completion(r)
BY DEF Completion, Finished

\* The completions of a run among the events in E.
LEMMA CompletionsOf ==
  ASSUME NEW E, NEW r, Told(E)
  PROVE  Completions(E, r) = IF Completion(r) \in E THEN {Completion(r)} ELSE {}
BY CompletionFields DEF Told, Completions

LEMMA InitIInv == Init => IInv
<1> SUFFICES ASSUME Init PROVE IInv
  OBVIOUS
<1>1. nextId = 1 /\ open = {} /\ polled = {} /\ swept = {} /\ sent = {}
  BY DEF Init, Fresh
<1>8. run = [r \in RunIds |-> NoRun] /\ since = [u \in Users |-> Cooldown + 1]
  BY DEF Init, Fresh
<1>9. /\ out = [f \in Feeds |-> {}]
      /\ heard = [r \in RunIds |-> [f \in Feeds |-> "not asked"]]
  BY DEF Init, Fresh
<1>2. Cardinality({}) = 0 /\ Cardinality(Feeds) \in Nat
  BY FeedsFinite, FS_CardinalityType, FS_EmptySet
<1>3. /\ NoRun \in Runs /\ NoRun.pending = {} /\ NoRun.total = 0
      /\ NoRun.items = 0 /\ NoRun.failed = 0
  BY <1>2 DEF NoRun, Runs
<1>4. TypeOK
  <2>1. run \in [RunIds -> Runs]
    BY <1>8, <1>3
  <2>2. since \in [Users -> 0..(Cooldown + 1)]
    <3>1. Cooldown + 1 \in 0..(Cooldown + 1)
      OBVIOUS
    <3> QED BY <1>8, <3>1
  <2>3. nextId \in 1..(MaxRuns + 1) /\ open \in SUBSET (1..(nextId - 1))
    BY <1>1
  <2>4. heard \in [RunIds -> [Feeds -> Outcomes \cup {"not asked", "awaited"}]]
    BY <1>9
  <2>5. out \in [Feeds -> SUBSET Events]
    BY <1>9
  <2>6. swept \in SUBSET Events /\ sent \in SUBSET Events /\ polled \in SUBSET Feeds
    BY <1>1
  <2> QED BY <2>1, <2>2, <2>3, <2>4, <2>5, <2>6 DEF TypeOK, Runs
<1>5. ASSUME NEW r \in RunIds PROVE RunTrue(r)
  <2>1. Awaited(r) = {} /\ Count(r, "stored") = 0 /\ Count(r, "failed") = 0
    BY <1>9, <1>2 DEF Awaited, Count
  <2>2. run[r] = NoRun
    BY <1>8
  <2> QED BY <1>2, <1>3, <2>1, <2>2 DEF RunTrue
<1>6. RunsTrue /\ EventsTrue /\ TasksPolled
  BY <1>1, <1>9, <1>5 DEF RunsTrue, EventsTrue, Told, TasksPolled
<1>7. \A r \in 1..(nextId - 1) : PlacedOnce(r)
  BY <1>1
<1> QED BY <1>4, <1>6, <1>7 DEF IInv

----------------------------------------------------------------------------
(* Events and their places.                                                *)

\* Nothing changes for the runs that are finished.
FinishedStays ==
  \A r \in 1..(nextId - 1) \ open :
    /\ r \in 1..(nextId' - 1) \ open'
    /\ Completion(r)' = Completion(r) /\ run'[r].pending = run[r].pending

\* Events that are only passed on remain true.
LEMMA EventsStay ==
  ASSUME IInv, FinishedStays, \A f \in Feeds : out'[f] \subseteq out[f],
         swept' \subseteq swept, sent' \subseteq sent \cup Outgoing
  PROVE  EventsTrue'
<1>1. ASSUME NEW e \in Outgoing \cup sent, e.kind = "finished"
      PROVE  /\ e.run \in 1..(nextId' - 1) \ open' /\ e = Completion(e.run)'
             /\ run'[e.run].pending = run[e.run].pending
  BY <1>1 DEF Outgoing, IInv, EventsTrue, Told, FinishedStays
<1>2. \A f \in Feeds : out'[f] \subseteq Outgoing
  BY DEF Outgoing
<1>3. swept' \subseteq Outgoing
  BY DEF Outgoing
<1> QED BY <1>1, <1>2, <1>3 DEF IInv, EventsTrue, Told

\* A run that is in the registry has no completion yet.
LEMMA OpenPlaced ==
  ASSUME EventsTrue', NEW r, r \in open'
  PROVE  PlacedOnce(r)'
<1>1. Completion(r)'.kind = "finished" /\ Completion(r)'.run = r
  BY DEF Completion, Finished
<1> QED BY <1>1 DEF EventsTrue, Told, PlacedOnce, Holds

LEMMA PlacedStays ==
  ASSUME NEW r, PlacedOnce(r), r \notin open, Completion(r)' = Completion(r),
         UNCHANGED <<out, swept, sent>>
  PROVE  PlacedOnce(r)'
BY DEF PlacedOnce, Holds

\* A step of the registry that announces nothing.
LEMMA NothingAnnounced ==
  ASSUME IInv, FinishedStays, UNCHANGED <<out, swept, sent>>, TypeOK', RunsTrue', TasksPolled',
         \A r \in 1..(nextId' - 1) \ open' : r \in 1..(nextId - 1) \ open
  PROVE  IInv'
<1>1. EventsTrue'
  BY EventsStay
<1>2. ASSUME NEW r \in 1..(nextId' - 1)
      PROVE  PlacedOnce(r)'
  <2>1. CASE r \in open'
    BY <1>1, <2>1, OpenPlaced
  <2>2. CASE r \notin open'
    BY <2>2, PlacedStays DEF IInv, FinishedStays
  <2> QED BY <2>1, <2>2
<1> QED BY <1>1, <1>2 DEF IInv

\* An event that its holder sends is in one place afterwards as well.
LEMMA EmitKeeps ==
  ASSUME IInv, NEW e \in Outgoing, Emit(e)
  PROVE  IInv'
<1>1. UNCHANGED <<registry, polled, heard>> /\ sent' = sent \cup {e}
  BY DEF Emit, EmitReport, EmitSwept
<1>2. \/ e \in swept /\ swept' = swept \ {e} /\ out' = out
      \/ /\ swept' = swept
         /\ \E f \in Feeds : e \in out[f] /\ out' = [out EXCEPT ![f] = @ \ {e}]
  BY DEF Emit, EmitReport, EmitSwept
<1>3. out \in [Feeds -> SUBSET Events] /\ swept \in SUBSET Events /\ sent \in SUBSET Events
  BY DEF IInv, TypeOK
<1>4. TypeOK'
  <2>1. e \in Events
    BY <1>2, <1>3
  <2>2. out' \in [Feeds -> SUBSET Events] /\ swept' \in SUBSET Events /\ sent' \in SUBSET Events
    BY <1>1, <1>2, <1>3, <2>1
  <2> QED BY <1>1, <2>2 DEF IInv, TypeOK, registry
<1>5. \A f \in Feeds : out'[f] \subseteq out[f]
  BY <1>2, <1>3
<1>6. FinishedStays
  BY <1>1 DEF FinishedStays, Completion, registry
<1>7. EventsTrue'
  BY <1>1, <1>2, <1>5, <1>6, EventsStay
<1>8. RunsTrue' /\ TasksPolled'
  BY <1>1, <1>5 DEF IInv, RunsTrue, RunTrue, Awaited, Count, TasksPolled, registry
<1>9. ASSUME NEW r \in 1..(nextId' - 1)
      PROVE  PlacedOnce(r)'
  <2>1. PlacedOnce(r) /\ Completion(r)' = Completion(r) /\ open' = open
    BY <1>1 DEF IInv, Completion, registry
  <2> DEFINE c == Completion(r)
  <2>2. CASE e # c
    <3>1. \A f \in Feeds : c \in out'[f] <=> c \in out[f]
      BY <1>2, <1>3, <2>2
    <3>2. (c \in swept' <=> c \in swept) /\ (c \in sent' <=> c \in sent)
      BY <1>1, <1>2, <2>2
    <3> QED BY <2>1, <3>1, <3>2 DEF PlacedOnce, Holds
  <2>3. CASE e = c /\ c \in swept /\ swept' = swept \ {c} /\ out' = out
    BY <1>1, <2>1, <2>3 DEF PlacedOnce, Holds
  <2>4. ASSUME e = c, swept' = swept, NEW f \in Feeds, c \in out[f],
               out' = [out EXCEPT ![f] = @ \ {c}]
        PROVE  PlacedOnce(r)'
    <3>1. \A g \in Feeds : c \in out'[g] <=> c \in out[g] /\ g # f
      BY <1>3, <2>4
    <3>2. c \in sent' /\ \A g \in Feeds : c \notin out'[g]
      BY <1>1, <2>1, <2>4, <3>1 DEF PlacedOnce, Holds
    <3> QED BY <2>1, <2>4, <3>2 DEF PlacedOnce, Holds
  <2> QED BY <1>2, <2>2, <2>3, <2>4
<1> QED BY <1>4, <1>7, <1>8, <1>9 DEF IInv

----------------------------------------------------------------------------
(* The registry.                                                           *)

LEMMA UserRuns ==
  ASSUME NEW blank \in Runs, NEW u \in Users, NEW S \in SUBSET Feeds,
         NEW n \in 0..Cardinality(Feeds)
  PROVE  LET rec == [blank EXCEPT !.owner = u, !.pending = S, !.total = n]
         IN  /\ rec \in Runs /\ rec.owner = u /\ rec.pending = S /\ rec.total = n
             /\ rec.items = blank.items /\ rec.failed = blank.failed
BY DEF Runs

LEMMA OpenRunKeeps ==
  ASSUME IInv, NEW u \in Users, NEW S \in SUBSET Feeds, OpenRun(u, S)
  PROVE  IInv'
<1>1. /\ nextId <= MaxRuns /\ S # {} /\ nextId' = nextId + 1
      /\ open' = open \cup {nextId} /\ since' = [since EXCEPT ![u] = 0]
      /\ UNCHANGED <<polled, out, swept, sent>>
  BY DEF OpenRun
<1>2. /\ run \in [RunIds -> Runs] /\ since \in [Users -> 0..(Cooldown + 1)]
      /\ heard \in [RunIds -> [Feeds -> Outcomes \cup {"not asked", "awaited"}]]
  BY RegistryTypes DEF IInv
<1>11. /\ nextId \in 1..MaxRuns /\ open \subseteq 1..(nextId - 1) /\ nextId \notin open
       /\ open \subseteq RunIds /\ 1..(nextId - 1) \subseteq RunIds /\ nextId \in RunIds
  <2>1. nextId \in 1..MaxRuns
    BY <1>1, IdTypes DEF IInv
  <2>2. nextId \notin 1..(nextId - 1)
    BY <2>1
  <2> QED BY <2>1, <2>2, IdTypes DEF IInv, RunIds
<1>12. nextId' \in 1..(MaxRuns + 1) /\ 1..(nextId' - 1) = 1..(nextId - 1) \cup {nextId}
  <2>1. nextId' = nextId + 1
    BY <1>1
  <2> QED BY <1>11, <2>1
<1> DEFINE rec == [NoRun EXCEPT !.owner = u, !.pending = S, !.total = Cardinality(S)]
           start == [f \in Feeds |-> IF f \in S THEN "awaited" ELSE "not asked"]
<1>3. /\ rec.owner = u /\ rec.pending = S /\ rec.total = Cardinality(S) /\ rec.items = 0
      /\ rec.failed = 0 /\ rec \in Runs
  <2>1. Cardinality(S) \in 0..Cardinality(Feeds) /\ Cardinality(Feeds) \in Nat
    BY FeedSets, FeedsFinite, FS_CardinalityType
  <2>2. NoRun \in Runs /\ NoRun.items = 0 /\ NoRun.failed = 0
    BY <2>1 DEF NoRun, Runs
  <2> QED BY <2>1, <2>2, UserRuns DEF Runs
<1>4. /\ run' \in [RunIds -> Runs] /\ run'[nextId] = rec
      /\ \A r \in RunIds : r # nextId => run'[r] = run[r]
  BY <1>2, <1>11, <1>3 DEF OpenRun
<1>5. /\ heard' \in [RunIds -> [Feeds -> Outcomes \cup {"not asked", "awaited"}]]
      /\ heard'[nextId] = start
      /\ \A r \in RunIds : r # nextId => heard'[r] = heard[r]
  BY <1>2, <1>11 DEF OpenRun
<1> HIDE DEF rec
<1>6. TypeOK'
  <2>1. since' \in [Users -> 0..(Cooldown + 1)]
    <3>1. 0 \in 0..(Cooldown + 1)
      OBVIOUS
    <3> QED BY <1>1, <1>2, <3>1
  <2>2. nextId' \in 1..(MaxRuns + 1) /\ open' \in SUBSET (1..(nextId' - 1))
    BY <1>1, <1>11, <1>12
  <2> QED BY <1>1, <1>4, <1>5, <2>1, <2>2 DEF IInv, TypeOK, Runs
<1>7. ASSUME NEW r \in RunIds PROVE RunTrue(r)'
  <2>1. CASE r # nextId
    BY <1>4, <1>5, <2>1, RunTrueStays DEF IInv, RunsTrue
  <2>2. CASE r = nextId
    <3>1. {f \in Feeds : heard'[r][f] = "awaited"} = S
      BY <1>5, <2>2
    <3>2. \A o \in {"stored", "failed"} : {f \in Feeds : heard'[r][f] = o} = {}
      BY <1>5, <2>2
    <3>3. Awaited(r)' = S /\ Count(r, "stored")' = 0 /\ Count(r, "failed")' = 0
      BY <3>1, <3>2, FS_EmptySet DEF Awaited, Count
    <3>4. Cardinality(S) <= Cardinality(S)
      BY FeedSets
    <3> QED BY <1>3, <1>4, <2>2, <3>3, <3>4 DEF RunTrue
  <2> QED BY <2>1, <2>2
<1>8. RunsTrue' /\ TasksPolled'
  <2>1. \A r \in open' : run'[r].pending # {}
    BY <1>1, <1>3, <1>4, <1>11 DEF IInv, RunsTrue
  <2> QED BY <1>1, <1>7, <2>1 DEF IInv, RunsTrue, TasksPolled
<1>9. FinishedStays
  <2>1. ASSUME NEW r \in 1..(nextId - 1) \ open
        PROVE  r \in 1..(nextId' - 1) \ open' /\ run'[r] = run[r]
    <3>1. r # nextId
      BY <1>11
    <3> QED BY <1>1, <1>11, <1>12, <1>4, <3>1
  <2> QED BY <2>1 DEF FinishedStays, Completion
<1>10. \A r \in 1..(nextId' - 1) \ open' : r \in 1..(nextId - 1) \ open
  BY <1>1, <1>12
<1> QED BY <1>1, <1>6, <1>8, <1>9, <1>10, NothingAnnounced

LEMMA OlderType ==
  ASSUME NEW limit \in Nat, NEW n \in 0..(limit + 1)
  PROVE  Older(n, limit) \in 0..(limit + 1)
BY DEF Older

LEMMA ClockTicksKeeps ==
  ASSUME IInv, ClockTicks
  PROVE  IInv'
<1>1. UNCHANGED <<nextId, open, polled, out, swept, sent, heard>>
  BY DEF ClockTicks
<1>2. run \in [RunIds -> Runs] /\ since \in [Users -> 0..(Cooldown + 1)]
  BY DEF IInv, TypeOK, Runs
<1>3. since' \in [Users -> 0..(Cooldown + 1)]
  BY <1>2, OlderType DEF ClockTicks
<1>4. ASSUME NEW r \in RunIds
      PROVE  /\ run'[r] \in Runs /\ run'[r].pending = run[r].pending
             /\ run'[r].items = run[r].items /\ run'[r].failed = run[r].failed
             /\ run'[r].total = run[r].total
  <2> DEFINE old == [run[r] EXCEPT !.age = Older(@, Ttl)]
  <2>1. run[r] \in Runs
    BY <1>2
  <2>2. Older(run[r].age, Ttl) \in 0..(Ttl + 1)
    BY <2>1, OlderType DEF Runs
  <2>3. /\ old \in Runs /\ old.pending = run[r].pending /\ old.items = run[r].items
        /\ old.failed = run[r].failed /\ old.total = run[r].total
    BY <2>1, <2>2 DEF Runs
  <2>4. run'[r] = old \/ run'[r] = run[r]
    BY DEF ClockTicks
  <2> HIDE DEF old
  <2> QED BY <2>1, <2>3, <2>4
<1>5. run' \in [RunIds -> Runs]
  <2>1. run' = [r \in RunIds |-> run'[r]]
    BY DEF ClockTicks
  <2> QED BY <1>4, <2>1
<1>6. TypeOK'
  BY <1>1, <1>3, <1>5 DEF IInv, TypeOK, Runs
<1>7. RunsTrue' /\ TasksPolled'
  <2>1. \A r \in RunIds : RunTrue(r)'
    BY <1>1, <1>4, RunTrueStays DEF IInv, RunsTrue
  <2>2. \A r \in open : r \in RunIds
    BY IdTypes DEF IInv
  <2> QED BY <1>1, <1>4, <2>1, <2>2 DEF IInv, RunsTrue, TasksPolled
<1>8. FinishedStays
  <2>1. \A r \in 1..(nextId - 1) \ open : r \in RunIds
    BY IdTypes DEF IInv
  <2> QED BY <1>1, <1>4, <2>1, CompletionStays DEF FinishedStays
<1> QED BY <1>1, <1>6, <1>7, <1>8, NothingAnnounced

\* A restart is like the first start.
LEMMA RestartKeeps ==
  ASSUME Restart
  PROVE  IInv'
<1>1. Init'
  BY DEF Restart, Init, Fresh
<1>2. (Init => IInv)'
  BY InitIInv, PTL
<1> QED BY <1>1, <1>2

----------------------------------------------------------------------------
(* A report.                                                               *)

\* An answer moves one feed from the awaited ones to those of its outcome.
FeedsWith(h, o) == {f \in Feeds : h[f] = o}

\* Of the feeds' reports in h, that of f is no longer awaited in g.
Answers(g, h, f, outcome) ==
  h[f] = "awaited" /\ \A x \in Feeds : g[x] = IF x = f THEN outcome ELSE h[x]

LEMMA HeardOnce ==
  ASSUME NEW f \in Feeds, NEW outcome \in Outcomes, NEW g, NEW h, Answers(g, h, f, outcome)
  PROVE  /\ FeedsWith(g, "awaited") = FeedsWith(h, "awaited") \ {f}
         /\ \A o \in {"stored", "failed"} :
              /\ outcome = o => Cardinality(FeedsWith(g, o)) = Cardinality(FeedsWith(h, o)) + 1
              /\ outcome # o => Cardinality(FeedsWith(g, o)) = Cardinality(FeedsWith(h, o))
<1>1. outcome # "awaited"
  BY OutcomesAssumption
<1>2. FeedsWith(g, "awaited") = FeedsWith(h, "awaited") \ {f}
  BY <1>1 DEF FeedsWith, Answers
<1>3. ASSUME NEW o \in {"stored", "failed"}
      PROVE  /\ outcome = o => Cardinality(FeedsWith(g, o)) = Cardinality(FeedsWith(h, o)) + 1
             /\ outcome # o => Cardinality(FeedsWith(g, o)) = Cardinality(FeedsWith(h, o))
  <2>1. /\ outcome = o => FeedsWith(g, o) = FeedsWith(h, o) \cup {f}
        /\ outcome # o => FeedsWith(g, o) = FeedsWith(h, o)
    BY DEF FeedsWith, Answers
  <2>2. f \notin FeedsWith(h, o) /\ FeedsWith(h, o) \in SUBSET Feeds
    BY DEF FeedsWith, Answers
  <2>3. IsFiniteSet(FeedsWith(h, o))
    BY <2>2, FeedSets
  <2>4. Cardinality(FeedsWith(h, o) \cup {f}) = Cardinality(FeedsWith(h, o)) + 1
    BY <2>2, <2>3, FS_AddElement
  <2> QED BY <2>1, <2>4
<1> QED BY <1>2, <1>3

\* The record of a run with other counters.
LEMMA CountedRuns ==
  ASSUME NEW rec \in Runs, NEW f, NEW outcome,
         AfterReport(rec, f, outcome).items \in 0..Cardinality(Feeds),
         AfterReport(rec, f, outcome).failed \in 0..Cardinality(Feeds)
  PROVE  AfterReport(rec, f, outcome) \in Runs
<1> DEFINE i == rec.items + Is(outcome = "stored")  j == rec.failed + Is(outcome = "failed")
<1>1. AfterReport(rec, f, outcome) = [rec EXCEPT !.pending = @ \ {f}, !.items = i, !.failed = j]
  BY DEF AfterReport
<1> HIDE DEF i, j
<1>2. i \in 0..Cardinality(Feeds) /\ j \in 0..Cardinality(Feeds)
  BY <1>1 DEF Runs
<1> QED BY <1>1, <1>2 DEF Runs

\* A run that waits for the feed counts the outcome.
LEMMA ReportCounts ==
  ASSUME IInv, NEW f \in Feeds, NEW outcome \in Outcomes, FeedDone(f, outcome),
         NEW r \in Waiting(f)
  PROVE  /\ run'[r].pending = run[r].pending \ {f} /\ run'[r] \in Runs /\ RunTrue(r)'
         /\ heard'[r] = [heard[r] EXCEPT ![f] = outcome] /\ heard[r][f] = "awaited"
<1>1. r \in open /\ r \in RunIds /\ f \in run[r].pending
  BY IdTypes DEF Waiting, IInv
<1>2. run[r] \in Runs
  BY <1>1, RegistryTypes DEF IInv
<1>12. heard[r] \in [Feeds -> Outcomes \cup {"not asked", "awaited"}]
  BY <1>1, RegistryTypes DEF IInv
<1>3. RunTrue(r)
  BY <1>1 DEF IInv, RunsTrue
<1>4. heard[r][f] = "awaited"
  BY <1>1, <1>3 DEF RunTrue, Awaited
<1>5. run'[r] = AfterReport(run[r], f, outcome)
  BY <1>1 DEF FeedDone
<1>6. heard'[r] = [heard[r] EXCEPT ![f] = outcome]
  BY <1>1, <1>4 DEF FeedDone
<1>7. /\ Awaited(r)' = Awaited(r) \ {f}
      /\ \A o \in {"stored", "failed"} :
           /\ outcome = o => Count(r, o)' = Count(r, o) + 1
           /\ outcome # o => Count(r, o)' = Count(r, o)
  <2>1. \A x \in Feeds : heard'[r][x] = IF x = f THEN outcome ELSE heard[r][x]
    BY <1>12, <1>6
  <2>2. Answers(heard'[r], heard[r], f, outcome)
    BY <1>4, <2>1 DEF Answers
  <2>3. /\ FeedsWith(heard'[r], "awaited") = FeedsWith(heard[r], "awaited") \ {f}
        /\ \A o \in {"stored", "failed"} :
             /\ outcome = o => Cardinality(FeedsWith(heard'[r], o)) = Cardinality(FeedsWith(heard[r], o)) + 1
             /\ outcome # o => Cardinality(FeedsWith(heard'[r], o)) = Cardinality(FeedsWith(heard[r], o))
    BY <2>2, HeardOnce
  <2>4. /\ Awaited(r) = FeedsWith(heard[r], "awaited") /\ Awaited(r)' = FeedsWith(heard'[r], "awaited")
        /\ \A o : Count(r, o) = Cardinality(FeedsWith(heard[r], o))
        /\ \A o : Count(r, o)' = Cardinality(FeedsWith(heard'[r], o))
    BY DEF Awaited, Count, FeedsWith
  <2> QED BY <2>3, <2>4
<1>8. /\ run'[r].total = run[r].total /\ run'[r].pending = run[r].pending \ {f}
      /\ run'[r].items = IF outcome = "stored" THEN run[r].items + 1 ELSE run[r].items
      /\ run'[r].failed = IF outcome = "failed" THEN run[r].failed + 1 ELSE run[r].failed
  <2>1. run[r].items \in Nat /\ run[r].failed \in Nat
    BY <1>2, FeedCount DEF Runs
  <2> QED BY <1>2, <1>5, <2>1 DEF AfterReport, Runs, Is
<1>9. Cardinality(run[r].pending \ {f}) <= run[r].total
  <2>1. run[r].pending \in SUBSET Feeds /\ run[r].total \in Nat
    BY <1>2, FeedCount DEF Runs
  <2>2. /\ IsFiniteSet(run[r].pending) /\ Cardinality(run[r].pending) \in Nat
        /\ Cardinality(run[r].pending \ {f}) \in Nat
    BY <2>1, FeedSets
  <2>3. Cardinality(run[r].pending \ {f}) <= Cardinality(run[r].pending)
    BY <2>2, FS_RemoveElement
  <2> QED BY <1>3, <2>1, <2>2, <2>3 DEF RunTrue
<1>10. RunTrue(r)'
  BY <1>3, <1>7, <1>8, <1>9 DEF RunTrue
<1>11. run'[r] \in Runs
  <2>1. run'[r].items \in 0..Cardinality(Feeds) /\ run'[r].failed \in 0..Cardinality(Feeds)
    <3>1. Count(r, "stored")' \in 0..Cardinality(Feeds) /\ Count(r, "failed")' \in 0..Cardinality(Feeds)
      BY FeedSets DEF Count
    <3> QED BY <1>10, <3>1 DEF RunTrue
  <2> QED BY <1>2, <1>5, <2>1, CountedRuns
<1> QED BY <1>4, <1>6, <1>8, <1>10, <1>11

\* The others are not concerned.
LEMMA ReportLeaves ==
  ASSUME IInv, NEW f \in Feeds, NEW outcome \in Outcomes, FeedDone(f, outcome),
         NEW r \in RunIds \ Waiting(f)
  PROVE  run'[r] = run[r] /\ heard'[r] = heard[r]
<1>1. run'[r] = run[r]
  BY DEF FeedDone
<1>2. r \in open => heard[r][f] # "awaited"
  BY DEF Waiting, IInv, RunsTrue, RunTrue, Awaited
<1> QED BY <1>1, <1>2 DEF FeedDone

\* The completion of the runs that the report completes is its task's.
LEMMA FeedDoneKeeps ==
  ASSUME IInv, NEW f \in Feeds, NEW outcome \in Outcomes, FeedDone(f, outcome)
  PROVE  IInv'
<1> DEFINE complete == {r \in Waiting(f) : run[r].pending \subseteq {f}}
           told == {Finished(r, run'[r], FALSE) : r \in complete}
           events == {Progress(r, run'[r]) : r \in Waiting(f)} \cup told
<1>1. /\ swept = {} /\ f \notin polled /\ polled' = polled \cup {f}
      /\ open' = open \ complete /\ UNCHANGED <<nextId, since, swept, sent>>
  BY DEF FeedDone
<1>2. out' = [out EXCEPT ![f] = events]
  BY DEF FeedDone
<1>3. complete \subseteq Waiting(f) /\ Waiting(f) \subseteq open /\ Waiting(f) \subseteq RunIds
  BY IdTypes DEF Waiting, IInv
<1>4. \A r \in Waiting(f) :
        /\ run'[r].pending = run[r].pending \ {f} /\ run'[r] \in Runs /\ RunTrue(r)'
        /\ heard'[r] = [heard[r] EXCEPT ![f] = outcome] /\ heard[r][f] = "awaited"
  BY ReportCounts
<1>5. \A r \in RunIds \ Waiting(f) : run'[r] = run[r] /\ heard'[r] = heard[r]
  BY ReportLeaves
<1>6. ASSUME NEW r \in RunIds
      PROVE  /\ RunTrue(r)' /\ run'[r] \in Runs
             /\ heard'[r] \in [Feeds -> Outcomes \cup {"not asked", "awaited"}]
  <2>1. /\ RunTrue(r) /\ run[r] \in Runs
        /\ heard[r] \in [Feeds -> Outcomes \cup {"not asked", "awaited"}]
    BY RegistryTypes DEF IInv, RunsTrue
  <2>2. CASE r \in Waiting(f)
    BY <1>4, <2>1, <2>2
  <2>3. CASE r \notin Waiting(f)
    BY <1>5, <2>1, <2>3, RunTrueStays
  <2> QED BY <2>2, <2>3
<1>7. ASSUME NEW r \in complete
      PROVE  /\ run'[r].pending = {} /\ Completion(r)' = Finished(r, run'[r], FALSE)
             /\ r \in 1..(nextId - 1) /\ r \notin open'
  <2>1. run'[r].pending = {}
    BY <1>3, <1>4
  <2> QED BY <1>1, <1>3, <2>1, IdTypes DEF Completion, IInv
<1>8. ASSUME NEW e \in events
      PROVE  /\ e \in Events
             /\ e.kind = "finished" => e.run \in complete /\ e = Finished(e.run, run'[e.run], FALSE)
  <2>1. ASSUME NEW r \in Waiting(f)
        PROVE  /\ Progress(r, run'[r]) \in Events /\ Progress(r, run'[r]).kind = "polled"
               /\ Finished(r, run'[r], FALSE) \in Events /\ Finished(r, run'[r], FALSE).run = r
    <3>1. r \in RunIds /\ run'[r] \in Runs /\ Cardinality(run'[r].pending) <= run'[r].total
      BY <1>3, <1>4 DEF RunTrue
    <3> QED BY <3>1, EventTypes
  <2>2. \/ \E r \in Waiting(f) : e = Progress(r, run'[r])
        \/ \E r \in complete : e = Finished(r, run'[r], FALSE)
    BY <1>8
  <2> HIDE DEF complete, events
  <2> QED BY <1>3, <2>1, <2>2
<1>9. out \in [Feeds -> SUBSET Events] /\ out[f] = {}
  BY <1>1 DEF IInv, TypeOK, TasksPolled
<1>10. out'[f] = events /\ \A g \in Feeds : g # f => out'[g] = out[g]
  BY <1>2, <1>9
<1> HIDE DEF complete, events
<1>11. TypeOK'
  <2>1. run' \in [RunIds -> Runs]
    <3>1. run' = [r \in RunIds |-> run'[r]]
      BY DEF FeedDone
    <3> QED BY <1>6, <3>1
  <2>2. heard' \in [RunIds -> [Feeds -> Outcomes \cup {"not asked", "awaited"}]]
    <3>1. heard' = [r \in RunIds |-> heard'[r]]
      BY DEF FeedDone
    <3> QED BY <1>6, <3>1
  <2>3. out' \in [Feeds -> SUBSET Events]
    BY <1>2, <1>8, <1>9
  <2>4. open' \subseteq open /\ polled' \in SUBSET Feeds
    BY <1>1 DEF IInv, TypeOK
  <2> QED BY <1>1, <2>1, <2>2, <2>3, <2>4 DEF IInv, TypeOK, Runs
<1>12. RunsTrue'
  <2>1. ASSUME NEW r \in open'
        PROVE  run'[r].pending # {}
    <3>1. r \in open /\ r \notin complete /\ r \in RunIds
      BY <1>1, IdTypes DEF IInv
    <3>2. CASE r \in Waiting(f)
      BY <1>4, <3>1, <3>2 DEF complete
    <3>3. CASE r \notin Waiting(f)
      BY <1>5, <3>1, <3>3 DEF IInv, RunsTrue
    <3> QED BY <3>2, <3>3
  <2> QED BY <1>6, <2>1 DEF RunsTrue
<1>13. TasksPolled'
  BY <1>1, <1>10 DEF IInv, TasksPolled
\* The events of before tell of runs that the report does not touch.
<1>14. ASSUME NEW r \in 1..(nextId - 1) \ open
       PROVE  /\ r \notin open' /\ run'[r].pending = run[r].pending
              /\ Completion(r)' = Completion(r)
  <2>1. r \in RunIds \ Waiting(f)
    BY <1>3, IdTypes DEF IInv
  <2> QED BY <1>1, <1>5, <2>1 DEF Completion
<1>15. EventsTrue'
  <2>1. Told(swept)' /\ Told(sent)' /\ \A g \in Feeds : g # f => Told(out[g])'
    BY <1>1, <1>10, <1>14 DEF IInv, EventsTrue, Told
  <2>2. Told(out[f])'
    <3>1. ASSUME NEW e \in events, e.kind = "finished"
          PROVE  e.run \in 1..(nextId' - 1) \ open' /\ e = Completion(e.run)'
      <4>1. e.run \in complete /\ e = Finished(e.run, run'[e.run], FALSE)
        BY <1>8, <3>1
      <4>2. PICK r \in complete : r = e.run
        BY <4>1
      <4> QED BY <1>1, <1>7, <4>1, <4>2
    <3> QED BY <1>10, <3>1 DEF Told
  <2>3. \A g \in Feeds : g # f =>
          \A e \in out'[g] : e.kind = "finished" => run'[e.run].pending = {}
    BY <1>10, <1>14 DEF IInv, EventsTrue, Told
  <2>4. \A e \in out'[f] : e.kind = "finished" => run'[e.run].pending = {}
    BY <1>7, <1>8, <1>10
  <2> QED BY <1>1, <2>1, <2>2, <2>3, <2>4 DEF EventsTrue
<1>16. ASSUME NEW r \in 1..(nextId' - 1)
       PROVE  PlacedOnce(r)'
  <2>1. CASE r \in open'
    BY <1>15, <2>1, OpenPlaced
  <2>2. CASE r \in complete
    <3> DEFINE c == Completion(r)'
    <3>1. c.kind = "finished" /\ c.run = r
      BY DEF Completion, Finished
    <3>2. c \notin swept \cup sent /\ \A g \in Feeds : c \notin out[g]
      BY <1>3, <2>2, <3>1 DEF IInv, EventsTrue, Told
    <3>3. c \in out'[f]
      BY <1>7, <1>10, <2>2 DEF events
    <3> HIDE DEF c
    <3>4. \A g \in Feeds : c \in out'[g] <=> g = f
      BY <1>10, <3>2, <3>3
    <3> QED BY <1>1, <3>2, <3>4 DEF c, PlacedOnce, Holds
  <2>3. CASE r \notin open
    <3>1. PlacedOnce(r) /\ r \in 1..(nextId - 1) \ open
      BY <1>1, <2>3 DEF IInv
    <3> DEFINE c == Completion(r)
    <3>2. Completion(r)' = c /\ c.kind = "finished" /\ c.run = r
      BY <1>14, <3>1, CompletionFields
    <3>3. c \notin events
      BY <1>3, <1>8, <2>3, <3>2
    <3>4. \A g \in Feeds : c \in out'[g] <=> c \in out[g]
      BY <1>9, <1>10, <3>3
    <3> QED BY <1>1, <2>3, <3>1, <3>2, <3>4 DEF PlacedOnce, Holds
  <2> QED BY <1>1, <2>1, <2>2, <2>3
<1> QED BY <1>11, <1>12, <1>13, <1>15, <1>16 DEF IInv

----------------------------------------------------------------------------
(* The loop, and the invariant.                                            *)

\* The loop holds the completions of the runs that the sweep removed.
LEMMA LoopTurnsKeeps ==
  ASSUME IInv, LoopTurns
  PROVE  IInv'
<1> DEFINE stale == {r \in open : run[r].age > Ttl}
           events == {Finished(r, run[r], TRUE) : r \in stale}
<1>1. /\ swept = {} /\ swept' = events /\ open' = open \ stale /\ polled' = {}
      /\ UNCHANGED <<nextId, run, since, out, sent, heard>>
  BY DEF LoopTurns
<1>2. \A f \in Feeds : out[f] = {}
  BY DEF LoopTurns
<1>3. ASSUME NEW r \in stale
      PROVE  /\ r \in open /\ r \in 1..(nextId - 1) /\ r \in RunIds /\ run[r] \in Runs
             /\ run[r].pending # {} /\ Cardinality(run[r].pending) <= run[r].total
             /\ Completion(r) = Finished(r, run[r], TRUE)
  <2>1. r \in open /\ r \in 1..(nextId - 1) /\ r \in RunIds
    BY IdTypes DEF IInv
  <2>2. run[r] \in Runs /\ run[r].pending # {} /\ Cardinality(run[r].pending) <= run[r].total
    BY <2>1, RegistryTypes DEF IInv, RunsTrue, RunTrue
  <2> QED BY <2>1, <2>2 DEF Completion
<1>4. \A r \in stale : Finished(r, run[r], TRUE) \in Events
  BY <1>3, EventTypes
<1>5. ASSUME NEW e \in events
      PROVE  e.kind = "finished" /\ e.run \in stale /\ e = Completion(e.run)
  <2>1. PICK r \in stale : e = Finished(r, run[r], TRUE)
    OBVIOUS
  <2> QED BY <1>3, <2>1, CompletionFields
<1> HIDE DEF stale, events
<1>6. TypeOK'
  <2>1. events \subseteq Events
    BY <1>4 DEF events
  <2> QED BY <1>1, <2>1 DEF IInv, TypeOK
<1>7. RunsTrue' /\ TasksPolled'
  <2>1. \A r \in RunIds : RunTrue(r)'
    BY <1>1, RunTrueStays DEF IInv, RunsTrue
  <2> QED BY <1>1, <1>2, <2>1 DEF IInv, RunsTrue, TasksPolled
<1>8. \A r : Completion(r)' = Completion(r)
  BY <1>1 DEF Completion
<1>9. EventsTrue'
  <2>1. Told(sent)' /\ \A f \in Feeds : out'[f] = {}
    BY <1>1, <1>2, <1>8 DEF IInv, EventsTrue, Told
  <2>2. \A e \in events : e.run \in 1..(nextId' - 1) \ open' /\ e = Completion(e.run)'
    BY <1>1, <1>3, <1>5, <1>8
  <2>3. \A e \in events : e.kind = "finished" /\ run[e.run].pending # {}
    BY <1>3, <1>5
  <2> QED BY <1>1, <2>1, <2>2, <2>3 DEF EventsTrue, Told
<1>10. ASSUME NEW r \in 1..(nextId' - 1)
       PROVE  PlacedOnce(r)'
  <2> DEFINE c == Completion(r)
  <2>1. CASE r \in open'
    BY <1>9, <2>1, OpenPlaced
  <2>2. CASE r \in stale
    <3>1. c.run = r /\ c.kind = "finished" /\ c \in events
      BY <1>3, <2>2, CompletionFields DEF events
    <3>2. c \notin sent
      BY <1>3, <2>2, <3>1 DEF IInv, EventsTrue, Told
    <3> QED BY <1>1, <1>2, <1>8, <3>1, <3>2 DEF PlacedOnce, Holds
  <2>3. CASE r \notin open
    <3>1. PlacedOnce(r) /\ c.run = r
      BY <1>1, CompletionFields DEF IInv
    <3>2. c \notin events
      BY <1>3, <1>5, <2>3, <3>1
    <3> QED BY <1>1, <1>2, <1>8, <2>3, <3>1, <3>2 DEF PlacedOnce, Holds
  <2> QED BY <1>1, <2>1, <2>2, <2>3
<1> QED BY <1>6, <1>7, <1>9, <1>10 DEF IInv

LEMMA NextKeeps == IInv /\ [Next]_vars => IInv'
<1> SUFFICES ASSUME IInv, [Next]_vars PROVE IInv'
  OBVIOUS
<1>1. CASE UNCHANGED vars
  <2>1. UNCHANGED <<registry, polled, out, swept, sent, heard>>
    BY <1>1 DEF vars
  <2>2. TypeOK' /\ TasksPolled'
    BY <2>1 DEF IInv, TypeOK, TasksPolled, registry
  <2>3. RunsTrue'
    BY <2>1, RunTrueStays DEF IInv, RunsTrue, registry
  <2>4. FinishedStays
    BY <2>1 DEF FinishedStays, Completion, registry
  <2> QED BY <2>1, <2>2, <2>3, <2>4, NothingAnnounced DEF registry
<1> QED BY <1>1, OpenRunKeeps, FeedDoneKeeps, EmitKeeps, LoopTurnsKeeps, ClockTicksKeeps,
           RestartKeeps DEF Next

\* Every reachable state satisfies the inductive invariant.
THEOREM Inductive == Spec => []IInv
<1> QED BY InitIInv, NextKeeps, PTL DEF Spec

\* Every variable has its type: no counter exceeds the number of feeds.
THEOREM Typed == Spec => []TypeOK
<1>1. IInv => TypeOK
  BY DEF IInv
<1> QED BY <1>1, Inductive, PTL

\* Whichever of the last report (feed_done) and the sweep comes first, the
\* completion of a run exists once.
THEOREM Once == Spec => []AnnouncedOnce
<1>1. ASSUME IInv, NEW r \in 1..(nextId - 1)
      PROVE  LET holders == {f \in Feeds : Completions(out[f], r) # {}}
             IN Is(r \in open) + Cardinality(holders) + Cardinality(Completions(swept, r))
                  + Cardinality(Completions(sent, r)) = 1
  <2> DEFINE c == Completion(r)
             holders == {f \in Feeds : Completions(out[f], r) # {}}
  <2>1. PlacedOnce(r) /\ EventsTrue
    BY <1>1 DEF IInv
  <2>2. /\ Completions(swept, r) = IF c \in swept THEN {c} ELSE {}
        /\ Completions(sent, r) = IF c \in sent THEN {c} ELSE {}
        /\ \A f \in Feeds : Completions(out[f], r) # {} <=> Holds(f, r)
    BY <2>1, CompletionsOf DEF EventsTrue, Holds
  <2>3. r \in open => c \notin swept \cup sent /\ \A f \in Feeds : ~Holds(f, r)
    BY <2>1, CompletionFields DEF EventsTrue, Told, Holds
  <2>4. Cardinality({}) = 0 /\ \A x : Cardinality({x}) = 1
    BY FS_EmptySet, FS_Singleton
  <2> HIDE DEF c, holders
  <2>5. CASE r \in open
    <3>1. holders = {} /\ Completions(swept, r) = {} /\ Completions(sent, r) = {}
      BY <2>2, <2>3, <2>5 DEF holders
    <3> QED BY <2>4, <2>5, <3>1 DEF Is, holders
  <2>6. CASE r \notin open /\ \E f \in Feeds : Holds(f, r)
    <3>1. PICK f \in Feeds : Holds(f, r)
      BY <2>6
    <3>2. \A g \in Feeds : Holds(g, r) <=> g = f
      BY <2>1, <3>1 DEF PlacedOnce
    <3>3. holders = {f}
      BY <2>2, <3>2 DEF holders
    <3>4. Completions(swept, r) = {} /\ Completions(sent, r) = {}
      BY <2>1, <2>2, <3>1 DEF PlacedOnce, c
    <3>5. /\ Cardinality(holders) = 1 /\ Cardinality(Completions(swept, r)) = 0
          /\ Cardinality(Completions(sent, r)) = 0 /\ Is(r \in open) = 0
      BY <2>4, <2>6, <3>3, <3>4, Zenon DEF Is
    <3> QED BY <3>5 DEF holders
  <2>7. CASE r \notin open /\ ~\E f \in Feeds : Holds(f, r)
    <3>1. holders = {}
      BY <2>2, <2>7 DEF holders
    <3>2. \/ Completions(swept, r) = {c} /\ Completions(sent, r) = {}
          \/ Completions(swept, r) = {} /\ Completions(sent, r) = {c}
      BY <2>1, <2>2, <2>7 DEF PlacedOnce, c
    <3>3. /\ Cardinality(holders) = 0 /\ Is(r \in open) = 0
          /\ \/ /\ Cardinality(Completions(swept, r)) = 1
                /\ Cardinality(Completions(sent, r)) = 0
             \/ /\ Cardinality(Completions(swept, r)) = 0
                /\ Cardinality(Completions(sent, r)) = 1
      BY <2>4, <2>7, <3>1, <3>2, Zenon DEF Is
    <3> QED BY <3>3 DEF holders
  <2> QED BY <2>5, <2>6, <2>7
<1>2. IInv => AnnouncedOnce
  BY <1>1 DEF AnnouncedOnce
<1> QED BY <1>2, Inductive, PTL

\* What IngestFinished says of a run is what its feeds reported while it was
\* open, however the events of tasks interleave.
THEOREM Truthful == Spec => []AnnouncementsTrue
<1>1. ASSUME IInv, NEW e \in sent, e.kind = "finished"
      PROVE  /\ e.items = Count(e.run, "stored") /\ e.failed = Count(e.run, "failed")
             /\ e.timedOut <=> Count(e.run, "awaited") > 0
  <2>1. PICK r \in RunIds : r = e.run /\ e = Completion(r) /\ RunTrue(r)
    BY <1>1, IdTypes DEF IInv, EventsTrue, Told, RunsTrue
  <2>2. /\ e.items = run[r].items /\ e.failed = run[r].failed
        /\ e.timedOut = IF run[r].pending = {} THEN FALSE ELSE TRUE
    BY <2>1 DEF Completion, Finished
  <2>3. Count(r, "awaited") = Cardinality(run[r].pending) /\ run[r].pending \in SUBSET Feeds
    BY <2>1 DEF RunTrue, Awaited, Count
  <2>4. Count(r, "awaited") > 0 <=> run[r].pending # {}
    BY <2>3, FeedSets
  <2> QED BY <2>1, <2>2, <2>4 DEF RunTrue
<1>2. IInv => AnnouncementsTrue
  BY <1>1 DEF AnnouncementsTrue
<1> QED BY <1>2, Inductive, PTL

----------------------------------------------------------------------------
(* The promise.                                                            *)

status == [r \in RunIds |-> StatusOf(r)]
account == [r \in RunIds |-> AccountOf(r)]

\* The status and the account of a run change with these variables only.
LEMMA StatusStays ==
  ASSUME UNCHANGED <<nextId, swept, sent>>
  PROVE  status' = status
BY DEF status, StatusOf

LEMMA AccountStays ==
  ASSUME UNCHANGED sent
  PROVE  account' = account
BY DEF account, AccountOf

\* Before its completion is sent or swept, a run is open, and what it still
\* waits for it hears.
LEMMA StatusFacts ==
  ASSUME IInv, NEW r \in RunIds
  PROVE  /\ StatusOf(r) = IF r >= nextId THEN "unopened"
                          ELSE IF Completion(r) \in sent THEN "announced"
                          ELSE IF Completion(r) \in swept THEN "expired" ELSE "open"
         /\ r \in open => StatusOf(r) = "open"
         /\ StatusOf(r) = "open" /\ run[r].pending # {} => r \in open
<1>1. /\ Completions(sent, r) # {} <=> Completion(r) \in sent
      /\ Completions(swept, r) # {} <=> Completion(r) \in swept
  BY CompletionsOf DEF IInv, EventsTrue
<1>2. StatusOf(r) = IF r >= nextId THEN "unopened"
                    ELSE IF Completion(r) \in sent THEN "announced"
                    ELSE IF Completion(r) \in swept THEN "expired" ELSE "open"
  BY <1>1 DEF StatusOf
<1>3. ASSUME r \in open
      PROVE  r < nextId /\ Completion(r) \notin sent /\ Completion(r) \notin swept
  <2>1. r \in 1..(nextId - 1) /\ nextId \in Nat
    BY <1>3, IdTypes DEF IInv
  <2> QED BY <1>3, <2>1, CompletionFields DEF IInv, EventsTrue, Told
<1>4. ASSUME r < nextId, Completion(r) \notin sent, Completion(r) \notin swept,
             run[r].pending # {}
      PROVE  r \in open
  <2>1. r \in 1..(nextId - 1)
    BY <1>4, IdTypes DEF IInv, RunIds
  <2>2. PlacedOnce(r) /\ \A f \in Feeds : ~Holds(f, r)
    BY <1>4, <2>1, CompletionFields DEF IInv, EventsTrue, Holds
  <2> QED BY <1>4, <2>2 DEF PlacedOnce
<1>5. r \in Nat /\ nextId \in Nat
  BY IdTypes DEF IInv, RunIds
<1> QED BY <1>2, <1>3, <1>4, <1>5

LEMMA PromiseInit == Init => Promise!Init
<1> SUFFICES ASSUME Init PROVE Promise!Init
  OBVIOUS
<1>1. nextId = 1 /\ sent = {}
  BY DEF Init, Fresh
<1>4. heard = [r \in RunIds |-> [f \in Feeds |-> "not asked"]]
  BY DEF Init, Fresh
<1>2. ASSUME NEW r \in RunIds PROVE StatusOf(r) = "unopened"
  <2>1. r >= nextId
    BY <1>1 DEF RunIds
  <2> QED BY <2>1 DEF StatusOf
<1>3. \A r \in RunIds : AccountOf(r) = [items |-> 0, failed |-> 0, timedOut |-> FALSE]
  BY <1>1 DEF AccountOf, Completions
<1> QED BY <1>2, <1>3, <1>4 DEF Promise!Init, Promise!NoAccount

LEMMA PromiseOpen ==
  ASSUME IInv, NEW u \in Users, NEW S \in SUBSET Feeds, OpenRun(u, S)
  PROVE  \E r \in RunIds : Promise!Open(r, S)
<1> PICK id : id = nextId
  OBVIOUS
<1>1. id <= MaxRuns /\ nextId' = id + 1 /\ UNCHANGED <<swept, sent>>
  BY DEF OpenRun
<1>2. id \in RunIds /\ id \in Nat
  BY <1>1, IdTypes DEF IInv, RunIds
<1>3. StatusOf(id) = "unopened"
  BY <1>2 DEF StatusOf
<1>4. StatusOf(id)' = "open"
  <2>1. \A e \in sent \cup swept : e.kind = "finished" => e.run # id
    BY <1>2 DEF IInv, EventsTrue, Told
  <2>2. Completions(sent, id)' = {} /\ Completions(swept, id)' = {}
    BY <1>1, <2>1 DEF Completions
  <2>3. ~(id >= nextId')
    BY <1>1, <1>2
  <2> QED BY <2>2, <2>3 DEF StatusOf
<1>5. \A r \in RunIds : r # id => StatusOf(r)' = StatusOf(r)
  BY <1>1, <1>2 DEF StatusOf, RunIds
<1>6. status' = [status EXCEPT ![id] = "open"] /\ status[id] = "unopened"
  BY <1>2, <1>3, <1>4, <1>5 DEF status
<1>7. account' = account
  BY <1>1, AccountStays
<1>8. heard' = [heard EXCEPT ![id] =
                 [f \in Feeds |-> IF f \in S THEN "awaited" ELSE "not asked"]]
  BY DEF OpenRun
<1> QED BY <1>2, <1>6, <1>7, <1>8 DEF Promise!Open, status, account

\* A report is heard by the runs that are in the registry, which are those
\* that are open and still wait.
LEMMA PromiseHear ==
  ASSUME IInv, NEW f \in Feeds, NEW outcome \in Outcomes, FeedDone(f, outcome)
  PROVE  Promise!Hear(f, outcome)
<1>1. UNCHANGED <<nextId, swept, sent>>
  BY DEF FeedDone
<1>2. status' = status /\ account' = account
  BY <1>1, StatusStays, AccountStays
<1>3. ASSUME NEW r \in RunIds
      PROVE  (r \in open /\ heard[r][f] = "awaited") <=> (StatusOf(r) = "open" /\ f \in Awaited(r))
  <2>1. run[r].pending = Awaited(r)
    BY DEF IInv, RunsTrue, RunTrue
  <2>2. f \in Awaited(r) <=> heard[r][f] = "awaited"
    BY DEF Awaited
  <2> QED BY <2>1, <2>2, StatusFacts
<1>4. heard' = [r \in RunIds |-> IF r \in open /\ heard[r][f] = "awaited"
                                 THEN [heard[r] EXCEPT ![f] = outcome] ELSE heard[r]]
  BY DEF FeedDone
<1>5. heard' = [r \in RunIds |-> IF status[r] = "open" /\ f \in Awaited(r)
                                 THEN [heard[r] EXCEPT ![f] = outcome] ELSE heard[r]]
  BY <1>3, <1>4 DEF status
<1> QED BY <1>2, <1>5 DEF Promise!Hear, Promise!Awaited, Awaited, status, account

\* The runs that the sweep removes still wait for a feed.
LEMMA PromiseExpire ==
  ASSUME IInv, IInv', LoopTurns
  PROVE  \E R \in SUBSET RunIds : Promise!Expire(R)
<1> DEFINE stale == {r \in open : run[r].age > Ttl}
<1>1. /\ swept = {} /\ swept' = {Finished(r, run[r], TRUE) : r \in stale}
      /\ UNCHANGED <<nextId, run, sent, heard>>
  BY DEF LoopTurns
<1>2. stale \subseteq RunIds /\ stale \subseteq open
  BY IdTypes DEF IInv
<1>3. \A r \in stale : StatusOf(r) = "open" /\ Awaited(r) # {}
  BY <1>2, StatusFacts DEF IInv, RunsTrue, RunTrue
<1>4. ASSUME NEW r \in RunIds
      PROVE  StatusOf(r)' = IF r \in stale THEN "expired" ELSE StatusOf(r)
  <2>1. Completions(sent, r)' = Completions(sent, r) /\ nextId' = nextId
    BY <1>1 DEF Completions
  <2>2. Completions(swept, r)' # {} <=> r \in stale
    <3>1. \A s : Finished(s, run[s], TRUE).kind = "finished" /\ Finished(s, run[s], TRUE).run = s
      BY DEF Finished
    <3>2. \A e \in swept' : e.kind = "finished" /\ e.run \in stale
      BY <1>1, <3>1
    <3>3. r \in stale => Finished(r, run[r], TRUE) \in swept'
      BY <1>1
    <3> QED BY <3>1, <3>2, <3>3 DEF Completions
  <2>3. Completions(swept, r) = {}
    BY <1>1 DEF Completions
  <2>4. r \in stale => ~(r >= nextId) /\ Completions(sent, r) = {}
    <3>1. r \in stale => StatusOf(r) = "open"
      BY <1>3
    <3> QED BY <3>1 DEF StatusOf
  <2> QED BY <2>1, <2>2, <2>3, <2>4 DEF StatusOf
<1>5. account' = account
  BY <1>1, AccountStays
<1> HIDE DEF stale
<1>6. status' = [r \in RunIds |-> IF r \in stale THEN "expired" ELSE status[r]]
  BY <1>4 DEF status
<1>7. \A r \in stale : status[r] = "open" /\ Awaited(r) # {}
  BY <1>2, <1>3 DEF status
<1>8. Promise!Expire(stale)
  BY <1>1, <1>5, <1>6, <1>7 DEF Promise!Expire, Promise!Awaited, Awaited, status, account
<1> QED BY <1>2, <1>8

\* What is sent of a run is the true account of it.
LEMMA PromiseAnnounce ==
  ASSUME IInv, NEW e \in Outgoing, Emit(e), e.kind = "finished"
  PROVE  \E r \in RunIds : Promise!Announce(r)
<1> PICK k : k = e.run
  OBVIOUS
<1>1. UNCHANGED <<registry, heard>> /\ sent' = sent \cup {e} /\ swept' \subseteq swept
  BY DEF Emit, EmitReport, EmitSwept
<1>2. swept' = swept \ {e}
  <2>1. CASE e \in swept /\ swept' = swept \ {e}
    BY <2>1
  <2>2. ASSUME NEW f \in Feeds, e \in out[f], swept' = swept
        PROVE  swept' = swept \ {e}
    <3>1. k \in 1..(nextId - 1) /\ e = Completion(k)
      BY <2>2 DEF IInv, EventsTrue, Told
    <3> QED BY <2>2, <3>1 DEF IInv, PlacedOnce, Holds
  <2> QED BY <2>1, <2>2 DEF Emit, EmitReport, EmitSwept
<1>3. /\ k \in 1..(nextId - 1) /\ k \in RunIds /\ k \notin open /\ e = Completion(k)
      /\ RunTrue(k)
  BY IdTypes DEF Outgoing, IInv, EventsTrue, Told, RunsTrue
<1>4. Completion(k) \notin sent /\ (Completion(k) \in swept \/ run[k].pending = {})
  BY <1>3 DEF Outgoing, IInv, EventsTrue, PlacedOnce, Holds
<1>5. status[k] = "expired" \/ (status[k] = "open" /\ Awaited(k) = {})
  <2>1. status[k] = StatusOf(k)
    BY <1>3 DEF status
  <2>2. ~(k >= nextId)
    BY <1>3, IdTypes DEF IInv
  <2>3. run[k].pending = Awaited(k)
    BY <1>3 DEF RunTrue, Awaited
  <2>4. StatusOf(k) = IF Completion(k) \in swept THEN "expired" ELSE "open"
    BY <1>3, <1>4, <2>2, StatusFacts
  <2> QED BY <1>4, <2>1, <2>3, <2>4
<1>6. status' = [status EXCEPT ![k] = "announced"]
  <2>1. Completions(sent, k)' # {}
    BY <1>1, <1>3, CompletionFields DEF Completions
  <2>2. StatusOf(k)' = "announced"
    BY <1>1, <1>3, <2>1, IdTypes DEF StatusOf, IInv, registry
  <2>3. ASSUME NEW r \in RunIds, r # k
        PROVE  StatusOf(r)' = StatusOf(r)
    <3>1. Completions(sent, r)' = Completions(sent, r)
      BY <1>1, <2>3 DEF Completions
    <3>2. Completions(swept, r)' = Completions(swept, r)
      BY <1>2, <2>3 DEF Completions
    <3> QED BY <1>1, <3>1, <3>2 DEF StatusOf, registry
  <2> QED BY <1>3, <2>2, <2>3 DEF status
<1>7. account' = [account EXCEPT ![k] = Promise!TrueAccount(k)]
  <2>1. Completions(sent, k) = {}
    BY <1>4, CompletionsOf DEF IInv, EventsTrue
  <2>2. Completions(sent, k)' = {e}
    BY <1>1, <1>3, <2>1, CompletionFields DEF Completions
  <2>3. AccountOf(k)' = [items |-> e.items, failed |-> e.failed, timedOut |-> e.timedOut]
    BY <2>2 DEF AccountOf
  <2>4. e.items = Count(k, "stored") /\ e.failed = Count(k, "failed")
    BY <1>3 DEF Completion, Finished, RunTrue
  <2>5. e.timedOut = (Awaited(k) # {})
    <3>1. e.timedOut = IF Awaited(k) = {} THEN FALSE ELSE TRUE
      BY <1>3 DEF Completion, Finished, RunTrue
    <3> QED BY <3>1
  <2>6. AccountOf(k)' = Promise!TrueAccount(k)
    <3>1. Promise!TrueAccount(k) = [items |-> Count(k, "stored"), failed |-> Count(k, "failed"),
                                    timedOut |-> Awaited(k) # {}]
      BY Zenon DEF Promise!TrueAccount, Promise!Count, Promise!Awaited, Promise!Cardinality,
           Count, Awaited, Cardinality
    <3> QED BY <2>3, <2>4, <2>5, <3>1, Zenon
  <2>7. ASSUME NEW r \in RunIds, r # k
        PROVE  AccountOf(r)' = AccountOf(r)
    <3>1. Completions(sent, r)' = Completions(sent, r)
      BY <1>1, <2>7 DEF Completions
    <3> QED BY <3>1 DEF AccountOf
  <2> QED BY <1>3, <2>6, <2>7 DEF account
<1> QED BY <1>1, <1>3, <1>5, <1>6, <1>7 DEF Promise!Announce, Promise!Awaited, Awaited, status, account

LEMMA PromiseForget ==
  ASSUME Restart
  PROVE  Promise!Forget
<1>1. Init'
  BY DEF Restart, Init, Fresh
<1>2. (Init => Promise!Init)'
  BY PromiseInit, PTL
<1> QED BY <1>1, <1>2 DEF Promise!Init, Promise!Forget

LEMMA PromiseNext == IInv /\ IInv' /\ [Next]_vars => [Promise!Next]_(Promise!vars)
<1> SUFFICES ASSUME IInv, IInv', [Next]_vars PROVE [Promise!Next]_(Promise!vars)
  OBVIOUS
<1>1. ASSUME status' = status, account' = account, heard' = heard
      PROVE  UNCHANGED Promise!vars
  BY <1>1 DEF Promise!vars, status, account
<1>2. CASE UNCHANGED vars
  <2>1. UNCHANGED <<nextId, swept, sent, heard>>
    BY <1>2 DEF vars, registry
  <2> QED BY <1>1, <2>1, StatusStays, AccountStays
<1>3. ASSUME NEW u \in Users, NEW S \in SUBSET Feeds, OpenRun(u, S)
      PROVE  Promise!Next
  BY <1>3, PromiseOpen DEF Promise!Next
<1>4. ASSUME NEW f \in Feeds, NEW outcome \in Outcomes, FeedDone(f, outcome)
      PROVE  Promise!Next
  BY <1>4, PromiseHear DEF Promise!Next
<1>5. ASSUME NEW e \in Outgoing, Emit(e)
      PROVE  Promise!Next \/ UNCHANGED Promise!vars
  <2>1. CASE e.kind = "finished"
    BY <1>5, <2>1, PromiseAnnounce DEF Promise!Next
  <2>2. CASE e.kind # "finished"
    <3>1. UNCHANGED <<registry, heard>> /\ sent' = sent \cup {e} /\ swept' \in {swept, swept \ {e}}
      BY <1>5 DEF Emit, EmitReport, EmitSwept
    <3>2. /\ \A r : Completions(sent, r)' = Completions(sent, r)
          /\ \A r : Completions(swept, r)' = Completions(swept, r)
      BY <2>2, <3>1 DEF Completions
    <3>3. status' = status /\ account' = account
      BY <3>1, <3>2 DEF status, account, StatusOf, AccountOf, registry
    <3> QED BY <1>1, <3>1, <3>3
  <2> QED BY <2>1, <2>2
<1>6. CASE LoopTurns
  BY <1>6, PromiseExpire DEF Promise!Next
<1>7. CASE ClockTicks
  <2>1. UNCHANGED <<nextId, swept, sent, heard>>
    BY <1>7 DEF ClockTicks
  <2> QED BY <1>1, <2>1, StatusStays, AccountStays
<1>8. CASE Restart
  BY <1>8, PromiseForget DEF Promise!Next
<1> QED BY <1>2, <1>3, <1>4, <1>5, <1>6, <1>7, <1>8 DEF Next

\* Registry, counters and interleaved events implement what RunPromise says
\* of "Ingest now": each step of events.rs is one of its steps or none.
THEOREM Keeps == Spec => KeepsPromise
<1> QED BY PromiseInit, PromiseNext, Inductive, PTL DEF Spec, Promise!Spec, KeepsPromise

----------------------------------------------------------------------------
(* A tab that watches the runs.  Its steps leave the registry alone or are *)
(* steps of it, so that all of the above holds of the composition.         *)

\* What is under way to the tab is an event, and the timer is for a run.
TabInv ==
  /\ TabTypeOK
  /\ inbox \in Seq(Events)
  /\ armed => runId # NoId

Asked == [stage : {"none", "sent", "served"}, mount : BOOLEAN, run : RunIds \cup {NoId}]

LEMMA AskedTypes ==
  /\ NotAsked \in Asked
  /\ [NotAsked EXCEPT !.stage = "sent"] \in Asked
  /\ [NotAsked EXCEPT !.stage = "sent", !.mount = TRUE] \in Asked
BY DEF NotAsked, Asked

LEMMA ToastStart == ToastInit => Init /\ TabInv
<1> SUFFICES ASSUME ToastInit PROVE TabInv
  BY DEF ToastInit
<1>1. inbox \in Seq(Events) /\ Len(inbox) <= MaxInbox /\ \A i \in 1..Len(inbox) : inbox[i] \in Events
  BY BoundsAssumption DEF ToastInit
<1>2. settling \in [RunIds -> 0..MaxSettles]
  BY BoundsAssumption DEF ToastInit
<1>3. asked \in Asked
  BY AskedTypes DEF ToastInit
<1> QED BY <1>1, <1>2, <1>3 DEF ToastInit, TabInv, TabTypeOK, Asked

\* The registry as it is met by the tab.
LEMMA ToastSteps == [ToastNext]_allVars => [Next]_vars
<1> SUFFICES ASSUME [ToastNext]_allVars PROVE [Next]_vars
  OBVIOUS
<1>1. CASE ServerEmits
  BY <1>1 DEF ServerEmits, Next
<1>2. CASE ServerWorks
  BY <1>2 DEF ServerWorks, Next
<1>3. CASE ServerRestarts
  BY <1>3 DEF ServerRestarts, Next
<1>4. CASE \E S \in SUBSET Feeds : Click(S)
  BY <1>4, MeAssumption DEF Click, Next
<1>5. CASE ClickRefused \/ StatusServed \/ RequestLost \/ TabStep \/ Disconnect \/ Reload
  BY <1>5 DEF ClickRefused, StatusServed, RequestLost, TabStep, ClickAnswered, StatusAnswered,
     Receive, TimerFires, Settle, Disconnect, Reload
<1>6. CASE UNCHANGED allVars
  BY <1>6 DEF allVars
<1> QED BY <1>1, <1>2, <1>3, <1>4, <1>5, <1>6 DEF ToastNext

\* An event that is sent is one of a run.
LEMMA OutgoingEvents ==
  ASSUME TypeOK, NEW e \in Outgoing
  PROVE  e \in Events
<1>1. CASE e \in swept
  BY <1>1 DEF TypeOK
<1>2. CASE \E f \in Feeds : e \in out[f]
  <2>1. PICK f \in Feeds : e \in out[f]
    BY <1>2
  <2>2. out[f] \in SUBSET Events
    BY DEF TypeOK
  <2> QED BY <2>1, <2>2
<1> QED BY <1>1, <1>2 DEF Outgoing

\* Messages on their way, and those left once the first is read.
LEMMA InboxTypes ==
  ASSUME TabInv
  PROVE  /\ \A i \in 1..Len(inbox) : inbox[i] \in Events
         /\ \A e \in Events : Append(inbox, e) \in Seq(Events) /\ Len(Append(inbox, e)) = Len(inbox) + 1
         /\ inbox # <<>> =>
              Head(inbox) \in Events /\ Tail(inbox) \in Seq(Events) /\ Len(Tail(inbox)) < Len(inbox)
         /\ Len(inbox) \in Nat
BY DEF TabInv

\* The store: a tracked run may be timed, no run may not.
LEMMA TrackKeeps ==
  ASSUME TabInv, NEW r \in RunIds \cup {NoId}, Track(r)
  PROVE  /\ runId' \in RunIds \cup {NoId} /\ armed' \in BOOLEAN
         /\ armed' => runId' # NoId
BY DEF TabInv, TabTypeOK, Track

LEMMA ServerTypes ==
  ASSUME TypeOK, TabInv
  PROVE  /\ ServerEmits => TabInv'
         /\ ServerWorks => TabInv'
         /\ ServerRestarts => TabInv'
         /\ \A S \in SUBSET Feeds : Click(S) => TabInv'
         /\ ClickRefused => TabInv'
         /\ StatusServed => TabInv'
<1> USE BoundsAssumption
<1>1. ASSUME ServerEmits PROVE TabInv'
  <2>1. CASE UNCHANGED inbox
    BY <1>1, <2>1 DEF ServerEmits, TabInv, TabTypeOK, storeVars, requestVars
  <2>2. CASE ~UNCHANGED inbox
    <3>1. PICK e \in Outgoing : Len(inbox) < MaxInbox /\ inbox' = Append(inbox, e)
      BY <1>1, <2>2 DEF ServerEmits
    <3>2. inbox' \in Seq(Events) /\ Len(inbox') <= MaxInbox
      BY <3>1, OutgoingEvents, InboxTypes
    <3>3. \A i \in 1..Len(inbox') : inbox'[i] \in Events
      BY <3>2
    <3> QED BY <1>1, <3>2, <3>3 DEF ServerEmits, TabInv, TabTypeOK, storeVars, requestVars
  <2> QED BY <2>1, <2>2
<1>2. ASSUME ServerWorks PROVE TabInv'
  BY <1>2 DEF ServerWorks, TabInv, TabTypeOK, tabVars, storeVars, requestVars
<1>3. ASSUME ServerRestarts PROVE TabInv'
  BY <1>3 DEF ServerRestarts, TabInv, TabTypeOK, storeVars, NotAsked
<1>4. ASSUME NEW S \in SUBSET Feeds, Click(S) PROVE TabInv'
  <2>1. nextId \in RunIds
    <3>1. nextId <= MaxRuns
      BY <1>4 DEF Click, OpenRun
    <3> QED BY <3>1, IdTypes DEF RunIds
  <2> QED BY <1>4, <2>1 DEF Click, TabInv, TabTypeOK, storeVars
<1>5. ASSUME ClickRefused PROVE TabInv'
  BY <1>5 DEF ClickRefused, TabInv, TabTypeOK, storeVars, NotAsked
<1>6. ASSUME StatusServed PROVE TabInv'
  <2>1. PICK r \in Mine \cup {NoId} : asked' = [asked EXCEPT !.stage = "served", !.run = r]
    BY <1>6 DEF StatusServed
  <2>2. r \in RunIds \cup {NoId}
    BY IdTypes DEF Mine
  <2>3. asked' \in Asked
    BY <2>1, <2>2 DEF TabInv, TabTypeOK, Asked
  <2> QED BY <1>6, <2>3 DEF StatusServed, TabInv, TabTypeOK, storeVars, Asked
<1> QED BY <1>1, <1>2, <1>3, <1>4, <1>5, <1>6

LEMMA TabTypes ==
  ASSUME TypeOK, TabInv
  PROVE  /\ ClickAnswered => TabInv'
         /\ StatusAnswered => TabInv'
         /\ RequestLost => TabInv'
         /\ Receive => TabInv'
         /\ \A r \in RunIds : Settle(r) => TabInv'
         /\ TimerFires => TabInv'
         /\ Disconnect => TabInv'
         /\ Reload => TabInv'
<1> USE BoundsAssumption
<1>1. ASSUME ClickAnswered PROVE TabInv'
  BY <1>1, TrackKeeps DEF ClickAnswered, TabInv, TabTypeOK
<1>2. ASSUME StatusAnswered PROVE TabInv'
  <2>1. asked.run \in RunIds \cup {NoId}
    BY DEF TabInv, TabTypeOK
  <2> QED BY <1>2, <2>1, TrackKeeps DEF StatusAnswered, TabInv, TabTypeOK, NotAsked
<1>3. ASSUME RequestLost PROVE TabInv'
  <2>1. asked' \in Asked /\ clicked' \in RunIds \cup {NoId}
    BY <1>3, AskedTypes DEF RequestLost, TabInv, TabTypeOK, Asked
  <2> QED BY <1>3, <2>1 DEF RequestLost, TabInv, TabTypeOK, storeVars, Asked
<1>4. ASSUME Receive PROVE TabInv'
  <2>1. inbox' \in Seq(Events) /\ Len(inbox') <= MaxInbox
    BY <1>4, InboxTypes DEF Receive, TabInv, TabTypeOK
  <2>2. \A i \in 1..Len(inbox') : inbox'[i] \in Events
    BY <2>1
  <2>3. Head(inbox).run \in RunIds
    BY <1>4, InboxTypes DEF Receive, Events
  <2>4. loading' \in SUBSET RunIds /\ settling' \in [RunIds -> 0..MaxSettles]
    BY <1>4, <2>3 DEF Receive, TabInv, TabTypeOK
  <2> QED BY <1>4, <2>1, <2>2, <2>4 DEF Receive, TabInv, TabTypeOK, storeVars, requestVars
<1>5. ASSUME NEW r \in RunIds, Settle(r) PROVE TabInv'
  <2>1. settling' \in [RunIds -> 0..MaxSettles]
    BY <1>5 DEF Settle, TabInv, TabTypeOK
  <2> QED BY <1>5, <2>1, TrackKeeps DEF Settle, TabInv, TabTypeOK, requestVars
<1>6. ASSUME TimerFires PROVE TabInv'
  <2>1. runId \in RunIds
    BY <1>6 DEF TimerFires, TabInv, TabTypeOK
  <2>2. settling' \in [RunIds -> 0..MaxSettles]
    BY <1>6, <2>1 DEF TimerFires, TabInv, TabTypeOK
  <2> QED BY <1>6, <2>2 DEF TimerFires, TabInv, TabTypeOK, requestVars
<1>7. ASSUME Disconnect PROVE TabInv'
  BY <1>7 DEF Disconnect, TabInv, TabTypeOK, storeVars, requestVars
<1>8. ASSUME Reload PROVE TabInv'
  <2>1. asked' \in Asked
    BY <1>8, AskedTypes DEF Reload
  <2>2. inbox' \in Seq(Events) /\ Len(inbox') <= MaxInbox /\ \A i \in 1..Len(inbox') : inbox'[i] \in Events
    BY <1>8 DEF Reload
  <2>3. settling' \in [RunIds -> 0..MaxSettles]
    BY <1>8 DEF Reload
  <2> QED BY <1>8, <2>1, <2>2, <2>3 DEF Reload, TabInv, TabTypeOK, Asked
<1> QED BY <1>1, <1>2, <1>3, <1>4, <1>5, <1>6, <1>7, <1>8

\* Whatever a tab does and misses, the registry it watches behaves as IngestRuns
\* says: what is proved of the runs holds with the tab and its requests beside them.
THEOREM Composes == ToastSpec => Spec
<1>1. ToastInit => Init
  BY ToastStart
<1> QED BY <1>1, ToastSteps, PTL DEF ToastSpec, Spec

\* useIngest.ts, stores/ingest.ts: what the tab tracks, shows and settles are ids of
\* runs, and its timer is never set for no run.
THEOREM TabTyped == ToastSpec => []TabTypeOK
<1>1. TypeOK /\ TabInv /\ [ToastNext]_allVars => TabInv'
  <2> SUFFICES ASSUME TypeOK, TabInv, [ToastNext]_allVars PROVE TabInv'
    OBVIOUS
  <2>1. CASE UNCHANGED allVars
    BY <2>1 DEF allVars, tabVars, storeVars, requestVars, TabInv, TabTypeOK
  <2> QED BY <2>1, ServerTypes, TabTypes DEF ToastNext, TabStep
<1>2. TabInv => TabTypeOK
  BY DEF TabInv
<1> QED BY <1>1, <1>2, ToastStart, Composes, Typed, PTL DEF ToastSpec
=============================================================================
