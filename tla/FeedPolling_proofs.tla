------------------------ MODULE FeedPolling_proofs ------------------------
(***************************************************************************)
(* What FeedPolling promises for any number of users, feeds and hosts and  *)
(* for every MAX_FAILURES, batch size and concurrency: the type invariant, *)
(* the three safety invariants, the one action property, and that the      *)
(* polls of a batch never all wait for one another.                        *)
(*                                                                         *)
(* None of the safety invariants is inductive alone.  A poll only disables *)
(* a feed that it polls, so PolledFeedsAreEnabled needs that no other poll *)
(* or pending claim of that feed exists (NoOverlappingPolls); Quarantine   *)
(* needs both, and that record_failure's pending verdict is the right one  *)
(* (VerdictSound) although a refresh may have reset the count meanwhile.   *)
(***************************************************************************)
EXTENDS FeedPolling, FiniteSetTheorems, TLAPS

\* A verdict "stay enabled" between the two UPDATEs of record_failure is
\* only pending while the count allows it.
VerdictSound ==
  \A f \in Feeds :
    phase[f] = "counted" /\ ~note[f].disable
      => failures[f] < MaxFailures + torn[f]

IInv ==
  /\ TypeOK
  /\ PolledFeedsAreEnabled
  /\ NoOverlappingPolls
  /\ Quarantine
  /\ VerdictSound

USE FeedsAssumption, HostsAssumption, LimitsAssumption

----------------------------------------------------------------------------
\* The operators on the order of next_fetch_at keep it within the due feeds.
LEMMA WithoutFeedsType ==
  ASSUME NEW D, NEW order \in SUBSET (D \X D), NEW S
  PROVE  WithoutFeeds(order, S) \in SUBSET ((D \ S) \X (D \ S))
BY DEF WithoutFeeds

\* The lease and every backoff keep the types of due and earlier.
LEMMA PostponeType ==
  ASSUME TypeOK, NEW f \in Feeds, Postpone(f)
  PROVE  due' \in SUBSET Feeds /\ earlier' \in SUBSET (due' \X due')
BY WithoutFeedsType DEF TypeOK, Postpone

\* So do a refresh, mark_due and the arrival of next_fetch_at.
LEMMA MakeDueType ==
  ASSUME TypeOK, NEW S \in SUBSET Feeds, MakeDue(S)
  PROVE  due' \in SUBSET Feeds /\ earlier' \in SUBSET (due' \X due')
BY WithoutFeedsType DEF TypeOK, MakeDue

\* Resetting the counts of some feeds keeps them counts.
LEMMA ClearFailuresType ==
  ASSUME TypeOK, NEW S \in SUBSET Feeds, ClearFailures(S)
  PROVE  failures' \in [Feeds -> Nat] /\ torn' \in [Feeds -> 0..MaxTorn]
BY DEF TypeOK, ClearFailures

\* One step of a poll moves one feed from one phase to the next.
LEMMA EnterType ==
  ASSUME TypeOK, NEW f \in Feeds, NEW from, NEW to \in Phases,
         Enter(f, from, to)
  PROVE  /\ phase' \in [Feeds -> Phases]
         /\ phase[f] = from /\ phase'[f] = to
         /\ \A g \in Feeds \ {f} : phase'[g] = phase[g]
BY DEF TypeOK, Enter

----------------------------------------------------------------------------
\* Type correctness of every variable.
LEMMA TypeStep == TypeOK /\ [Next]_vars => TypeOK'
<1> SUFFICES ASSUME TypeOK, [Next]_vars PROVE TypeOK'
  OBVIOUS
<1> USE DEF rowVars, pollVars
<1>1. CASE StartTick
  BY <1>1 DEF StartTick, TypeOK, Candidates
<1>2. ASSUME NEW f \in Feeds, PollStep(f) PROVE TypeOK'
  <2>1. CASE Claim(f)
    <3>1. due' \in SUBSET Feeds /\ earlier' \in SUBSET (due' \X due')
      BY <2>1, PostponeType DEF Claim, TypeOK
    <3> QED BY <2>1, <3>1 DEF Claim, TypeOK, Phases
  <2>2. CASE AcquirePermit(f)
    BY <2>2, EnterType DEF AcquirePermit, TypeOK, Phases
  <2>3. CASE AcquireHost(f)
    BY <2>3, EnterType DEF AcquireHost, BeginAnswer, TypeOK, Phases
  <2>4. CASE NotModified(f)
    <3>1. phase' \in [Feeds -> Phases]
      BY <2>4, EnterType DEF NotModified, Phases
    <3>2. due' \in SUBSET Feeds /\ earlier' \in SUBSET (due' \X due')
      BY <2>4, PostponeType DEF NotModified
    <3>3. failures' \in [Feeds -> Nat] /\ torn' \in [Feeds -> 0..MaxTorn]
      BY <2>4, ClearFailuresType DEF NotModified
    <3> QED BY <2>4, <3>1, <3>2, <3>3 DEF NotModified, TypeOK
  <2>5. CASE StoreItems(f)
    BY <2>5, EnterType DEF StoreItems, TypeOK, Phases
  <2>6. CASE PollError(f)
    BY <2>6, EnterType DEF PollError, TypeOK, Phases
  <2>7. CASE \E terminal \in BOOLEAN : CountFailure(f, terminal)
    <3> PICK terminal \in BOOLEAN : CountFailure(f, terminal)
      BY <2>7
    <3>1. phase' \in [Feeds -> Phases]
      BY EnterType DEF CountFailure, Phases
    <3>2. failures' \in [Feeds -> Nat]
      BY DEF CountFailure, TypeOK
    <3>3. note' \in [Feeds -> Notes]
      <4>1. [disable |-> terminal \/ failures'[f] >= MaxFailures,
             alert |-> failures'[f] = 1 /\ ~disabled[f]] \in Notes
        BY DEF Notes
      <4> QED BY <4>1 DEF CountFailure, TypeOK
    <3> QED BY <3>1, <3>2, <3>3 DEF CountFailure, TypeOK
  <2>8. CASE RecordSuccess(f)
    <3>1. phase' \in [Feeds -> Phases]
      BY <2>8, EnterType DEF RecordSuccess, Phases
    <3>2. due' \in SUBSET Feeds /\ earlier' \in SUBSET (due' \X due')
      BY <2>8, PostponeType DEF RecordSuccess
    <3>3. failures' \in [Feeds -> Nat] /\ torn' \in [Feeds -> 0..MaxTorn]
      BY <2>8, ClearFailuresType DEF RecordSuccess
    <3> QED BY <2>8, <3>1, <3>2, <3>3 DEF RecordSuccess, TypeOK
  <2>9. CASE SettleFailure(f)
    <3>1. phase' \in [Feeds -> Phases]
      BY <2>9, EnterType DEF SettleFailure, Phases
    <3>2. due' \in SUBSET Feeds /\ earlier' \in SUBSET (due' \X due')
      BY <2>9, PostponeType DEF SettleFailure
    <3>3. disabled' \in [Feeds -> BOOLEAN]
      BY <2>9 DEF SettleFailure, TypeOK, Notes
    <3>4. note' \in [Feeds -> Notes]
      BY <2>9 DEF SettleFailure, TypeOK, Notes, NoNote
    <3> QED BY <2>9, <3>1, <3>2, <3>3, <3>4 DEF SettleFailure, TypeOK
  <2>10. CASE SettleError(f)
    <3>1. phase' \in [Feeds -> Phases]
      BY <2>10, EnterType DEF SettleError, Phases
    <3>2. torn' \in [Feeds -> 0..MaxTorn]
      BY <2>10 DEF SettleError, TypeOK
    <3>3. note' \in [Feeds -> Notes]
      BY <2>10 DEF SettleError, TypeOK, Notes, NoNote
    <3> QED BY <2>10, <3>1, <3>2, <3>3 DEF SettleError, TypeOK
  <2>11. CASE AlertSent(f)
    BY <2>11, EnterType DEF AlertSent, TypeOK, Phases
  <2>12. CASE Report(f)
    BY <2>12, EnterType DEF Report, TypeOK, Phases
  <2> QED
    BY <1>2, <2>1, <2>2, <2>3, <2>4, <2>5, <2>6, <2>7, <2>8, <2>9, <2>10,
       <2>11, <2>12 DEF PollStep, FetchEnds
<1>3. ASSUME NEW f \in Feeds, TimePasses(f) PROVE TypeOK'
  BY <1>3, MakeDueType DEF TimePasses, TypeOK
<1>4. ASSUME NEW S \in SUBSET Feeds, Reenable(S) PROVE TypeOK'
  <2>1. due' \in SUBSET Feeds /\ earlier' \in SUBSET (due' \X due')
    BY <1>4, MakeDueType DEF Reenable
  <2>2. failures' \in [Feeds -> Nat] /\ torn' \in [Feeds -> 0..MaxTorn]
    BY <1>4, ClearFailuresType DEF Reenable
  <2>3. wanted' \in [Feeds -> {"no", "asked", "begun"}]
    BY <1>4 DEF Reenable, Ask, TypeOK
  <2> QED BY <1>4, <2>1, <2>2, <2>3 DEF Reenable, TypeOK
<1>5. ASSUME NEW u \in Users, RefreshAll(u) PROVE TypeOK'
  BY <1>5, <1>4 DEF RefreshAll
<1>6. ASSUME NEW u \in Users, NEW f \in Feeds, UserStep(u, f) PROVE TypeOK'
  <2>1. CASE RefreshFeed(u, f)
    BY <2>1, <1>4 DEF RefreshFeed
  <2>2. CASE MarkDue(u, f)
    BY <2>2, MakeDueType DEF MarkDue, TypeOK
  <2>3. ASSUME NEW status \in {"none", "active", "muted"},
               sub' = [sub EXCEPT ![u][f] = status]
        PROVE  sub' \in [Users -> [Feeds -> {"none", "active", "muted"}]]
    BY <2>3 DEF TypeOK
  <2>4. CASE \E prompt \in BOOLEAN : Subscribe(u, f, prompt)
    BY <2>3, <2>4 DEF Subscribe, TypeOK
  <2>5. CASE Unsubscribe(u, f)
    BY <2>3, <2>5 DEF Unsubscribe, TypeOK
  <2>6. CASE \E muted \in BOOLEAN : SetMuted(u, f, muted)
    BY <2>3, <2>6 DEF SetMuted, TypeOK
  <2> QED BY <1>6, <2>1, <2>2, <2>4, <2>5, <2>6 DEF UserStep
<1>7. CASE Restart
  BY <1>7 DEF Restart, TypeOK, Phases, Notes, NoNote
<1>8. CASE UNCHANGED vars
  BY <1>8 DEF vars, TypeOK
<1> QED BY <1>1, <1>2, <1>3, <1>5, <1>6, <1>7, <1>8 DEF Next

----------------------------------------------------------------------------
\* The steps that only move a poll along, or leave polls and rows alone,
\* disturb no part of the invariant; stated once for all of them.
LEMMA QuietStep ==
  ASSUME IInv, NEW f \in Feeds,
         UNCHANGED <<disabled, failures, torn, note>>,
         selected' \subseteq selected,
         phase'[f] # "counted" /\ phase[f] # "counted",
         BeforeVerdict(f)' => BeforeVerdict(f),
         f \in selected' => phase'[f] = "idle",
         \A g \in Feeds \ {f} : phase'[g] = phase[g]
  PROVE  /\ PolledFeedsAreEnabled'
         /\ NoOverlappingPolls'
         /\ Quarantine'
         /\ VerdictSound'
<1> USE DEF IInv, TypeOK
<1>1. PolledFeedsAreEnabled'
  BY DEF PolledFeedsAreEnabled, BeforeVerdict
<1>2. NoOverlappingPolls'
  BY DEF NoOverlappingPolls
<1>3. Quarantine'
  BY DEF Quarantine
<1>4. VerdictSound'
  BY DEF VerdictSound
<1> QED BY <1>1, <1>2, <1>3, <1>4

\* A poll that succeeds resets the count of its feed and leaves `disabled'.
LEMMA SuccessStep ==
  ASSUME IInv, NEW f \in Feeds, NEW from \in {"fetching", "stored"},
         Enter(f, from, "ok"), ClearFailures({f}),
         UNCHANGED <<disabled, selected, note>>
  PROVE  /\ PolledFeedsAreEnabled'
         /\ NoOverlappingPolls'
         /\ Quarantine'
         /\ VerdictSound'
<1> USE DEF IInv, TypeOK
<1>1. /\ phase[f] = from /\ phase'[f] = "ok"
      /\ \A g \in Feeds \ {f} : phase'[g] = phase[g]
  BY EnterType DEF Phases
<1>2. /\ failures'[f] = 0 /\ torn'[f] = 0
      /\ \A g \in Feeds \ {f} : failures'[g] = failures[g] /\ torn'[g] = torn[g]
  BY DEF ClearFailures
<1>3. PolledFeedsAreEnabled'
  BY <1>1 DEF PolledFeedsAreEnabled, BeforeVerdict
<1>4. NoOverlappingPolls'
  BY <1>1 DEF NoOverlappingPolls
<1>5. Quarantine'
  BY <1>1, <1>2 DEF Quarantine
<1>6. VerdictSound'
  BY <1>1, <1>2 DEF VerdictSound
<1> QED BY <1>3, <1>4, <1>5, <1>6

\* record_failure's first UPDATE.
LEMMA CountFailureStep ==
  ASSUME IInv, NEW f \in Feeds, NEW terminal \in BOOLEAN,
         CountFailure(f, terminal)
  PROVE  /\ PolledFeedsAreEnabled'
         /\ NoOverlappingPolls'
         /\ Quarantine'
         /\ VerdictSound'
<1> USE DEF IInv, TypeOK
<1>1. /\ phase[f] = "fetching" /\ phase'[f] = "counted"
      /\ \A g \in Feeds \ {f} : phase'[g] = phase[g]
  BY EnterType DEF CountFailure, Phases
<1>2. /\ failures'[f] = failures[f] + 1
      /\ \A g \in Feeds \ {f} : failures'[g] = failures[g]
      /\ torn' = torn /\ disabled' = disabled /\ selected' = selected
  BY DEF CountFailure
<1>3. /\ note'[f].disable = (terminal \/ failures'[f] >= MaxFailures)
      /\ \A g \in Feeds \ {f} : note'[g] = note[g]
  BY DEF CountFailure
<1>4. ~disabled[f]
  BY <1>1 DEF PolledFeedsAreEnabled, BeforeVerdict
<1>5. PolledFeedsAreEnabled'
  BY <1>1, <1>2 DEF PolledFeedsAreEnabled, BeforeVerdict
<1>6. NoOverlappingPolls'
  BY <1>1, <1>2 DEF NoOverlappingPolls
<1>7. Quarantine'
  BY <1>1, <1>2, <1>4 DEF Quarantine
<1>8. VerdictSound'
  <2> SUFFICES ASSUME NEW g \in Feeds, phase'[g] = "counted",
                      ~note'[g].disable
               PROVE  failures'[g] < MaxFailures + torn'[g]
    BY DEF VerdictSound
  <2>1. CASE g = f
    <3>1. ~(failures'[f] >= MaxFailures)
      BY <1>3, <2>1
    <3> QED BY <1>2, <2>1, <3>1
  <2>2. CASE g # f
    BY <1>1, <1>2, <1>3, <2>2 DEF VerdictSound
  <2> QED BY <2>1, <2>2
<1> QED BY <1>5, <1>6, <1>7, <1>8

\* record_failure's second UPDATE: the one step that disables a feed.
LEMMA SettleFailureStep ==
  ASSUME IInv, NEW f \in Feeds, SettleFailure(f)
  PROVE  /\ PolledFeedsAreEnabled'
         /\ NoOverlappingPolls'
         /\ Quarantine'
         /\ VerdictSound'
<1> USE DEF IInv, TypeOK
<1>1. /\ phase[f] = "counted" /\ phase'[f] \in {"alerting", "failed"}
      /\ \A g \in Feeds \ {f} : phase'[g] = phase[g]
  BY EnterType DEF SettleFailure, Phases
<1>2. /\ disabled'[f] = note[f].disable
      /\ \A g \in Feeds \ {f} : disabled'[g] = disabled[g] /\ note'[g] = note[g]
      /\ failures' = failures /\ torn' = torn /\ selected' = selected
  BY DEF SettleFailure
<1>3. f \notin selected
  BY <1>1 DEF NoOverlappingPolls
<1>4. PolledFeedsAreEnabled'
  BY <1>1, <1>2, <1>3 DEF PolledFeedsAreEnabled, BeforeVerdict
<1>5. NoOverlappingPolls'
  BY <1>1, <1>2, <1>3 DEF NoOverlappingPolls
<1>6. Quarantine'
  <2> SUFFICES ASSUME NEW g \in Feeds
               PROVE  failures'[g] < MaxFailures + torn'[g]
                        + (IF disabled'[g] \/ phase'[g] = "counted"
                             THEN 1 ELSE 0)
    BY DEF Quarantine
  <2>1. CASE g = f /\ note[f].disable
    BY <1>1, <1>2, <2>1 DEF Quarantine
  <2>2. CASE g = f /\ ~note[f].disable
    BY <1>1, <1>2, <2>2 DEF VerdictSound
  <2>3. CASE g # f
    BY <1>1, <1>2, <2>3 DEF Quarantine
  <2> QED BY <2>1, <2>2, <2>3
<1>7. VerdictSound'
  BY <1>1, <1>2 DEF VerdictSound
<1> QED BY <1>4, <1>5, <1>6, <1>7

\* A refresh enables feeds and resets their counts, at any moment of a poll.
LEMMA ReenableStep ==
  ASSUME IInv, NEW S \in SUBSET Feeds, Reenable(S)
  PROVE  /\ PolledFeedsAreEnabled'
         /\ NoOverlappingPolls'
         /\ Quarantine'
         /\ VerdictSound'
<1> USE DEF IInv, TypeOK
<1>1. UNCHANGED pollVars
  BY DEF Reenable
<1>2. \A g \in S : ~disabled'[g] /\ failures'[g] = 0 /\ torn'[g] = 0
  BY DEF Reenable, ClearFailures
<1>3. \A g \in Feeds \ S :
        disabled'[g] = disabled[g] /\ failures'[g] = failures[g]
          /\ torn'[g] = torn[g]
  BY DEF Reenable, ClearFailures
<1>4. PolledFeedsAreEnabled'
  BY <1>1, <1>2, <1>3 DEF PolledFeedsAreEnabled, BeforeVerdict, pollVars
<1>5. NoOverlappingPolls'
  BY <1>1 DEF NoOverlappingPolls, pollVars
<1>6. Quarantine'
  BY <1>1, <1>2, <1>3 DEF Quarantine, pollVars
<1>7. VerdictSound'
  BY <1>1, <1>2, <1>3 DEF VerdictSound, pollVars
<1> QED BY <1>4, <1>5, <1>6, <1>7

\* Every step keeps the inductive invariant.
LEMMA InvStep == IInv /\ [Next]_vars => IInv'
<1> SUFFICES ASSUME IInv, [Next]_vars PROVE IInv'
  OBVIOUS
<1> DEFINE Safe == /\ PolledFeedsAreEnabled
                   /\ NoOverlappingPolls
                   /\ Quarantine
                   /\ VerdictSound
<1> USE DEF rowVars, pollVars
<1>a. TypeOK'
  BY TypeStep DEF IInv
<1> SUFFICES Safe'
  BY <1>a DEF IInv
<1>b. ASSUME UNCHANGED <<disabled, failures, torn, pollVars>> PROVE Safe'
  BY <1>b DEF IInv, PolledFeedsAreEnabled, NoOverlappingPolls, Quarantine,
              VerdictSound, BeforeVerdict
<1>1. CASE StartTick
  <2>1. /\ \A g \in Feeds : phase[g] = "idle"
        /\ \A g \in selected' : ~disabled[g]
        /\ UNCHANGED <<disabled, failures, torn, phase, note>>
    BY <1>1 DEF StartTick, TickIdle, Candidates, Eligible
  <2>2. selected' \in SUBSET Feeds
    BY <1>a DEF TypeOK
  <2> QED
    BY <2>1, <2>2 DEF IInv, PolledFeedsAreEnabled, NoOverlappingPolls,
                      Quarantine, VerdictSound, BeforeVerdict
<1>2. ASSUME NEW f \in Feeds, PollStep(f) PROVE Safe'
  <2> USE DEF Phases
  <2>1. CASE Claim(f)
    <3>1. /\ f \in selected /\ selected' = selected \ {f}
          /\ phase'[f] = "queued" /\ phase[f] = "idle"
          /\ \A g \in Feeds \ {f} : phase'[g] = phase[g]
          /\ UNCHANGED <<disabled, failures, torn, note>>
      BY <2>1 DEF Claim, IInv, TypeOK, NoOverlappingPolls
    <3> QED BY <3>1, QuietStep DEF BeforeVerdict
  <2>2. CASE AcquirePermit(f)
    BY <2>2, EnterType, QuietStep
       DEF AcquirePermit, BeforeVerdict, IInv, NoOverlappingPolls
  <2>3. CASE AcquireHost(f)
    BY <2>3, EnterType, QuietStep
       DEF AcquireHost, BeforeVerdict, IInv, NoOverlappingPolls
  <2>4. CASE NotModified(f)
    BY <2>4, SuccessStep DEF NotModified
  <2>5. CASE StoreItems(f)
    BY <2>5, EnterType, QuietStep
       DEF StoreItems, BeforeVerdict, IInv, NoOverlappingPolls
  <2>6. CASE PollError(f)
    BY <2>6, EnterType, QuietStep
       DEF PollError, BeforeVerdict, IInv, NoOverlappingPolls
  <2>7. CASE \E terminal \in BOOLEAN : CountFailure(f, terminal)
    BY <2>7, CountFailureStep
  <2>8. CASE RecordSuccess(f)
    BY <2>8, SuccessStep DEF RecordSuccess
  <2>9. CASE SettleFailure(f)
    BY <2>9, SettleFailureStep
  <2>10. CASE SettleError(f)
    <3>1. /\ phase[f] = "counted" /\ phase'[f] = "failed"
          /\ \A g \in Feeds \ {f} : phase'[g] = phase[g]
      BY <2>10, EnterType DEF SettleError, IInv
    <3>2. /\ torn'[f] = torn[f] + 1
          /\ \A g \in Feeds \ {f} : torn'[g] = torn[g] /\ note'[g] = note[g]
          /\ UNCHANGED <<disabled, failures, selected>>
      BY <2>10 DEF SettleError, IInv, TypeOK
    <3>3. PolledFeedsAreEnabled' /\ NoOverlappingPolls'
      BY <3>1, <3>2 DEF IInv, TypeOK, PolledFeedsAreEnabled, BeforeVerdict,
                        NoOverlappingPolls
    <3>4. Quarantine'
      BY <3>1, <3>2 DEF IInv, TypeOK, Quarantine
    <3>5. VerdictSound'
      BY <3>1, <3>2 DEF IInv, TypeOK, VerdictSound
    <3> QED BY <3>3, <3>4, <3>5
  <2>11. CASE AlertSent(f)
    BY <2>11, EnterType, QuietStep
       DEF AlertSent, BeforeVerdict, IInv, NoOverlappingPolls
  <2>12. CASE Report(f)
    BY <2>12, EnterType, QuietStep
       DEF Report, BeforeVerdict, IInv, NoOverlappingPolls
  <2> QED
    BY <1>2, <2>1, <2>2, <2>3, <2>4, <2>5, <2>6, <2>7, <2>8, <2>9, <2>10,
       <2>11, <2>12 DEF PollStep, FetchEnds
<1>3. ASSUME NEW f \in Feeds, TimePasses(f) PROVE Safe'
  BY <1>3, <1>b DEF TimePasses
<1>4. ASSUME NEW u \in Users, RefreshAll(u) PROVE Safe'
  BY <1>4, ReenableStep DEF RefreshAll
<1>5. ASSUME NEW u \in Users, NEW f \in Feeds, UserStep(u, f) PROVE Safe'
  <2>1. CASE RefreshFeed(u, f)
    BY <2>1, ReenableStep DEF RefreshFeed
  <2>2. CASE ~RefreshFeed(u, f)
    BY <1>5, <2>2, <1>b DEF UserStep, MarkDue, Subscribe, Unsubscribe, SetMuted
  <2> QED BY <2>1, <2>2
<1>6. CASE Restart
  <2>1. /\ selected' = {} /\ UNCHANGED <<disabled, failures>>
        /\ \A g \in Feeds : phase'[g] = "idle"
        /\ \A g \in Feeds :
             torn'[g] = IF phase[g] = "counted" THEN torn[g] + 1 ELSE torn[g]
    BY <1>6 DEF Restart
  <2>2. PolledFeedsAreEnabled' /\ NoOverlappingPolls' /\ VerdictSound'
    BY <2>1 DEF PolledFeedsAreEnabled, BeforeVerdict, NoOverlappingPolls,
                VerdictSound
  <2>3. Quarantine'
    BY <2>1 DEF IInv, TypeOK, Quarantine
  <2> QED BY <2>2, <2>3
<1>7. CASE UNCHANGED vars
  BY <1>7, <1>b DEF vars
<1> QED BY <1>1, <1>2, <1>3, <1>4, <1>5, <1>6, <1>7 DEF Next

\* Before the first tick nothing is selected and no failure is counted.
LEMMA InvInit == Init => IInv
BY DEF Init, IInv, TypeOK, PolledFeedsAreEnabled, NoOverlappingPolls,
       Quarantine, VerdictSound, BeforeVerdict, Phases, Notes, NoNote

\* The inductive invariant holds in every reachable state.
THEOREM Inductive == Spec => []IInv
BY InvInit, InvStep, PTL DEF Spec

----------------------------------------------------------------------------
\* Every variable keeps its type, whatever the interleaving of polls,
\* requests and restarts.
THEOREM TypeCorrect == Spec => []TypeOK
<1>1. IInv => TypeOK
  BY DEF IInv
<1> QED BY <1>1, Inductive, PTL

\* No route and no other poll disables a feed between its selection and the
\* verdict on its poll (scheduler.rs tick, store.rs record_failure).
THEOREM PolledFeedsEnabled == Spec => []PolledFeedsAreEnabled
<1>1. IInv => PolledFeedsAreEnabled
  BY DEF IInv
<1> QED BY <1>1, Inductive, PTL

\* The scheduler never runs two polls of one feed (scheduler.rs tick).
THEOREM OnePollPerFeed == Spec => []NoOverlappingPolls
<1>1. IInv => NoOverlappingPolls
  BY DEF IInv
<1> QED BY <1>1, Inductive, PTL

\* A feed that keeps failing is disabled by its MAX_FAILURES-th failure, or
\* as many failures later as records were cut in two (store.rs).
THEOREM QuarantineHolds == Spec => []Quarantine
<1>1. IInv => Quarantine
  BY DEF IInv
<1> QED BY <1>1, Inductive, PTL

\* Only a refresh re-enables a feed; record_failure's `disabled = ?' never
\* does, although it writes the flag without reading it (store.rs).
THEOREM RefreshAloneReenables == Spec => OnlyRefreshReenables
<1> DEFINE A == \A f \in Feeds : disabled[f] /\ ~disabled'[f] =>
                  failures'[f] = 0 /\ f \in due' /\ phase'[f] = phase[f]
<1>1. IInv /\ [Next]_vars => [A]_vars
  <2> SUFFICES ASSUME IInv, Next, NEW f \in Feeds, disabled[f], ~disabled'[f]
               PROVE  failures'[f] = 0 /\ f \in due' /\ phase'[f] = phase[f]
    OBVIOUS
  <2> USE DEF rowVars, pollVars
  <2>1. ASSUME NEW S \in SUBSET Feeds, Reenable(S)
        PROVE  failures'[f] = 0 /\ f \in due' /\ phase'[f] = phase[f]
    <3>1. f \in S
      BY <2>1 DEF Reenable
    <3> QED BY <2>1, <3>1 DEF Reenable, ClearFailures, MakeDue
  <2>2. ASSUME NEW g \in Feeds, PollStep(g) PROVE FALSE
    <3>1. ~SettleFailure(g)
      <4> SUFFICES ASSUME SettleFailure(g) PROVE FALSE
        OBVIOUS
      <4>1. g = f
        BY DEF SettleFailure, IInv, TypeOK
      <4>2. phase[f] = "counted"
        BY <4>1 DEF SettleFailure, Enter
      <4> QED BY <4>2 DEF IInv, PolledFeedsAreEnabled, BeforeVerdict
    <3> QED
      BY <2>2, <3>1 DEF PollStep, FetchEnds, Claim, AcquirePermit, AcquireHost,
        NotModified, StoreItems, PollError, CountFailure, RecordSuccess,
        SettleError, AlertSent, Report
  <2>3. ASSUME NEW u \in Users, NEW g \in Feeds, UserStep(u, g)
        PROVE  RefreshFeed(u, g)
    BY <2>3 DEF UserStep, MarkDue, Subscribe, Unsubscribe, SetMuted
  <2>4. ~StartTick /\ ~Restart /\ \A g \in Feeds : ~TimePasses(g)
    BY DEF StartTick, Restart, TimePasses
  <2> QED
    BY <2>1, <2>2, <2>3, <2>4 DEF Next, RefreshAll, RefreshFeed
<1> QED BY <1>1, Inductive, PTL DEF Spec, OnlyRefreshReenables

----------------------------------------------------------------------------
(* What polls wait for, as the guards of their steps: ENABLED is beyond    *)
(* the provers.                                                            *)

\* The task of f has what its next step takes: a permit of the semaphore,
\* the lock of its host, or nothing but its own outcome.
CanGoOn(f) ==
  \/ phase[f] = "queued"
       /\ Cardinality({g \in Feeds : phase[g] \in HasPermit}) < Concurrency
  \/ phase[f] = "permitted"
       /\ \A g \in Feeds : phase[g] \in Working => HostOf[g] # HostOf[f]
  \/ phase[f] \in Working \cup {"ok", "failed"}

SomePollGoesOn ==
  (\E f \in Feeds : phase[f] # "idle")
    => \E f \in Feeds : phase[f] # "idle" /\ CanGoOn(f)

\* scheduler.rs, tick: permits are taken before host locks, and nobody who holds
\* a lock waits; for any concurrency and any sharing of hosts some task of the
\* batch can take its next step.
THEOREM NoCircularWait == Spec => []SomePollGoesOn
<1>1. TypeOK => SomePollGoesOn
  <2> SUFFICES ASSUME TypeOK, \E f \in Feeds : phase[f] # "idle"
               PROVE  \E f \in Feeds : phase[f] # "idle" /\ CanGoOn(f)
    BY DEF SomePollGoesOn
  <2>1. CASE \E f \in Feeds : phase[f] \in Working \cup {"ok", "failed"}
    BY <2>1 DEF CanGoOn, Working
  <2>2. CASE /\ \A f \in Feeds : phase[f] \notin Working \cup {"ok", "failed"}
             /\ \E f \in Feeds : phase[f] = "permitted"
    BY <2>2 DEF CanGoOn
  <2>3. CASE \A f \in Feeds : phase[f] \notin HasPermit
    <3>1. {g \in Feeds : phase[g] \in HasPermit} = {}
      BY <2>3
    <3>2. Cardinality({g \in Feeds : phase[g] \in HasPermit}) < Concurrency
      BY <3>1, FS_EmptySet
    <3>3. PICK f \in Feeds : phase[f] # "idle"
      OBVIOUS
    <3>4. phase[f] = "queued"
      BY <2>3, <3>3 DEF TypeOK, Phases, HasPermit, Working
    <3> QED BY <3>2, <3>4 DEF CanGoOn
  <2> QED BY <2>1, <2>2, <2>3 DEF HasPermit
<1> QED BY <1>1, TypeCorrect, PTL
=============================================================================
