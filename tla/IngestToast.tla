---------------------------- MODULE IngestToast ----------------------------
(***************************************************************************)
(* One browser tab watching the ingest runs of its user: the toast of each *)
(* run, the tracked run and its timer (hooks/useIngest.ts,                 *)
(* stores/ingest.ts), the event stream and the two requests that feed it,  *)
(* composed with the registry of IngestRuns.  A run may as well be opened  *)
(* from another tab or device: the events go to every tab of the user.     *)
(***************************************************************************)
EXTENDS IngestRuns, Sequences

CONSTANTS
  Me,         \* the user of the tab
  MaxInbox,   \* bound: events on their way to the tab
  MaxSettles  \* bound: settle calls of one run under way

ASSUME MeAssumption == Me \in Users
ASSUME BoundsAssumption == MaxInbox \in Nat \ {0} /\ MaxSettles \in Nat \ {0}

NoId == 0  \* null

VARIABLES
  inbox,      \* events on their way to the tab
  runId,      \* store: runId
  armed,      \* the 120 s timer of the effect on runId is set
  loading,    \* runs whose toast shows "Ingesting", without a duration
  settling,   \* settling[r]: settle calls of run r that await the refetch
  clicked,    \* run of a refresh-all whose response is under way
  asked       \* GET /ingest/status: stage, what it is for, its answer

storeVars == <<runId, armed>>
requestVars == <<clicked, asked>>
tabVars == <<inbox, storeVars, loading, settling, requestVars>>
allVars == <<vars, tabVars>>

Mine == {r \in open : run[r].owner = Me}

NotAsked == [stage |-> "none", mount |-> FALSE, run |-> NoId]

----------------------------------------------------------------------------
(* The store.                                                              *)

\* Setting runId: the effect on it clears and sets the timer when it changes.
Track(r) ==
  /\ runId' = r
  /\ armed' = IF r = runId THEN armed ELSE r # NoId

----------------------------------------------------------------------------
(* Steps of the server, as the tab meets them.                             *)

\* The streams of the owner of the run carry an event, that of the tab too.
ServerEmits ==
  /\ \E e \in Outgoing :
       /\ Emit(e)
       /\ IF run[e.run].owner = Me
            THEN Len(inbox) < MaxInbox /\ inbox' = Append(inbox, e)
            ELSE UNCHANGED inbox
  /\ UNCHANGED <<storeVars, loading, settling, requestVars>>

ServerWorks ==
  /\ \/ \E f \in Feeds, outcome \in Outcomes : FeedDone(f, outcome)
     \/ LoopTurns
     \/ ClockTicks
     \/ \E u \in Users, S \in SUBSET Feeds : OpenRun(u, S)  \* from elsewhere
  /\ UNCHANGED tabVars

\* Connections break and no response comes.
ServerRestarts ==
  /\ Restart
  /\ inbox' = <<>>
  /\ clicked' = NoId /\ asked' = NotAsked
  /\ UNCHANGED <<storeVars, loading, settling>>

\* refresh-all of this tab is accepted.
Click(S) ==
  /\ clicked = NoId
  /\ OpenRun(Me, S)
  /\ clicked' = nextId
  /\ UNCHANGED <<inbox, storeVars, loading, settling, asked>>

\* refresh-all is refused by the cooldown: onError asks for the status.
ClickRefused ==
  /\ clicked = NoId /\ asked.stage = "none"
  /\ since[Me] <= Cooldown
  /\ asked' = [NotAsked EXCEPT !.stage = "sent"]
  /\ UNCHANGED <<vars, inbox, storeVars, loading, settling, clicked>>

\* Fault: the status names the id the next run will get.
StatusServedNext ==
  /\ asked.stage = "sent"
  /\ asked' = [asked EXCEPT !.stage = "served", !.run = nextId]
  /\ UNCHANGED <<vars, inbox, storeVars, loading, settling, clicked>>

\* run_for: any open run of the user, in the order of a hash map.
StatusServed ==
  /\ asked.stage = "sent"
  /\ \E r \in (IF Mine = {} THEN {NoId} ELSE Mine) :
       asked' = [asked EXCEPT !.stage = "served", !.run = r]
  /\ UNCHANGED <<vars, inbox, storeVars, loading, settling, clicked>>

----------------------------------------------------------------------------
(* Steps of the tab.                                                       *)

\* onSuccess of useIngestNow.
ClickAnswered ==
  /\ clicked # NoId
  /\ Track(clicked)
  /\ loading' = loading \cup {clicked}
  /\ clicked' = NoId
  /\ UNCHANGED <<vars, inbox, settling, asked>>

\* sync; on mount it re-opens the toast, after a refusal it does not.
StatusAnswered ==
  /\ asked.stage = "served"
  /\ Track(asked.run)
  /\ loading' = IF asked.mount /\ asked.run # NoId
                  THEN loading \cup {asked.run} ELSE loading
  /\ asked' = NotAsked
  /\ UNCHANGED <<vars, inbox, settling, clicked>>

RequestLost ==
  /\ \/ clicked # NoId /\ clicked' = NoId /\ UNCHANGED asked
     \/ asked.stage # "none" /\ asked' = NotAsked /\ UNCHANGED clicked
  /\ UNCHANGED <<vars, inbox, storeVars, loading, settling>>

\* onmessage.
Receive ==
  /\ inbox # <<>>
  /\ inbox' = Tail(inbox)
  /\ LET e == Head(inbox)
     IN IF e.kind = "polled"
          THEN loading' = loading \cup {e.run} /\ UNCHANGED settling
          ELSE /\ settling[e.run] < MaxSettles
               /\ settling' = [settling EXCEPT ![e.run] = @ + 1]
               /\ UNCHANGED loading
  /\ UNCHANGED <<vars, storeVars, requestVars>>

\* Fault: settle shows its message but forgets to call finish().
SettleKeepingRun(r) ==
  /\ settling[r] > 0
  /\ settling' = [settling EXCEPT ![r] = @ - 1]
  /\ loading' = loading \ {r}
  /\ UNCHANGED <<vars, inbox, storeVars, requestVars>>

\* The end of settle: finish() forgets whichever run is tracked.
Settle(r) ==
  /\ settling[r] > 0
  /\ settling' = [settling EXCEPT ![r] = @ - 1]
  /\ Track(NoId)
  /\ loading' = loading \ {r}
  /\ UNCHANGED <<vars, inbox, requestVars>>

TimerFires ==
  /\ armed /\ settling[runId] < MaxSettles
  /\ armed' = FALSE
  /\ settling' = [settling EXCEPT ![runId] = @ + 1]
  /\ UNCHANGED <<vars, inbox, runId, loading, requestVars>>

\* The stream breaks: what was sent and not read, or is sent before the
\* EventSource has reconnected, never arrives.
Disconnect ==
  /\ inbox # <<>>
  /\ inbox' = <<>>
  /\ UNCHANGED <<vars, storeVars, loading, settling, requestVars>>

Reload ==
  /\ inbox' = <<>>
  /\ runId' = NoId /\ armed' = FALSE
  /\ loading' = {}
  /\ settling' = [r \in RunIds |-> 0]
  /\ clicked' = NoId
  /\ asked' = [NotAsked EXCEPT !.stage = "sent", !.mount = TRUE]
  /\ UNCHANGED vars

ToastInit ==
  /\ Init
  /\ inbox = <<>>
  /\ runId = NoId /\ armed = FALSE
  /\ loading = {}
  /\ settling = [r \in RunIds |-> 0]
  /\ clicked = NoId
  /\ asked = [NotAsked EXCEPT !.stage = "sent", !.mount = TRUE]

TabStep ==
  \/ ClickAnswered \/ StatusAnswered \/ Receive \/ TimerFires
  \/ \E r \in RunIds : Settle(r)

ToastNext ==
  \/ ServerEmits \/ ServerWorks \/ ServerRestarts
  \/ \E S \in SUBSET Feeds : Click(S)
  \/ ClickRefused \/ StatusServed \/ RequestLost
  \/ TabStep
  \/ Disconnect \/ Reload

\* The tab's callbacks and timers run, requests end; the server
\* is fair as in IngestRuns and stops restarting at some point.
ToastSpec ==
  /\ ToastInit /\ [][ToastNext]_allVars
  /\ WF_allVars(ServerEmits)
  /\ WF_allVars(LoopTurns /\ UNCHANGED tabVars)
  /\ WF_allVars(ClockTicks /\ UNCHANGED tabVars)
  /\ WF_allVars(ClickAnswered) /\ WF_allVars(StatusAnswered)
  /\ WF_allVars(StatusServed) /\ WF_allVars(Receive)
  /\ WF_allVars(TimerFires)
  /\ \A r \in RunIds : WF_allVars(Settle(r))
  /\ <>[][~ServerRestarts]_allVars

----------------------------------------------------------------------------
(* Properties.                                                             *)

TabTypeOK ==
  /\ armed \in BOOLEAN
  /\ runId \in RunIds \cup {NoId} /\ clicked \in RunIds \cup {NoId}
  /\ loading \in SUBSET RunIds
  /\ settling \in [RunIds -> 0..MaxSettles]
  /\ asked \in [stage : {"none", "sent", "served"}, mount : BOOLEAN,
                run : RunIds \cup {NoId}]
  /\ Len(inbox) <= MaxInbox /\ \A i \in 1..Len(inbox) : inbox[i] \in Events

\* "short enough that a wedged stream doesn't hold the button hostage"
\* (useIngest.ts:11-12): whatever is lost, no run is tracked forever.
ButtonReleased == runId # NoId ~> runId = NoId
=============================================================================
