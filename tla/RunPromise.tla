----------------------------- MODULE RunPromise -----------------------------
(***************************************************************************)
(* What "Ingest now" promises, without registry, counters or events: a run *)
(* waits for each of its feeds, every poll of a feed answers all runs that *)
(* still wait for it, and the run is announced once, with a true account   *)
(* of what it heard.  IngestRuns implements this specification.            *)
(***************************************************************************)
EXTENDS Integers, FiniteSets

CONSTANTS RunIds, Feeds, Outcomes

VARIABLES
  status,   \* of each run: unopened, open, expired or announced
  heard,    \* heard[r][f]: not asked, awaited, or the outcome of a poll
  account   \* account[r]: what the announcement of run r said

vars == <<status, heard, account>>

NoAccount == [items |-> 0, failed |-> 0, timedOut |-> FALSE]

Awaited(r) == {f \in Feeds : heard[r][f] = "awaited"}
Count(r, outcome) == Cardinality({f \in Feeds : heard[r][f] = outcome})
TrueAccount(r) == [items |-> Count(r, "stored"),
                   failed |-> Count(r, "failed"),
                   timedOut |-> Awaited(r) # {}]

Init ==
  /\ status = [r \in RunIds |-> "unopened"]
  /\ heard = [r \in RunIds |-> [f \in Feeds |-> "not asked"]]
  /\ account = [r \in RunIds |-> NoAccount]

Open(r, S) ==
  /\ status[r] = "unopened"
  /\ status' = [status EXCEPT ![r] = "open"]
  /\ heard' = [heard EXCEPT ![r] =
                 [f \in Feeds |-> IF f \in S THEN "awaited" ELSE "not asked"]]
  /\ UNCHANGED account

\* One poll answers every open run that waits for its feed.
Hear(f, outcome) ==
  /\ heard' = [r \in RunIds |->
                 IF status[r] = "open" /\ f \in Awaited(r)
                   THEN [heard[r] EXCEPT ![f] = outcome] ELSE heard[r]]
  /\ UNCHANGED <<status, account>>

\* Runs that wait for too long hear nothing more.
Expire(R) ==
  /\ \A r \in R : status[r] = "open" /\ Awaited(r) # {}
  /\ status' = [r \in RunIds |-> IF r \in R THEN "expired" ELSE status[r]]
  /\ UNCHANGED <<heard, account>>

Announce(r) ==
  /\ \/ status[r] = "expired"
     \/ status[r] = "open" /\ Awaited(r) = {}
  /\ status' = [status EXCEPT ![r] = "announced"]
  /\ account' = [account EXCEPT ![r] = TrueAccount(r)]
  /\ UNCHANGED heard

\* A restart of the process forgets every run.
Forget ==
  /\ status' = [r \in RunIds |-> "unopened"]
  /\ heard' = [r \in RunIds |-> [f \in Feeds |-> "not asked"]]
  /\ account' = [r \in RunIds |-> NoAccount]

Next ==
  \/ \E r \in RunIds : Announce(r) \/ \E S \in SUBSET Feeds : Open(r, S)
  \/ \E f \in Feeds, outcome \in Outcomes : Hear(f, outcome)
  \/ \E R \in SUBSET RunIds : Expire(R)
  \/ Forget

Spec == Init /\ [][Next]_vars
=============================================================================
