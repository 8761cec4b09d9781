------------------------------- MODULE Outbox -------------------------------
(***************************************************************************)
(* Read and star changes of one browser: sent at once, or queued in the    *)
(* persistent outbox when the send fails, and replayed later (lib/sync.ts, *)
(* lib/outbox.ts, hooks/useItems.ts).                                      *)
(*                                                                         *)
(* A key is a kind of flag of one item.  A request takes effect at the     *)
(* server when it is sent, or never: the model grants the code that the    *)
(* network does not reorder requests.  Its answer comes later, and may be  *)
(* lost.  A flush reads the queue, sends entry after entry and writes back *)
(* what remains; several flushes, and changes, may overlap.                *)
(***************************************************************************)
EXTENDS Integers, Sequences, FiniteSets

CONSTANTS
  Keys,
  Flushes,    \* flushes that may run at the same time
  MaxChanges  \* bound: changes the user makes

ASSUME OutboxAssumption == IsFiniteSet(Keys) /\ MaxChanges \in Nat

VARIABLES
  online,   \* navigator.onLine, and the query library's onlineManager
  server,   \* item_states, for this user
  shown,    \* the flag in the query cache
  queue,    \* hf.outbox.v1 in localStorage
  direct,   \* requests of sendOrQueue under way
  paused,   \* mutations that wait for the onlineManager
  flush,    \* flush[p]: entries replay has not dealt with
  flight,   \* flight[p]: fate of the request of Head(flush[p])
  changes,  \* changes made so far
  intent,   \* history: what the user chose last
  raced,    \* history: keys changed past their own queued or sent values
  gone      \* history: keys with a change rejected, or lost with the app

netVars == <<online, server>>
flushVars == <<flush, flight>>
historyVars == <<changes, intent, raced, gone>>
outboxVars == <<netVars, shown, queue, direct, paused, flushVars, historyVars>>

Fates == {"reached", "missed", "rejected"}
Entries == [key : Keys, value : BOOLEAN]

KeysOf(s) == {s[i].key : i \in 1..Len(s)}
Running(p) == flush[p] # <<>>

\* The keys with a change that is neither settled nor forgotten.
Pending ==
  KeysOf(queue) \cup KeysOf(paused) \cup {d.key : d \in direct}
    \cup UNION {KeysOf(flush[p]) : p \in Flushes}

----------------------------------------------------------------------------
(* outbox.ts.                                                              *)

\* The entries of q at the positions P, in order.
Select(q, P) ==
  [n \in 1..Cardinality(P) |->
     q[CHOOSE i \in P : Cardinality({j \in P : j <= i}) = n]]

\* Fault: the first entry of a key wins.
CoalesceToOldest(q) ==
  Select(q, {i \in 1..Len(q) : \A j \in 1..(i - 1) : q[j].key # q[i].key})

\* The latest entry of each key, in the order they were queued.
Coalesce(q) ==
  Select(q, {i \in 1..Len(q) : \A j \in (i + 1)..Len(q) : q[j].key # q[i].key})

\* A request reaches the server, is rejected there, or never arrives.
Request(key, value, fate) ==
  server' = IF fate = "reached" THEN [server EXCEPT ![key] = value] ELSE server

\* isRetryable: a rejection is terminal only while the browser is online.
Retryable(fate) == fate # "rejected" \/ ~online

\* flushOutbox: on the online event, on a message of the service worker, on
\* start of the app.  Nothing keeps a second one from starting.
StartFlush(p) ==
  /\ ~Running(p) /\ queue # <<>>
  /\ flush' = [flush EXCEPT ![p] = Coalesce(queue)]
  /\ UNCHANGED <<netVars, shown, queue, direct, paused, flight, historyVars>>

Replay(p, fate) ==
  /\ Running(p) /\ flight[p] = "none"
  /\ Request(Head(flush[p]).key, Head(flush[p]).value, fate)
  /\ flight' = [flight EXCEPT ![p] = fate]
  /\ UNCHANGED <<online, shown, queue, direct, paused, flush, historyVars>>

\* The answer of a sent or rejected entry; after the last one, the empty
\* remainder is written.
EntryDone(p) ==
  /\ \/ flight[p] = "reached"
     \/ flight[p] = "rejected" /\ ~Retryable("rejected")
  /\ flush' = [flush EXCEPT ![p] = Tail(@)]
  /\ flight' = [flight EXCEPT ![p] = "none"]
  /\ queue' = IF Len(flush[p]) = 1 THEN <<>> ELSE queue
  /\ gone' = IF flight[p] = "rejected"
               THEN gone \cup {Head(flush[p]).key} ELSE gone
  /\ UNCHANGED <<netVars, shown, direct, paused, changes, intent, raced>>

\* A retryable failure, be it a lost answer: this entry and the rest are
\* written back, over whatever the queue holds by now.
StopReplay(p) ==
  /\ flight[p] # "none" /\ Retryable(flight[p])
  /\ queue' = flush[p]
  /\ flush' = [flush EXCEPT ![p] = <<>>]
  /\ flight' = [flight EXCEPT ![p] = "none"]
  /\ UNCHANGED <<netVars, shown, direct, paused, historyVars>>

----------------------------------------------------------------------------
(* sync.ts and useItems.ts.                                                *)

\* patchItemState and the request of sendOrQueue.
Send(n, key, value, fate) ==
  /\ shown' = [shown EXCEPT ![key] = value]
  /\ Request(key, value, fate)
  /\ direct' = direct \cup {[n |-> n, key |-> key, value |-> value,
                             fate |-> fate]}
  /\ raced' = IF \/ fate = "reached" /\ key \in KeysOf(queue)
                 \/ \E p \in Flushes : key \in KeysOf(flush[p])
                 \/ \E d \in direct : d.key = key
                THEN raced \cup {key} ELSE raced

\* The user flips what is shown.
Change(key, fate) ==
  /\ online /\ paused = <<>>
  /\ changes < MaxChanges
  /\ changes' = changes + 1
  /\ intent' = [intent EXCEPT ![key] = ~shown[key]]
  /\ Send(changes', key, ~shown[key], fate)
  /\ UNCHANGED <<online, queue, paused, flushVars, gone>>

\* While the onlineManager is offline a mutation is paused before its
\* function runs: nothing is patched, sent or queued.  Back online, the
\* library starts the paused ones before the user can act again.
PauseChange(key) ==
  /\ ~online /\ changes < MaxChanges
  /\ changes' = changes + 1
  /\ intent' = [intent EXCEPT ![key] = ~shown[key]]
  /\ paused' = Append(paused, [n |-> changes', key |-> key,
                               value |-> ~shown[key]])
  /\ UNCHANGED <<netVars, shown, queue, direct, flushVars, raced, gone>>

ResumeChange(fate) ==
  /\ online /\ paused # <<>>
  /\ Send(Head(paused).n, Head(paused).key, Head(paused).value, fate)
  /\ paused' = Tail(paused)
  /\ UNCHANGED <<online, queue, flushVars, changes, intent, gone>>

SendSucceeds(d) ==
  /\ d \in direct /\ d.fate = "reached"
  /\ direct' = direct \ {d}
  /\ UNCHANGED <<netVars, shown, queue, paused, flushVars, historyVars>>

\* A terminal error is shown to the user; the patched cache stays.
SendFails(d) ==
  /\ d \in direct /\ ~Retryable(d.fate)
  /\ direct' = direct \ {d}
  /\ gone' = gone \cup {d.key}
  /\ UNCHANGED <<netVars, shown, queue, paused, flushVars, changes, intent,
                 raced>>

\* Fault: the request itself is stored, not the mutation it carries.
EnqueueRequest(d) ==
  /\ d \in direct /\ Retryable(d.fate)
  /\ direct' = direct \ {d}
  /\ queue' = Append(queue, d)
  /\ raced' = IF \E p \in Flushes : Running(p)
                THEN raced \cup {d.key} ELSE raced
  /\ UNCHANGED <<netVars, shown, paused, flushVars, changes, intent, gone>>

\* A retryable failure, be it a lost answer, queues the change.
Enqueue(d) ==
  /\ d \in direct /\ Retryable(d.fate)
  /\ direct' = direct \ {d}
  /\ queue' = Append(queue, [key |-> d.key, value |-> d.value])
  /\ raced' = IF \E p \in Flushes : Running(p)
                THEN raced \cup {d.key} ELSE raced
  /\ UNCHANGED <<netVars, shown, paused, flushVars, changes, intent, gone>>

\* An invalidated or remounted query takes the server's value.
Refetch(key) ==
  /\ online
  /\ shown' = [shown EXCEPT ![key] = server[key]]
  /\ UNCHANGED <<netVars, queue, direct, paused, flushVars, historyVars>>

Connectivity ==
  /\ online' = ~online
  /\ UNCHANGED <<server, shown, queue, direct, paused, flushVars, historyVars>>

\* The app is closed and opened again: only localStorage survives.
Reopen ==
  /\ direct' = {} /\ paused' = <<>>
  /\ flush' = [p \in Flushes |-> <<>>]
  /\ flight' = [p \in Flushes |-> "none"]
  /\ shown' = server
  /\ gone' = gone \cup KeysOf(paused)
               \cup {d.key : d \in {e \in direct : e.fate # "reached"}}
  /\ UNCHANGED <<netVars, queue, changes, intent, raced>>

OutboxInit ==
  /\ online = TRUE
  /\ server = [k \in Keys |-> FALSE]
  /\ shown = server /\ intent = server
  /\ queue = <<>> /\ paused = <<>> /\ direct = {}
  /\ flush = [p \in Flushes |-> <<>>]
  /\ flight = [p \in Flushes |-> "none"]
  /\ changes = 0 /\ raced = {} /\ gone = {}

FlushStep(p) ==
  \/ StartFlush(p)
  \/ \E fate \in Fates : Replay(p, fate)
  \/ EntryDone(p)
  \/ StopReplay(p)

OutboxNext ==
  \/ \E p \in Flushes : FlushStep(p)
  \/ \E k \in Keys, fate \in Fates : Change(k, fate)
  \/ \E k \in Keys : PauseChange(k) \/ Refetch(k)
  \/ \E fate \in Fates : ResumeChange(fate)
  \/ \E d \in direct : SendSucceeds(d) \/ SendFails(d) \/ Enqueue(d)
  \/ Connectivity
  \/ Reopen

OutboxSpec == OutboxInit /\ [][OutboxNext]_outboxVars

----------------------------------------------------------------------------
(* Properties.                                                             *)

OutboxTypeOK ==
  /\ online \in BOOLEAN
  /\ server \in [Keys -> BOOLEAN]
  /\ shown \in [Keys -> BOOLEAN]
  /\ intent \in [Keys -> BOOLEAN]
  /\ queue \in Seq(Entries)
  /\ direct \in SUBSET [n : 1..MaxChanges, key : Keys, value : BOOLEAN,
                        fate : Fates]
  /\ paused \in Seq([n : 1..MaxChanges, key : Keys, value : BOOLEAN])
  /\ flush \in [Flushes -> Seq(Entries)]
  /\ flight \in [Flushes -> Fates \cup {"none"}]
  /\ changes \in 0..MaxChanges
  /\ raced \in SUBSET Keys
  /\ gone \in SUBSET Keys

\* A key that nothing is pending for has at the server what the user chose
\* last, through lost answers, partial replays, overlapping flushes, repeated
\* delivery and a closed app; unless its changes overtook each other.
SettledWithoutRace ==
  \A k \in Keys \ (raced \cup gone) : k \notin Pending => server[k] = intent[k]
=============================================================================
