---------------------------- MODULE Items_proofs ----------------------------
(***************************************************************************)
(* Proofs about the items of a feed and their flags, at the server and in  *)
(* the outbox of a browser.                                                *)
(*                                                                         *)
(* The server: three invariants rest on the types and not on one another.  *)
(* PollInv relates the snapshot of an open poll to the ages of the purge,  *)
(* FlagInv what the requests under way have read to the flags that are     *)
(* stored, and WalkInv what the reader has yet to see to the positions of  *)
(* the list.                                                               *)
(*                                                                         *)
(* The outbox: for each key that nothing has raced there is one value that *)
(* the queue and the flushes under way leave at the server (SettlesTo); it *)
(* is the user's last choice, unless a later change waits to be sent.      *)
(* The two specifications share no state and no theorem.                   *)
(***************************************************************************)
EXTENDS Items, Outbox, FiniteSetTheorems, TLAPS

FlagRow == [read : BOOLEAN, star : BOOLEAN]

\* Dates for some of the items.
Dated == UNION {[S -> Int] : S \in SUBSET Items}

Polls == [at : {"idle", "read", "write"}, items : Dated, cut : Limits,
          new : Dated, stale : BOOLEAN]

Busy == [at : {"state", "write"}, key : Users \X Items, row : Nat \ {0}, column : Columns,
         value : BOOLEAN, seen : FlagRow]

Walks == [at : {"idle", "count", "rows", "end"}, status : {"all", "unread"}, page : Nat,
          pages : Nat, unseen : SUBSET Items]

\* TypeOK, and the types of what it leaves out.
TypeInv ==
  /\ TypeOK
  /\ stored \in [Items -> Nat]
  /\ poll \in Polls
  /\ DOMAIN req = Requests
  /\ \A r \in Requests : req[r] \in Busy \cup {IdleRequest}
  /\ walk \in Walks
  /\ purgedAt \in [Items -> Nat]

\* An item that was purged is older than the age it was purged under, so that
\* a poll whose snapshot is not stale, and which stores only what is not there,
\* takes it only with a longer cutoff or a later date.
PollInv ==
  /\ \A i \in Items : purgedAt[i] > 0 => published[i] < day - purgedAt[i]
  /\ poll.at = "write" /\ ~poll.stale =>
       \A i \in DOMAIN poll.new :
         /\ i \notin Stored
         /\ purgedAt[i] > 0 =>
              poll.cut = 0 \/ poll.cut > purgedAt[i] \/ poll.new[i] > published[i]

\* The row of a request was made before, and while it is stored, flags that
\* the request has read are stored as well.
RequestOK(q) ==
  q.at # "idle" =>
    /\ q.row \in 1..rows
    /\ q.at = "write" /\ stored[q.key[2]] = q.row /\ q.key \notin DOMAIN flags => q.seen = None

\* No answer stands for a flag that a request is about to change.
OpenOK(q) == q.at # "idle" => <<q.key[1], q.key[2], q.column>> \notin DOMAIN acked

FlagInv ==
  /\ AnswersStand
  /\ \A r \in Requests : RequestOK(req[r]) /\ OpenOK(req[r])

\* Items of S ahead of i, when f gives their dates.
Position(f, i, S) == Cardinality({j \in S : f[j] > f[i]})
Single(f, i, S) == i \in S /\ \A j \in S \ {i} : f[j] # f[i]

\* What a walk has yet to show is on pages to come; the number of pages is
\* that of the list while no write has fallen between.
WalkOK(w, S, f) ==
  /\ w.at \in {"count", "rows"} =>
       /\ w.page >= 1
       /\ \A i \in w.unseen : Single(f, i, S) /\ Position(f, i, S) >= (w.page - 1) * PageSize
  /\ w.at = "rows" /\ w.unseen # {} => w.pages = TotalPages(Cardinality(S))
  /\ w.at = "end" => w.unseen = {}

WalkInv == WalkOK(walk, Scope(walk.status), published)

IInv == TypeInv /\ PollInv /\ FlagInv /\ WalkInv

----------------------------------------------------------------------------
(* Types.                                                                  *)

LEMMA WatchTypes ==
  ASSUME TypeInv, Watch
  PROVE  walk' \in Walks
BY DEF Watch, TypeInv, Walks

LEMMA NoDates == <<>> \in Dated
BY DEF Dated

LEMMA DatedType ==
  ASSUME NEW f
  PROVE  f \in Dated <=> DOMAIN f \subseteq Items /\ f \in [DOMAIN f -> Int]
BY DEF Dated

LEMMA CommitTypes ==
  ASSUME TypeInv, Commit
  PROVE  poll' \in Polls
BY DEF TypeInv, Polls, Commit

LEMMA InitTypes == Init => TypeInv
<1> SUFFICES ASSUME Init PROVE TypeInv
  OBVIOUS
<1>1. TypeOK
  BY NumbersAssumption, BoundsAssumption DEF Init, TypeOK, Stored, IdlePurge
<1>2. poll \in Polls /\ walk \in Walks
  BY NumbersAssumption, NoDates DEF Init, Polls, Walks, IdlePoll, IdleWalk
<1> QED BY <1>1, <1>2 DEF Init, TypeInv

LEMMA WalkTypes ==
  ASSUME TypeInv
  PROVE  /\ \A status \in {"all", "unread"} : Walk(status) => TypeInv'
         /\ WalkCount \/ WalkRows => TypeInv'
<1>1. ASSUME NEW status \in {"all", "unread"}, Walk(status)
      PROVE  TypeInv'
  <2>1. walk' \in Walks
    BY <1>1 DEF Walk, Walks, IdleWalk, Alone, Scope, Stored
  <2>2. TypeOK'
    BY <1>1, BoundsAssumption DEF Walk, TypeInv, TypeOK, Stored, content
  <2> QED BY <1>1, <2>1, <2>2 DEF Walk, TypeInv, content
<1>2. ASSUME WalkCount
      PROVE  TypeInv'
  <2>1. TotalPages(Cardinality(Scope(walk.status))) \in Nat
    <3>1. Cardinality(Scope(walk.status)) \in Nat
      <4>1. Scope(walk.status) \subseteq Items
        BY DEF Scope, Stored
      <4> QED BY <4>1, ItemsAssumption, FS_Subset, FS_CardinalityType
    <3> QED BY <3>1, NumbersAssumption DEF TotalPages
  <2>2. walk' \in Walks
    BY <1>2, <2>1 DEF WalkCount, Walks, TypeInv
  <2> QED BY <1>2, <2>2 DEF WalkCount, TypeInv, TypeOK, Stored, content, history
<1>3. ASSUME WalkRows
      PROVE  TypeInv'
  <2>1. PICK P \in SUBSET Scope(walk.status) :
          walk' = IF walk.page < walk.pages
                  THEN [walk EXCEPT !.at = "count", !.page = @ + 1, !.unseen = @ \ P]
                  ELSE [IdleWalk EXCEPT !.at = "end", !.unseen = walk.unseen \ P]
    BY <1>3 DEF WalkRows
  <2>2. walk' \in Walks
    <3>1. walk \in Walks /\ walk.unseen \ P \in SUBSET Items /\ walk.page + 1 \in Nat
      BY DEF TypeInv, Walks
    <3>2. CASE walk.page < walk.pages
      BY <2>1, <3>1, <3>2 DEF Walks
    <3>3. CASE ~(walk.page < walk.pages)
      BY <2>1, <3>1, <3>3 DEF Walks, IdleWalk
    <3> QED BY <3>2, <3>3
  <2> QED BY <1>3, <2>2 DEF WalkRows, TypeInv, TypeOK, Stored, content, history
<1> QED BY <1>1, <1>2, <1>3

LEMMA PollTypes ==
  ASSUME TypeInv
  PROVE  /\ \A S \in SUBSET Items : PollFetch(S) => TypeInv'
         /\ PollRead \/ PollWrite => TypeInv'
<1>1. ASSUME NEW S \in SUBSET Items, PollFetch(S)
      PROVE  TypeInv'
  <2>1. PICK dates \in [S -> UNION {EntryDates(i) : i \in S}] :
          /\ \A i \in S : dates[i] \in EntryDates(i)
          /\ poll' = [IdlePoll EXCEPT !.at = "read", !.items = dates, !.cut = settings.cut]
    BY <1>1 DEF PollFetch
  <2>2. \A i \in S : EntryDates(i) \subseteq Int
    BY DatesAssumption, BoundsAssumption DEF EntryDates, TypeInv, TypeOK
  <2>3. dates \in Dated
    BY <2>1, <2>2, DatedType
  <2>4. poll' \in Polls
    BY <2>1, <2>3, NoDates DEF Polls, IdlePoll, TypeInv, TypeOK
  <2> QED BY <1>1, <2>4 DEF PollFetch, TypeInv, TypeOK, Stored, content, history
<1>2. ASSUME PollRead
      PROVE  TypeInv'
  <2>1. \A T : Without(poll.items, T) \in Dated
    BY DatedType DEF TypeInv, Polls, Without
  <2>2. poll' \in Polls
    BY <1>2, <2>1, NoDates DEF PollRead, Polls, TypeInv
  <2> QED BY <1>2, <2>2 DEF PollRead, TypeInv, TypeOK, Stored, content, history
<1>3. ASSUME PollWrite
      PROVE  TypeInv'
  <2> DEFINE new == IF poll.stale THEN {} ELSE DOMAIN poll.new
  <2>1. poll.new \in [DOMAIN poll.new -> Int] /\ new \subseteq Items /\ poll' \in Polls
    <3>1. poll.new \in Dated
      BY DEF TypeInv, Polls
    <3> QED BY <1>3, <3>1, DatedType, NumbersAssumption, NoDates DEF PollWrite, Polls, IdlePoll
  <2>2. /\ new # {} => rows < MaxRows
        /\ rows' = IF new # {} THEN rows + 1 ELSE rows
        /\ stored' = [i \in Items |-> IF i \in new THEN rows' ELSE stored[i]]
        /\ published' = [i \in Items |-> IF i \in new THEN poll.new[i] ELSE published[i]]
        /\ purgedAt' = [i \in Items |-> IF i \in new THEN 0 ELSE purgedAt[i]]
        /\ UNCHANGED <<day, flags, settings, purge, req, acked, served>> /\ Watch
    BY <1>3 DEF PollWrite
  <2>3. published' \in [Items -> Int]
    BY <2>1, <2>2 DEF TypeInv, TypeOK
  <2> HIDE DEF new
  <2>4. /\ rows' \in 0..MaxRows /\ stored' \in [Items -> 0..rows']
        /\ stored' \in [Items -> Nat] /\ Stored \subseteq Stored'
    BY <2>2, BoundsAssumption DEF TypeInv, TypeOK, Stored
  <2>5. purgedAt' \in [Items -> Nat] /\ walk' \in Walks
    BY <2>2, WatchTypes DEF TypeInv
  <2>6. TypeOK'
    BY <2>2, <2>3, <2>4 DEF TypeInv, TypeOK
  <2> QED BY <2>1, <2>2, <2>4, <2>5, <2>6 DEF TypeInv
<1> QED BY <1>1, <1>2, <1>3

LEMMA SetAppTypes ==
  ASSUME TypeInv, NEW key \in {"cut", "age", "cap"}, NEW value \in Limits, SetApp(key, value)
  PROVE  TypeInv'
<1>1. poll' \in Polls
  BY CommitTypes DEF SetApp
<1>2. settings' \in [cut : Limits, age : Limits, cap : Limits]
  BY DEF SetApp, TypeInv, TypeOK
<1>3. TypeOK'
  BY <1>2, BoundsAssumption DEF SetApp, TypeInv, TypeOK, Stored, content
<1> QED BY <1>1, <1>3 DEF SetApp, TypeInv, content

\* A purge deletes rows and the flags that hang on them.
LEMMA DeleteTypes ==
  ASSUME TypeInv, NEW S \in SUBSET Items, Delete(S)
  PROVE  /\ stored' \in [Items -> Nat] /\ poll' \in Polls /\ walk' \in Walks
         /\ stored' \in [Items -> 0..rows'] /\ UNCHANGED <<rows, published>>
         /\ DOMAIN flags' \subseteq Users \X Stored'
         /\ \A k \in DOMAIN flags' : flags'[k] \in FlagRow
         /\ DOMAIN acked' \subseteq DOMAIN acked
<1>1. /\ stored' = [i \in Items |-> IF i \in S THEN 0 ELSE stored[i]]
      /\ flags' = [k \in DOMAIN flags \ (Users \X S) |-> flags[k]]
      /\ Commit /\ Watch /\ UNCHANGED <<rows, published>>
  BY DEF Delete, LeftStates, Without
<1>2. stored' \in [Items -> Nat] /\ stored' \in [Items -> 0..rows']
  BY <1>1 DEF TypeInv, TypeOK
<1>3. DOMAIN flags' \subseteq Users \X Stored'
  <2> SUFFICES ASSUME NEW k \in DOMAIN flags \ (Users \X S)
               PROVE  k \in Users \X Stored'
    BY <1>1
  <2>1. PICK u \in Users, i \in Stored : k = <<u, i>>
    BY DEF TypeInv, TypeOK
  <2>2. i \notin S /\ i \in Items
    BY <2>1 DEF Stored
  <2>3. stored'[i] > 0
    BY <1>1, <2>1, <2>2 DEF Stored
  <2> QED BY <2>1, <2>2, <2>3 DEF Stored
<1>4. \A k \in DOMAIN flags' : flags'[k] \in FlagRow
  BY <1>1 DEF TypeInv, TypeOK, FlagRow
<1>5. DOMAIN acked' \subseteq DOMAIN acked
  BY DEF Delete, Without
<1> QED BY <1>1, <1>2, <1>3, <1>4, <1>5, CommitTypes, WatchTypes

LEMMA PurgeTypes ==
  ASSUME TypeInv
  PROVE  PurgeBegin \/ PurgeLoad \/ PurgeAge \/ PurgeCap => TypeInv'
<1>1. CASE PurgeBegin
  <2>1. purge' \in [at : {"idle", "load", "age", "cap"}, age : Limits, cap : Limits]
    BY <1>1, NumbersAssumption DEF PurgeBegin, IdlePurge, TypeInv, TypeOK
  <2> QED BY <1>1, <2>1 DEF PurgeBegin, TypeInv, TypeOK, Stored, content, history
<1>2. CASE PurgeLoad
  <2>1. purge' \in [at : {"idle", "load", "age", "cap"}, age : Limits, cap : Limits]
    BY <1>2 DEF PurgeLoad, TypeInv, TypeOK
  <2> QED BY <1>2, <2>1 DEF PurgeLoad, TypeInv, TypeOK, Stored, content, history
<1>3. CASE PurgeAge
  <2>1. PICK S \in SUBSET Items : Delete(S)
    BY <1>3 DEF PurgeAge, Stored
  <2>2. /\ purge' = [purge EXCEPT !.at = "cap"]
        /\ purgedAt' = [i \in Items |->
             IF purge.age > 0 /\ i \in {j \in Stored : published[j] < day - purge.age /\ ~Starred(j)}
             THEN purge.age ELSE purgedAt[i]]
        /\ UNCHANGED <<day, settings, req, served>>
    BY <1>3 DEF PurgeAge
  <2>3. purgedAt' \in [Items -> Nat]
    BY <2>2, NumbersAssumption DEF TypeInv, TypeOK
  <2>4. purge' \in [at : {"idle", "load", "age", "cap"}, age : Limits, cap : Limits]
    BY <2>2 DEF TypeInv, TypeOK
  <2>5. TypeOK'
    BY <2>1, <2>2, <2>4, DeleteTypes DEF TypeInv, TypeOK, FlagRow
  <2> QED BY <2>1, <2>2, <2>3, <2>5, DeleteTypes DEF TypeInv
<1>4. CASE PurgeCap
  <2>1. PICK S \in SUBSET Items : Delete(S)
    <3>1. \A newest : /\ {i \in Stored \ newest : ~Starred(i)} \in SUBSET Items
                      /\ {} \in SUBSET Items
      BY DEF Stored
    <3> QED BY <1>4, <3>1 DEF PurgeCap
  <2>2. /\ purge' = IdlePurge
        /\ UNCHANGED <<day, settings, req, purgedAt, served>>
    BY <1>4 DEF PurgeCap
  <2>3. purge' \in [at : {"idle", "load", "age", "cap"}, age : Limits, cap : Limits]
    BY <2>2, NumbersAssumption DEF IdlePurge
  <2>4. TypeOK'
    BY <2>1, <2>2, <2>3, DeleteTypes DEF TypeInv, TypeOK, FlagRow
  <2> QED BY <2>1, <2>2, <2>4, DeleteTypes DEF TypeInv
<1> QED BY <1>1, <1>2, <1>3, <1>4

\* What a request writes, when its row is still there.
LEMMA UpsertedType ==
  ASSUME TypeInv, NEW r \in Requests, req[r].at # "idle"
  PROVE  Upserted(r) \in FlagRow
<1>1. req[r] \in Busy
  BY DEF TypeInv, IdleRequest
<1>2. req[r].column \in Columns /\ req[r].value \in BOOLEAN /\ req[r].seen \in FlagRow
  BY <1>1 DEF Busy
<1>3. \A row \in FlagRow : [row EXCEPT ![req[r].column] = req[r].value] \in FlagRow
  BY <1>2 DEF FlagRow, Columns
<1>4. req[r].key \in DOMAIN flags => flags[req[r].key] \in FlagRow
  BY DEF TypeInv, TypeOK, FlagRow
<1> QED BY <1>2, <1>3, <1>4 DEF Upserted

LEMMA FlagsType ==
  ASSUME TypeInv, NEW u, NEW i
  PROVE  Flags(u, i) \in FlagRow
<1>1. CASE <<u, i>> \in DOMAIN flags
  <2>1. flags[<<u, i>>] \in FlagRow
    BY <1>1 DEF TypeInv, TypeOK, FlagRow
  <2> QED BY <1>1, <2>1 DEF Flags
<1>2. CASE <<u, i>> \notin DOMAIN flags
  BY <1>2 DEF Flags, None, FlagRow
<1> QED BY <1>1, <1>2

LEMMA FlagTypes ==
  ASSUME TypeInv, NEW r \in Requests
  PROVE  /\ \A key \in Users \X Items, column \in Columns, value \in BOOLEAN :
              FlagBegin(r, key, column, value) => TypeInv'
         /\ FlagRead(r) \/ FlagWrite(r) => TypeInv'
<1>1. ASSUME NEW key \in Users \X Items, NEW column \in Columns, NEW value \in BOOLEAN,
             FlagBegin(r, key, column, value)
      PROVE  TypeInv'
  <2> DEFINE q == [IdleRequest EXCEPT !.at = "state", !.key = key, !.row = stored[key[2]],
                                      !.column = column, !.value = value]
  <2>1. req' = [req EXCEPT ![r] = q]
    BY <1>1 DEF FlagBegin
  <2>2. q \in Busy
    <3>1. stored[key[2]] \in Nat \ {0}
      BY <1>1 DEF FlagBegin, Stored, TypeInv
    <3> QED BY <3>1 DEF IdleRequest, Busy, FlagRow, None
  <2> HIDE DEF q
  <2>3. DOMAIN req' = Requests /\ \A s \in Requests : req'[s] \in Busy \cup {IdleRequest}
    BY <2>1, <2>2 DEF TypeInv
  <2>4. DOMAIN acked' \subseteq DOMAIN acked
    BY <1>1 DEF FlagBegin, Without
  <2>5. /\ UNCHANGED <<day, content, settings, poll, purge, walk, purgedAt>>
        /\ served' \in 0..MaxRequests
    BY <1>1, BoundsAssumption DEF FlagBegin, TypeInv, TypeOK
  <2> QED BY <2>3, <2>4, <2>5 DEF TypeInv, TypeOK, Stored, content
<1>2. ASSUME FlagRead(r)
      PROVE  TypeInv'
  <2> DEFINE q == [req[r] EXCEPT !.at = "write", !.seen = Flags(req[r].key[1], req[r].key[2])]
  <2>1. req' = [req EXCEPT ![r] = q]
    BY <1>2 DEF FlagRead, TypeInv
  <2>2. req[r] \in Busy
    BY <1>2 DEF FlagRead, TypeInv, IdleRequest
  <2>3. Flags(req[r].key[1], req[r].key[2]) \in FlagRow
    BY FlagsType
  <2>4. q \in Busy
    BY <2>2, <2>3 DEF Busy
  <2> HIDE DEF q
  <2>5. DOMAIN req' = Requests /\ \A s \in Requests : req'[s] \in Busy \cup {IdleRequest}
    BY <2>1, <2>4 DEF TypeInv
  <2> QED BY <1>2, <2>5 DEF FlagRead, TypeInv, TypeOK, Stored, content, history
<1>3. ASSUME FlagWrite(r)
      PROVE  TypeInv'
  <2> DEFINE key == req[r].key
             ok == stored[key[2]] = req[r].row
  <2>1. req[r] \in Busy
    BY <1>3 DEF FlagWrite, TypeInv, IdleRequest
  <2>2. /\ key \in Users \X Items /\ <<key[1], key[2], req[r].column>> \in Users \X Items \X Columns
    BY <2>1 DEF Busy
  <2>3. /\ flags' = IF ok THEN With(flags, key, Upserted(r)) ELSE flags
        /\ req' = [req EXCEPT ![r] = IdleRequest]
        /\ UNCHANGED <<day, stored, rows, published, settings, purge, purgedAt, served>>
        /\ Commit /\ Watch
        /\ DOMAIN acked' \subseteq DOMAIN acked \cup {<<key[1], key[2], req[r].column>>}
    BY <1>3 DEF FlagWrite, With
  <2>4. Upserted(r) \in FlagRow
    BY <1>3, UpsertedType DEF FlagWrite
  <2>5. DOMAIN flags' \subseteq Users \X Stored'
        /\ \A k \in DOMAIN flags' : flags'[k] \in FlagRow
    <3>1. Stored' = Stored
      BY <2>3 DEF Stored
    <3>2. DOMAIN flags \subseteq Users \X Stored /\ \A k \in DOMAIN flags : flags[k] \in FlagRow
      BY DEF TypeInv, TypeOK, FlagRow
    <3>3. CASE ok
      <4>1. key \in Users \X Stored
        <5>1. stored[key[2]] > 0
          BY <2>1, <3>3 DEF Busy
        <5> QED BY <2>2, <5>1 DEF Stored
      <4> QED BY <2>3, <2>4, <3>1, <3>2, <3>3, <4>1 DEF With
    <3>4. CASE ~ok
      BY <2>3, <3>1, <3>2, <3>4
    <3> QED BY <3>3, <3>4
  <2>6. poll' \in Polls /\ walk' \in Walks
    BY <2>3, <2>5, CommitTypes, WatchTypes DEF TypeInv
  <2> QED BY <2>2, <2>3, <2>5, <2>6 DEF TypeInv, TypeOK, Stored, FlagRow
<1> QED BY <1>1, <1>2, <1>3

LEMMA WorldTypes ==
  ASSUME TypeInv
  PROVE  NextDay \/ Crash => TypeInv'
<1>1. CASE NextDay
  BY <1>1, BoundsAssumption DEF NextDay, TypeInv, TypeOK, Stored, content, history
<1>2. CASE Crash
  <2>1. poll' \in Polls /\ purge' \in [at : {"idle", "load", "age", "cap"}, age : Limits, cap : Limits]
    BY <1>2, NumbersAssumption, NoDates DEF Crash, Polls, IdlePoll, IdlePurge
  <2> QED BY <1>2, <2>1 DEF Crash, TypeInv, TypeOK, Stored, content, history
<1> QED BY <1>1, <1>2

LEMMA NextTypes ==
  ASSUME TypeInv, [Next]_vars
  PROVE  TypeInv'
<1>1. CASE Next
  BY <1>1, WalkTypes, PollTypes, SetAppTypes, PurgeTypes, FlagTypes, WorldTypes,
     DocumentsAssumption, MarkedAssumption DEF Next
<1>2. CASE UNCHANGED vars
  BY <1>2 DEF vars, content, history, TypeInv, TypeOK, Stored
<1> QED BY <1>1, <1>2

----------------------------------------------------------------------------
(* Polls and the age of what was purged.                                   *)

\* What neither reads nor writes for the polls leaves the relation alone, and
\* so does a write, for it makes the snapshot stale.
LEMMA PollLeft ==
  ASSUME TypeInv, PollInv, day' = day \/ day' = day + 1, UNCHANGED <<purgedAt, published>>,
         \/ UNCHANGED <<poll, stored>>
         \/ Commit
         \/ poll' = IdlePoll
         \/ poll'.at = "read"
  PROVE  PollInv'
<1>1. \A i \in Items : purgedAt'[i] > 0 => published'[i] < day' - purgedAt'[i]
  BY DEF TypeInv, TypeOK, PollInv
<1>2. ASSUME poll'.at = "write", ~poll'.stale
      PROVE  UNCHANGED <<poll, stored>>
  <2>1. CASE Commit
    BY <1>2, <2>1 DEF Commit, TypeInv, Polls
  <2>2. CASE poll' = IdlePoll \/ poll'.at = "read"
    BY <1>2, <2>2 DEF IdlePoll
  <2> QED BY <2>1, <2>2
<1> QED BY <1>1, <1>2 DEF PollInv, Stored

LEMMA PollReads ==
  ASSUME TypeInv, PollInv, PollRead
  PROVE  PollInv'
<1> DEFINE old == {i \in DOMAIN poll.items : ~YoungEnough(poll.cut, poll.items[i])}
           new == Without(poll.items, Stored \cup old)
<1>1. poll' = [poll EXCEPT !.at = "write", !.items = <<>>, !.new = new]
      /\ UNCHANGED <<day, stored, published, purgedAt>>
  BY DEF PollRead, content, history
<1>2. poll'.new = new /\ poll'.cut = poll.cut
  BY <1>1 DEF TypeInv, Polls
<1>3. ASSUME NEW i \in DOMAIN new
      PROVE  /\ i \notin Stored
             /\ purgedAt[i] > 0 => poll.cut = 0 \/ poll.cut > purgedAt[i] \/ new[i] > published[i]
  <2>1. i \in DOMAIN poll.items \ (Stored \cup old) /\ new[i] = poll.items[i]
    BY <1>3 DEF Without
  <2>2. i \in Items /\ poll.items[i] \in Int
    <3>1. poll.items \in Dated
      BY DEF TypeInv, Polls
    <3> QED BY <2>1, <3>1, DatedType
  <2>3. poll.cut \in Nat
    BY NumbersAssumption DEF TypeInv, Polls
  <2>4. poll.cut > 0 => poll.items[i] >= day - poll.cut
    BY <2>1 DEF YoungEnough
  <2>5. purgedAt[i] > 0 => published[i] < day - purgedAt[i]
    BY <2>2 DEF PollInv
  <2> QED BY <2>1, <2>2, <2>3, <2>4, <2>5, BoundsAssumption DEF TypeInv, TypeOK
<1> HIDE DEF new
<1> QED BY <1>1, <1>2, <1>3 DEF PollInv, Stored

\* What is stored again has not been purged since.
LEMMA PollWrites ==
  ASSUME TypeInv, PollInv, PollWrite
  PROVE  PollInv'
<1>1. poll'.at = "idle" /\ UNCHANGED day
  BY DEF PollWrite, IdlePoll
<1>2. ASSUME NEW i \in Items, purgedAt'[i] > 0
      PROVE  published'[i] < day' - purgedAt'[i]
  <2>1. purgedAt'[i] = purgedAt[i] /\ published'[i] = published[i]
    BY <1>2 DEF PollWrite
  <2> QED BY <1>1, <1>2, <2>1 DEF PollInv
<1> QED BY <1>1, <1>2 DEF PollInv

LEMMA PollPurged ==
  ASSUME TypeInv, PollInv, PurgeAge
  PROVE  PollInv'
<1>1. Commit /\ UNCHANGED <<day, published>>
  BY DEF PurgeAge, Delete
<1>2. poll'.at = "write" => poll'.stale
  BY <1>1 DEF Commit, TypeInv, Polls
<1>3. ASSUME NEW i \in Items, purgedAt'[i] > 0
      PROVE  published[i] < day - purgedAt'[i]
  <2>1. purgedAt'[i] = IF purge.age > 0 /\ i \in Stored /\ published[i] < day - purge.age /\ ~Starred(i)
                       THEN purge.age ELSE purgedAt[i]
    BY DEF PurgeAge
  <2> QED BY <1>3, <2>1 DEF PollInv
<1> QED BY <1>1, <1>2, <1>3 DEF PollInv

LEMMA NextPoll ==
  ASSUME TypeInv, PollInv, [Next]_vars
  PROVE  PollInv'
<1> USE PollLeft
<1>1. ASSUME NEW status \in {"all", "unread"}, Walk(status)
      PROVE  PollInv'
  BY <1>1 DEF Walk, content
<1>2. CASE WalkCount \/ WalkRows
  BY <1>2 DEF WalkCount, WalkRows, content, history
<1>3. ASSUME NEW S \in SUBSET Items, PollFetch(S)
      PROVE  PollInv'
  BY <1>3 DEF PollFetch, IdlePoll, content, history
<1>4. CASE PollRead
  BY <1>4, PollReads
<1>5. CASE PollWrite
  BY <1>5, PollWrites
<1>6. ASSUME NEW key \in {"cut", "age", "cap"}, NEW value \in Limits, SetApp(key, value)
      PROVE  PollInv'
  BY <1>6 DEF SetApp, content
<1>7. CASE PurgeBegin \/ PurgeLoad
  BY <1>7 DEF PurgeBegin, PurgeLoad, content, history
<1>8. CASE PurgeAge
  BY <1>8, PollPurged
<1>9. CASE PurgeCap
  BY <1>9 DEF PurgeCap, Delete
<1>10. ASSUME NEW r \in Requests, NEW key \in Users \X Items, NEW column \in Columns,
              NEW value \in BOOLEAN, FlagBegin(r, key, column, value)
       PROVE  PollInv'
  BY <1>10 DEF FlagBegin, content
<1>11. ASSUME NEW r \in Requests, FlagRead(r) \/ FlagWrite(r)
       PROVE  PollInv'
  BY <1>11 DEF FlagRead, FlagWrite, content, history
<1>12. CASE NextDay \/ Crash
  BY <1>12 DEF NextDay, Crash, content, history
<1>13. CASE UNCHANGED vars
  BY <1>13 DEF vars, content, history
<1> QED BY <1>1, <1>2, <1>3, <1>4, <1>5, <1>6, <1>7, <1>8, <1>9, <1>10, <1>11, <1>12, <1>13,
     DocumentsAssumption, MarkedAssumption DEF Next

\* Only the INSERTs of a poll store items.
LEMMA PollComesBack ==
  ASSUME TypeInv, PollInv, [Next]_vars, NEW i \in Items,
         stored[i] = 0, stored'[i] > 0, purgedAt[i] > 0
  PROVE  poll.cut = 0 \/ poll.cut > purgedAt[i] \/ published'[i] > published[i]
<1>1. CASE PollWrite
  <2>1. i \in DOMAIN poll.new /\ ~poll.stale /\ poll.at = "write" /\ published'[i] = poll.new[i]
    BY <1>1 DEF PollWrite
  <2> QED BY <2>1 DEF PollInv
<1>2. CASE PurgeAge \/ PurgeCap
  <2>1. PICK S : Delete(S)
    BY <1>2 DEF PurgeAge, PurgeCap
  <2>2. stored'[i] = 0
    BY <2>1 DEF Delete
  <2> QED BY <2>2
<1>3. CASE UNCHANGED stored
  BY <1>3
<1> QED BY <1>1, <1>2, <1>3 DEF Next, vars, content, Walk, WalkCount, WalkRows, PollFetch, PollRead,
     SetApp, PurgeBegin, PurgeLoad, FlagBegin, FlagRead, FlagWrite, NextDay, Crash

----------------------------------------------------------------------------
(* Answers about flags.                                                    *)

LEMMA FlagsLeft ==
  ASSUME FlagInv, UNCHANGED <<stored, rows, flags, acked>>,
         UNCHANGED req \/ req' = [r \in Requests |-> IdleRequest]
  PROVE  FlagInv'
BY DEF FlagInv, AnswersStand, RequestOK, OpenOK, Flags, IdleRequest

\* A poll gives an item a row that no request has seen.
LEMMA FlagsPolled ==
  ASSUME TypeInv, FlagInv, PollWrite
  PROVE  FlagInv'
<1>1. UNCHANGED <<flags, acked, req>>
  BY DEF PollWrite
<1>2. /\ rows' \in Nat /\ rows' >= rows
      /\ \A i \in Items : stored'[i] = stored[i] \/ stored'[i] > rows
  <2> DEFINE new == IF poll.stale THEN {} ELSE DOMAIN poll.new
  <2>1. /\ rows' = IF new # {} THEN rows + 1 ELSE rows
        /\ stored' = [i \in Items |-> IF i \in new THEN rows' ELSE stored[i]]
    BY DEF PollWrite
  <2> HIDE DEF new
  <2> QED BY <2>1, BoundsAssumption DEF TypeInv, TypeOK
<1>3. ASSUME NEW r \in Requests
      PROVE  RequestOK(req[r])'
  <2> SUFFICES ASSUME req[r].at # "idle"
               PROVE  RequestOK(req[r])'
    BY <1>1 DEF RequestOK
  <2>1. PICK i \in Items : i = req[r].key[2]
    BY DEF TypeInv, Busy, IdleRequest
  <2>2. req[r].row \in 1..rows /\ rows \in Nat
    BY <2>1, BoundsAssumption DEF FlagInv, RequestOK, TypeInv, TypeOK
  <2>3. req[r].row \in 1..rows' /\ (stored'[i] = req[r].row => stored[i] = req[r].row)
    BY <1>2, <2>2 DEF TypeInv
  <2> QED BY <1>1, <2>1, <2>3 DEF FlagInv, RequestOK
<1> QED BY <1>1, <1>3 DEF FlagInv, AnswersStand, Flags, OpenOK

\* A purge takes no starred item, and no answer but that of a star outlives
\* the row.
LEMMA FlagsPurged ==
  ASSUME TypeInv, FlagInv, NEW S \in SUBSET Items, Delete(S), UNCHANGED req,
         \A i \in S : ~Starred(i)
  PROVE  FlagInv'
<1>1. /\ stored' = [i \in Items |-> IF i \in S THEN 0 ELSE stored[i]]
      /\ flags' = [k \in DOMAIN flags \ (Users \X S) |-> flags[k]]
      /\ acked' = [k \in DOMAIN acked \
                     {l \in Users \X S \X Columns : ~(l[3] = "star" /\ acked[l])} |-> acked[k]]
      /\ UNCHANGED rows
  BY DEF Delete, LeftStates, Without
<1>2. ASSUME NEW k \in DOMAIN acked'
      PROVE  Flags(k[1], k[2])'[k[3]] = acked'[k]
  <2>1. /\ k \in DOMAIN acked /\ acked'[k] = acked[k]
        /\ Flags(k[1], k[2])[k[3]] = acked[k]
    BY <1>1 DEF FlagInv, AnswersStand
  <2>2. PICK u \in Users, i \in Items, column \in Columns : k = <<u, i, column>>
    BY <2>1 DEF TypeInv, TypeOK
  <2>3. CASE i \notin S
    <3>1. Flags(u, i)' = Flags(u, i)
      BY <1>1, <2>2, <2>3 DEF Flags
    <3> QED BY <2>1, <2>2, <3>1
  <2>4. CASE i \in S
    <3>1. column = "star" /\ acked[k]
      BY <1>1, <2>2, <2>4
    <3>2. Flags(u, i).star
      BY <2>1, <2>2, <3>1
    <3>3. Starred(i)
      BY <3>2 DEF Starred
    <3> QED BY <2>4, <3>3
  <2> QED BY <2>3, <2>4
<1>3. ASSUME NEW r \in Requests
      PROVE  RequestOK(req[r])'
  <2> SUFFICES ASSUME req[r].at # "idle"
               PROVE  RequestOK(req[r])'
    BY DEF RequestOK
  <2>1. PICK u \in Users, i \in Items : req[r].key = <<u, i>> /\ req[r].row > 0
    BY DEF TypeInv, Busy, IdleRequest
  <2>2. stored'[i] = req[r].row => i \notin S /\ stored[i] = req[r].row
    BY <1>1, <2>1
  <2>3. i \notin S /\ <<u, i>> \notin DOMAIN flags' => <<u, i>> \notin DOMAIN flags
    BY <1>1
  <2> QED BY <1>1, <2>1, <2>2, <2>3 DEF FlagInv, RequestOK
<1>4. ASSUME NEW r \in Requests
      PROVE  OpenOK(req[r])'
  BY <1>1 DEF FlagInv, OpenOK
<1> QED BY <1>2, <1>3, <1>4 DEF FlagInv, AnswersStand

LEMMA FlagsBegun ==
  ASSUME TypeInv, FlagInv, NEW r \in Requests, NEW key \in Users \X Items,
         NEW column \in Columns, NEW value \in BOOLEAN, FlagBegin(r, key, column, value)
  PROVE  FlagInv'
<1> PICK q : q = [IdleRequest EXCEPT !.at = "state", !.key = key, !.row = stored[key[2]],
                                     !.column = column, !.value = value]
  OBVIOUS
<1>1. /\ req' = [req EXCEPT ![r] = q] /\ UNCHANGED <<stored, rows, flags>>
      /\ acked' = [k \in DOMAIN acked \ {<<key[1], key[2], column>>} |-> acked[k]]
  BY DEF FlagBegin, Without, content
<1>2. q.at = "state" /\ q.key = key /\ q.row = stored[key[2]] /\ q.column = column
  BY DEF IdleRequest
<1>3. stored[key[2]] \in 1..rows
  BY BoundsAssumption DEF FlagBegin, Stored, TypeInv, TypeOK
<1>4. RequestOK(q)' /\ OpenOK(q)'
  BY <1>1, <1>2, <1>3 DEF RequestOK, OpenOK
<1>5. \A s \in Requests : RequestOK(req[s])' /\ OpenOK(req[s])'
  BY <1>1, <1>4 DEF FlagInv, RequestOK, OpenOK, TypeInv
<1> QED BY <1>1, <1>5 DEF FlagInv, AnswersStand, Flags

LEMMA FlagsRead ==
  ASSUME TypeInv, FlagInv, NEW r \in Requests, FlagRead(r)
  PROVE  FlagInv'
<1> PICK q : q = [req[r] EXCEPT !.at = "write", !.seen = Flags(req[r].key[1], req[r].key[2])]
  OBVIOUS
<1>1. req' = [req EXCEPT ![r] = q] /\ UNCHANGED <<stored, rows, flags, acked>>
  BY DEF FlagRead, TypeInv, content, history
<1>2. req[r] \in Busy /\ req[r].at = "state"
  BY DEF FlagRead, TypeInv, IdleRequest
<1>3. /\ q.at = "write" /\ q.key = req[r].key /\ q.row = req[r].row /\ q.column = req[r].column
      /\ q.seen = Flags(req[r].key[1], req[r].key[2])
  BY <1>2 DEF Busy
<1>4. q.key \notin DOMAIN flags => q.seen = None
  BY <1>2, <1>3 DEF Busy, Flags
<1>5. RequestOK(q)' /\ OpenOK(q)'
  BY <1>1, <1>2, <1>3, <1>4 DEF FlagInv, RequestOK, OpenOK
<1>6. \A s \in Requests : RequestOK(req[s])' /\ OpenOK(req[s])'
  BY <1>1, <1>5 DEF FlagInv, RequestOK, OpenOK, TypeInv
<1> QED BY <1>1, <1>6 DEF FlagInv, AnswersStand, Flags

\* A write changes one flag; the other one of the row stays, for a request
\* that found no row has read that both were down.
LEMMA FlagsWritten ==
  ASSUME TypeInv, FlagInv, NEW r \in Requests, FlagWrite(r)
  PROVE  FlagInv'
<1> PICK key, column : key = req[r].key /\ column = req[r].column
  OBVIOUS
<1>1. /\ req[r] \in Busy /\ req[r].at = "write" /\ key \in Users \X Items /\ column \in Columns
      /\ req[r].value \in BOOLEAN
  BY DEF FlagWrite, TypeInv, IdleRequest, Busy
<1>2. /\ req' = [req EXCEPT ![r] = IdleRequest]
      /\ UNCHANGED <<stored, rows>>
  BY DEF FlagWrite
<1>3. ASSUME NEW s \in Requests, req'[s].at # "idle"
      PROVE  s # r /\ req'[s] = req[s]
  BY <1>2, <1>3 DEF TypeInv, IdleRequest
<1>4. CASE stored[key[2]] # req[r].row
  <2>1. UNCHANGED <<flags, acked>>
    BY <1>4 DEF FlagWrite
  <2> QED BY <1>2, <1>3, <2>1 DEF FlagInv, AnswersStand, Flags, RequestOK, OpenOK
<1>5. CASE stored[key[2]] = req[r].row
  <2>1. flags' = [k \in DOMAIN flags \cup {key} |-> IF k = key THEN Upserted(r) ELSE flags[k]]
    BY <1>5 DEF FlagWrite, With
  <2>2. Upserted(r) = [Flags(key[1], key[2]) EXCEPT ![column] = req[r].value]
    <3>1. key = <<key[1], key[2]>>
      BY <1>1
    <3>2. CASE key \in DOMAIN flags
      BY <3>1, <3>2 DEF Upserted, Flags
    <3>3. CASE key \notin DOMAIN flags
      <4>1. req[r].seen = None
        BY <1>1, <1>5, <3>3 DEF FlagInv, RequestOK
      <4> QED BY <3>1, <3>3, <4>1 DEF Upserted, Flags
    <3> QED BY <3>2, <3>3
  <2>3. Flags(key[1], key[2])' = [Flags(key[1], key[2]) EXCEPT ![column] = req[r].value]
    <3>1. key = <<key[1], key[2]>> /\ key \in DOMAIN flags'
      BY <1>1, <2>1
    <3>2. flags'[key] = Upserted(r)
      BY <2>1
    <3> QED BY <2>2, <3>1, <3>2 DEF Flags
  <2>4. \A u, i : <<u, i>> # key => Flags(u, i)' = Flags(u, i)
    BY <2>1 DEF Flags
  <2>5. Flags(key[1], key[2]) \in FlagRow
    BY FlagsType
  <2>6. /\ Flags(key[1], key[2])'[column] = req[r].value
        /\ \A c \in Columns \ {column} : Flags(key[1], key[2])'[c] = Flags(key[1], key[2])[c]
    BY <1>1, <2>3, <2>5 DEF FlagRow, Columns
  <2>7. ASSUME NEW k \in DOMAIN acked'
        PROVE  Flags(k[1], k[2])'[k[3]] = acked'[k]
    <3>1. CASE k = <<key[1], key[2], column>>
      <4>1. k \notin DOMAIN acked
        BY <1>1, <3>1 DEF FlagInv, OpenOK
      <4>2. acked'[k] = req[r].value
        BY <3>1, <4>1, <2>7 DEF FlagWrite, With
      <4> QED BY <3>1, <4>2, <2>6
    <3>2. CASE k # <<key[1], key[2], column>>
      <4>1. k \in DOMAIN acked /\ acked'[k] = acked[k]
        BY <2>7, <3>2 DEF FlagWrite, With
      <4>2. PICK u \in Users, i \in Items, c \in Columns : k = <<u, i, c>>
        BY <4>1 DEF TypeInv, TypeOK
      <4>3. Flags(u, i)[c] = acked[k]
        BY <4>1, <4>2 DEF FlagInv, AnswersStand
      <4>4. CASE <<u, i>> # key
        BY <2>4, <4>1, <4>2, <4>3, <4>4
      <4>5. CASE <<u, i>> = key
        <5>1. c # column /\ u = key[1] /\ i = key[2]
          BY <3>2, <4>2, <4>5
        <5> QED BY <2>6, <4>1, <4>2, <4>3, <5>1
      <4> QED BY <4>4, <4>5
    <3> QED BY <3>1, <3>2
  <2>8. ASSUME NEW s \in Requests
        PROVE  RequestOK(req[s])' /\ OpenOK(req[s])'
    <3> SUFFICES ASSUME req'[s].at # "idle"
                 PROVE  RequestOK(req[s])' /\ OpenOK(req[s])'
      BY DEF RequestOK, OpenOK
    <3>1. s # r /\ req'[s] = req[s] /\ RequestOK(req[s]) /\ OpenOK(req[s])
      BY <1>3 DEF FlagInv
    <3>2. RequestOK(req[s])'
      BY <1>2, <2>1, <3>1 DEF RequestOK
    <3>3. <<req[s].key[1], req[s].key[2], req[s].column>> \notin DOMAIN acked'
      <4> SUFFICES ASSUME <<req[s].key[1], req[s].key[2], req[s].column>> \in DOMAIN acked'
                   PROVE  FALSE
        OBVIOUS
      <4>1. <<req[s].key[1], req[s].key[2], req[s].column>> = <<key[1], key[2], column>>
            /\ acked' # acked
        BY <3>1 DEF FlagWrite, With, OpenOK
      <4>2. req[s] \in Busy
        BY <3>1 DEF TypeInv, IdleRequest
      <4>3. req[s].key = key /\ req[s].column = column
        BY <1>1, <4>1, <4>2 DEF Busy
      <4>4. Touches(s, key, column)
        BY <3>1, <4>3 DEF Touches
      <4> QED BY <3>1, <4>1, <4>4 DEF FlagWrite
    <3> QED BY <3>1, <3>2, <3>3 DEF OpenOK
  <2> QED BY <2>7, <2>8 DEF FlagInv, AnswersStand
<1> QED BY <1>4, <1>5

LEMMA NextFlags ==
  ASSUME TypeInv, FlagInv, [Next]_vars
  PROVE  FlagInv'
<1>1. ASSUME NEW status \in {"all", "unread"}, Walk(status)
      PROVE  FlagInv'
  BY <1>1, FlagsLeft DEF Walk, content
<1>2. CASE WalkCount \/ WalkRows
  BY <1>2, FlagsLeft DEF WalkCount, WalkRows, content, history
<1>3. ASSUME NEW S \in SUBSET Items, PollFetch(S)
      PROVE  FlagInv'
  BY <1>3, FlagsLeft DEF PollFetch, content, history
<1>4. CASE PollRead
  BY <1>4, FlagsLeft DEF PollRead, content, history
<1>5. CASE PollWrite
  BY <1>5, FlagsPolled
<1>6. ASSUME NEW key \in {"cut", "age", "cap"}, NEW value \in Limits, SetApp(key, value)
      PROVE  FlagInv'
  BY <1>6, FlagsLeft DEF SetApp, content
<1>7. CASE PurgeBegin \/ PurgeLoad
  BY <1>7, FlagsLeft DEF PurgeBegin, PurgeLoad, content, history
<1>8. CASE PurgeAge \/ PurgeCap
  <2>1. PICK S \in SUBSET Items : Delete(S) /\ \A i \in S : ~Starred(i)
    <3>1. /\ {i \in Stored : published[i] < day - purge.age /\ ~Starred(i)} \in SUBSET Items
          /\ \A newest : {i \in Stored \ newest : ~Starred(i)} \in SUBSET Items
          /\ {} \in SUBSET Items
      BY DEF Stored
    <3>2. CASE PurgeAge
      BY <3>1, <3>2 DEF PurgeAge
    <3>3. CASE PurgeCap
      BY <3>1, <3>3 DEF PurgeCap
    <3> QED BY <1>8, <3>2, <3>3
  <2> QED BY <1>8, <2>1, FlagsPurged DEF PurgeAge, PurgeCap
<1>9. ASSUME NEW r \in Requests, NEW key \in Users \X Items, NEW column \in Columns,
             NEW value \in BOOLEAN, FlagBegin(r, key, column, value)
      PROVE  FlagInv'
  BY <1>9, FlagsBegun
<1>10. ASSUME NEW r \in Requests, FlagRead(r) \/ FlagWrite(r)
       PROVE  FlagInv'
  BY <1>10, FlagsRead, FlagsWritten
<1>11. CASE NextDay \/ Crash
  BY <1>11, FlagsLeft DEF NextDay, Crash, content, history
<1>12. CASE UNCHANGED vars
  BY <1>12, FlagsLeft DEF vars, content, history
<1> QED BY <1>1, <1>2, <1>3, <1>4, <1>5, <1>6, <1>7, <1>8, <1>9, <1>10, <1>11, <1>12,
     DocumentsAssumption, MarkedAssumption DEF Next

----------------------------------------------------------------------------
(* The paged list.                                                         *)

LEMMA ScopeFinite ==
  ASSUME NEW status
  PROVE  IsFiniteSet(Scope(status)) /\ Scope(status) \subseteq Items
<1>1. Scope(status) \subseteq Items
  BY DEF Scope, Stored
<1> QED BY <1>1, ItemsAssumption, FS_Subset

\* An item of a list comes before its end, and not further ahead in a list
\* that has grown.
LEMMA PositionBelow ==
  ASSUME NEW f, NEW S \in SUBSET Items, NEW i \in S, f[i] \in Int
  PROVE  /\ Position(f, i, S) \in Nat /\ Cardinality(S) \in Nat
         /\ Position(f, i, S) < Cardinality(S)
<1> DEFINE ahead == {j \in S : f[j] > f[i]}
<1>1. IsFiniteSet(S) /\ ahead \subseteq S /\ i \notin ahead
  BY ItemsAssumption, FS_Subset
<1>2. IsFiniteSet(ahead) /\ Cardinality(ahead) <= Cardinality(S)
      /\ (Cardinality(ahead) = Cardinality(S) => ahead = S)
  BY <1>1, FS_Subset
<1>3. Cardinality(ahead) \in Nat /\ Cardinality(S) \in Nat
  BY <1>1, <1>2, FS_CardinalityType
<1> QED BY <1>1, <1>2, <1>3 DEF Position

LEMMA PositionGrows ==
  ASSUME NEW f, NEW g, NEW S \in SUBSET Items, NEW T \in SUBSET Items, S \subseteq T,
         \A j \in S : f[j] = g[j], NEW i \in S
  PROVE  Position(f, i, S) <= Position(g, i, T)
<1> DEFINE aheadS == {j \in S : f[j] > f[i]}
           aheadT == {j \in T : g[j] > g[i]}
<1>1. IsFiniteSet(aheadT) /\ aheadS \subseteq aheadT
  BY ItemsAssumption, FS_Subset
<1>2. Cardinality(aheadS) <= Cardinality(aheadT)
  BY <1>1, FS_Subset
<1> QED BY <1>2 DEF Position

\* An item whose date no other of the list has is among the first n rows
\* exactly when fewer than n have a later date, whatever becomes of ties.
LEMMA FirstHolds ==
  ASSUME published \in [Items -> Int], NEW S \in SUBSET Items, NEW n \in Nat,
         NEW P \in First(S, n), NEW i, Single(published, i, S)
  PROVE  i \in P <=> Position(published, i, S) < n
<1> DEFINE ahead == {j \in S : published[j] > published[i]}
<1>1. /\ i \in S /\ i \notin ahead /\ ahead \subseteq S /\ P \subseteq S
      /\ \A j \in S \ {i} : j \in ahead \/ published[j] < published[i]
      /\ \A j \in P, k \in S \ P : published[j] >= published[k]
  BY DEF First, Single
<1>2. IsFiniteSet(S) /\ IsFiniteSet(P) /\ IsFiniteSet(ahead)
  BY <1>1, ItemsAssumption, FS_Subset
<1>3. Cardinality(S) \in Nat /\ Cardinality(P) \in Nat /\ Cardinality(ahead) \in Nat
  BY <1>2, FS_CardinalityType
<1>4. Cardinality(P) = IF n < Cardinality(S) THEN n ELSE Cardinality(S)
  BY DEF First
<1>5. CASE i \in P
  <2>1. ahead \cup {i} \subseteq P
    BY <1>1, <1>5
  <2>2. Cardinality(ahead \cup {i}) = Cardinality(ahead) + 1
    BY <1>1, <1>2, FS_AddElement
  <2>3. Cardinality(ahead) + 1 <= Cardinality(P)
    BY <1>2, <2>1, <2>2, FS_Subset
  <2> QED BY <1>3, <1>4, <1>5, <2>3 DEF Position
<1>6. CASE i \notin P
  <2>1. P \subseteq ahead
    BY <1>1, <1>6
  <2>2. Cardinality(P) <= Cardinality(ahead)
    BY <1>2, <2>1, FS_Subset
  <2>3. Cardinality(P) # Cardinality(S)
    BY <1>1, <1>2, <1>6, FS_Subset
  <2> QED BY <1>3, <1>4, <1>6, <2>2, <2>3 DEF Position
<1> QED BY <1>5, <1>6

LEMMA ProductType ==
  ASSUME NEW m \in Nat, NEW l \in Nat
  PROVE  m * l \in Nat
OBVIOUS

LEMMA PageHolds ==
  ASSUME published \in [Items -> Int], NEW S \in SUBSET Items, NEW n \in Nat, n >= 1,
         NEW P \in SUBSET S, IsPage(P, S, n), NEW i, Single(published, i, S),
         Position(published, i, S) >= (n - 1) * PageSize
  PROVE  i \in P \/ Position(published, i, S) >= n * PageSize
<1>1. PICK skipped \in First(S, (n - 1) * PageSize) :
        skipped \cap P = {} /\ skipped \cup P \in First(S, n * PageSize)
  BY DEF IsPage
<1>2. (n - 1) * PageSize \in Nat /\ n * PageSize \in Nat
  BY ProductType, NumbersAssumption
<1>3. Position(published, i, S) \in Nat
  BY PositionBelow DEF Single
<1>4. i \notin skipped
  <2> PICK m : m = (n - 1) * PageSize
    OBVIOUS
  <2>1. i \in skipped <=> Position(published, i, S) < m
    BY <1>1, <1>2, FirstHolds
  <2> QED BY <1>2, <1>3, <2>1
<1>5. i \in skipped \cup P <=> Position(published, i, S) < n * PageSize
  BY <1>1, <1>2, FirstHolds
<1> QED BY <1>2, <1>3, <1>4, <1>5

LEMMA PagesEnough ==
  ASSUME NEW n \in Nat
  PROVE  TotalPages(n) \in Nat /\ n <= TotalPages(n) * PageSize
BY NumbersAssumption DEF TotalPages

LEMMA WalkLeft ==
  ASSUME WalkInv, UNCHANGED <<stored, flags, walk, published>>
  PROVE  WalkInv'
BY DEF WalkInv, Scope, Stored, Flags

LEMMA WalkWatched ==
  ASSUME TypeInv, TypeInv', WalkInv, Watch,
         \A i \in Stored : published'[i] = published[i]
  PROVE  WalkInv'
<1> PICK status : status = walk.status
  OBVIOUS
<1> PICK before, after : before = Scope(status) /\ after = Scope(status)'
  OBVIOUS
<1> DEFINE steady == IF walk.at = "rows" THEN before = after ELSE before \subseteq after
<1>1. walk' = IF walk.at \in {"count", "rows"}
              THEN [walk EXCEPT !.unseen =
                      IF steady THEN @ \cap Alone(Scope(status))' ELSE {}]
              ELSE walk
  BY DEF Watch
<1> HIDE DEF steady
<1>2. walk'.status = status /\ walk'.at = walk.at
  BY <1>1 DEF TypeInv, Walks
<1>3. CASE walk.at \notin {"count", "rows"}
  <2>1. UNCHANGED walk
    BY <1>1, <1>3
  <2>2. WalkOK(walk, after, published')
    BY <1>3 DEF WalkInv, WalkOK
  <2> QED BY <1>2, <2>1, <2>2 DEF WalkInv
<1>4. CASE walk.at \in {"count", "rows"}
  <2>1. /\ walk'.unseen = (IF steady THEN walk.unseen \cap Alone(Scope(status))' ELSE {})
        /\ walk'.page = walk.page /\ walk'.pages = walk.pages
    BY <1>1, <1>4 DEF TypeInv, Walks
  <2>2. WalkOK(walk, before, published)
    BY DEF WalkInv
  <2>3. before \subseteq Items /\ after \subseteq Items /\ before \subseteq Stored
    BY ScopeFinite DEF Scope, Stored
  <2>4. ASSUME NEW i \in walk'.unseen
        PROVE  Single(published', i, after) /\ Position(published', i, after) >= (walk'.page - 1) * PageSize
    <3>1. i \in walk.unseen /\ steady /\ Single(published', i, after)
      BY <2>1, <2>4 DEF Alone, Single
    <3>2. before \subseteq after
      BY <3>1 DEF steady
    <3>3. i \in before /\ Position(published, i, before) >= (walk.page - 1) * PageSize
      BY <1>4, <2>2, <3>1 DEF WalkOK, Single
    <3>4. Position(published, i, before) <= Position(published', i, after)
      BY <2>3, <3>2, <3>3, PositionGrows
    <3>5. Position(published, i, before) \in Nat /\ Position(published', i, after) \in Nat
      BY <2>3, <3>2, <3>3, PositionBelow DEF TypeInv, TypeOK
    <3>6. (walk.page - 1) * PageSize \in Int
      BY NumbersAssumption DEF TypeInv, Walks
    <3> QED BY <2>1, <3>1, <3>3, <3>4, <3>5, <3>6
  <2>5. walk.at = "rows" /\ walk'.unseen # {} => walk'.pages = TotalPages(Cardinality(after))
    BY <2>1, <2>2 DEF WalkOK, steady
  <2>6. WalkOK(walk', after, published')
    BY <1>2, <1>4, <2>1, <2>2, <2>4, <2>5 DEF WalkOK
  <2> QED BY <1>2, <2>6 DEF WalkInv
<1> QED BY <1>3, <1>4

LEMMA WalkBegun ==
  ASSUME TypeInv, NEW status \in {"all", "unread"}, Walk(status)
  PROVE  WalkInv'
<1> PICK S : S = Scope(status)
  OBVIOUS
<1>1. /\ walk'.at = "count" /\ walk'.status = status /\ walk'.page = 1
      /\ walk'.unseen = Alone(S)
  BY DEF Walk, IdleWalk
<1>2. Scope(status)' = S /\ published' = published
  BY DEF Walk, content, Scope, Stored, Flags
<1>3. \A i \in Alone(S) : Single(published, i, S) /\ Position(published, i, S) >= (1 - 1) * PageSize
  <2> SUFFICES ASSUME NEW i \in Alone(S)
               PROVE  Single(published, i, S) /\ Position(published, i, S) >= (1 - 1) * PageSize
    OBVIOUS
  <2>1. Single(published, i, S) /\ i \in S
    BY DEF Alone, Single
  <2>2. Position(published, i, S) \in Nat
    BY <2>1, ScopeFinite, PositionBelow DEF TypeInv, TypeOK
  <2> QED BY <2>1, <2>2, NumbersAssumption
<1>4. WalkOK(walk', S, published)
  BY <1>1, <1>3 DEF WalkOK
<1> QED BY <1>1, <1>2, <1>4 DEF WalkInv

LEMMA WalkCounted ==
  ASSUME TypeInv, WalkInv, WalkCount
  PROVE  WalkInv'
<1> PICK status, S : status = walk.status /\ S = Scope(status)
  OBVIOUS
<1>1. /\ walk' = [walk EXCEPT !.at = "rows", !.pages = TotalPages(Cardinality(S))]
      /\ walk.at = "count"
  BY DEF WalkCount
<1>2. /\ walk'.at = "rows" /\ walk'.pages = TotalPages(Cardinality(S))
      /\ walk'.status = status /\ walk'.page = walk.page /\ walk'.unseen = walk.unseen
  BY <1>1 DEF TypeInv, Walks
<1>3. Scope(status)' = S /\ published' = published
  BY DEF WalkCount, content, Scope, Stored, Flags
<1>4. WalkOK(walk', S, published)
  BY <1>1, <1>2 DEF WalkInv, WalkOK
<1> QED BY <1>2, <1>3, <1>4 DEF WalkInv

\* The items of this page are shown now, those behind it are on later ones,
\* and behind the last page there is none.
LEMMA WalkShown ==
  ASSUME TypeInv, WalkInv, WalkRows
  PROVE  WalkInv'
<1> PICK status, S, n : status = walk.status /\ S = Scope(status) /\ n = walk.page
  OBVIOUS
<1>1. PICK P \in SUBSET S :
        /\ IsPage(P, S, n)
        /\ walk' = IF n < walk.pages
                   THEN [walk EXCEPT !.at = "count", !.page = n + 1, !.unseen = @ \ P]
                   ELSE [IdleWalk EXCEPT !.at = "end", !.unseen = walk.unseen \ P]
  BY DEF WalkRows
<1>2. walk.at = "rows" /\ Scope(status)' = S /\ published' = published
  BY DEF WalkRows, content, Scope, Stored, Flags
<1>3. /\ S \in SUBSET Items /\ n \in Nat /\ walk.pages \in Nat /\ WalkOK(walk, S, published)
      /\ published \in [Items -> Int]
  BY ScopeFinite DEF TypeInv, TypeOK, Walks, WalkInv
<1>4. ASSUME NEW i \in walk.unseen \ P
      PROVE  i \in S /\ Single(published, i, S) /\ Position(published, i, S) >= n * PageSize
  <2>1. /\ n >= 1 /\ Single(published, i, S) /\ i \in S
        /\ Position(published, i, S) >= (n - 1) * PageSize
    BY <1>2, <1>3 DEF WalkOK, Single
  <2> QED BY <1>1, <1>3, <1>4, <2>1, PageHolds
<1>5. CASE n < walk.pages
  <2>1. /\ walk'.at = "count" /\ walk'.page = n + 1 /\ walk'.status = status
        /\ walk'.unseen = walk.unseen \ P
    BY <1>1, <1>5 DEF TypeInv, Walks
  <2>2. (n + 1) - 1 = n /\ n + 1 >= 1
    BY <1>3
  <2>3. WalkOK(walk', S, published)
    BY <1>4, <2>1, <2>2 DEF WalkOK
  <2> QED BY <1>2, <2>1, <2>3 DEF WalkInv
<1>6. CASE ~(n < walk.pages)
  <2>1. walk'.at = "end" /\ walk'.unseen = walk.unseen \ P
    BY <1>1, <1>6 DEF IdleWalk
  <2>2. ASSUME NEW i \in walk.unseen \ P
        PROVE  FALSE
    <3>1. /\ Position(published, i, S) < Cardinality(S) /\ Position(published, i, S) \in Nat
          /\ Cardinality(S) \in Nat
      BY <1>3, <1>4, PositionBelow
    <3>2. Cardinality(S) <= walk.pages * PageSize
      BY <1>2, <1>3, <3>1, PagesEnough DEF WalkOK
    <3>3. /\ walk.pages * PageSize <= n * PageSize
          /\ walk.pages * PageSize \in Nat /\ n * PageSize \in Nat
      BY <1>3, <1>6, NumbersAssumption
    <3> QED BY <1>4, <3>1, <3>2, <3>3
  <2> QED BY <2>1, <2>2 DEF WalkInv, WalkOK
<1> QED BY <1>5, <1>6

LEMMA NextWalk ==
  ASSUME TypeInv, TypeInv', WalkInv, PollInv, [Next]_vars
  PROVE  WalkInv'
<1>1. ASSUME NEW status \in {"all", "unread"}, Walk(status)
      PROVE  WalkInv'
  BY <1>1, WalkBegun
<1>2. CASE WalkCount \/ WalkRows
  BY <1>2, WalkCounted, WalkShown
<1>3. ASSUME NEW S \in SUBSET Items, PollFetch(S)
      PROVE  WalkInv'
  BY <1>3, WalkLeft DEF PollFetch, content
<1>4. CASE PollRead
  BY <1>4, WalkLeft DEF PollRead, content
<1>5. CASE PollWrite
  <2>1. \A i \in Stored : published'[i] = published[i]
    BY <1>5 DEF PollWrite, PollInv, Stored
  <2> QED BY <1>5, <2>1, WalkWatched DEF PollWrite
<1>6. ASSUME NEW key \in {"cut", "age", "cap"}, NEW value \in Limits, SetApp(key, value)
      PROVE  WalkInv'
  BY <1>6, WalkLeft DEF SetApp, content
<1>7. CASE PurgeBegin \/ PurgeLoad
  BY <1>7, WalkLeft DEF PurgeBegin, PurgeLoad, content
<1>8. CASE PurgeAge \/ PurgeCap
  BY <1>8, WalkWatched DEF PurgeAge, PurgeCap, Delete
<1>9. ASSUME NEW r \in Requests, NEW key \in Users \X Items, NEW column \in Columns,
             NEW value \in BOOLEAN, FlagBegin(r, key, column, value)
      PROVE  WalkInv'
  BY <1>9, WalkLeft DEF FlagBegin, content
<1>10. ASSUME NEW r \in Requests, FlagRead(r) \/ FlagWrite(r)
       PROVE  WalkInv'
  BY <1>10, WalkLeft, WalkWatched DEF FlagRead, FlagWrite, content
<1>11. CASE NextDay \/ Crash
  BY <1>11, WalkLeft DEF NextDay, Crash, content
<1>12. CASE UNCHANGED vars
  BY <1>12, WalkLeft DEF vars, content
<1> QED BY <1>1, <1>2, <1>3, <1>4, <1>5, <1>6, <1>7, <1>8, <1>9, <1>10, <1>11, <1>12,
     DocumentsAssumption, MarkedAssumption DEF Next

----------------------------------------------------------------------------
(* The theorems.                                                           *)

LEMMA InitIInv == Init => IInv
<1> SUFFICES ASSUME Init PROVE IInv
  OBVIOUS
<1>1. PollInv /\ FlagInv
  BY DEF Init, PollInv, FlagInv, AnswersStand, RequestOK, OpenOK, IdlePoll, IdleRequest
<1>2. WalkInv
  BY DEF Init, WalkInv, WalkOK, IdleWalk
<1> QED BY <1>1, <1>2, InitTypes DEF IInv

LEMMA NextIInv == IInv /\ [Next]_vars => IInv'
BY NextTypes, NextPoll, NextFlags, NextWalk DEF IInv

\* Types, the ages of what was purged, the answers about flags and the paged
\* list are as the four parts of IInv say in every reachable state.
THEOREM Inductive == Spec => []IInv
BY InitIInv, NextIInv, PTL DEF Spec

\* insert_items, purge, set_read and set_star: every variable has its type, and flags hang
\* on rows that are stored (the foreign key of item_states).
THEOREM Typed == Spec => []TypeOK
<1>1. IInv => TypeOK
  BY DEF IInv, TypeInv
<1> QED BY <1>1, Inductive, PTL

\* routes/items.rs, set_read and set_star: no overlapping request, poll or purge undoes
\* what was answered about a flag, for any number of users, items and requests.
THEOREM Answered == Spec => []AnswersStand
<1>1. IInv => AnswersStand
  BY DEF IInv, FlagInv
<1> QED BY <1>1, Inductive, PTL

\* routes/items.rs, list_items: pages by LIMIT and OFFSET of any size miss no
\* item of a list that nothing leaves, wherever polls insert and in whatever
\* order each query returns items of one date, save items with such a date.
THEOREM Complete == Spec => []WalkMissesNothing
<1>1. IInv => WalkMissesNothing
  BY DEF IInv, WalkInv, WalkOK, WalkMissesNothing
<1> QED BY <1>1, Inductive, PTL

\* insert_items and purge: an item purged for its age is not stored again by a
\* poll unless its cutoff is off or longer than that of the purge, or unless
\* its entry has got a later date, as an undated one does at each fetch.
THEOREM Settles == Spec => NoFlapping
<1>1. IInv /\ [Next]_vars =>
        [\A i \in Items : stored[i] = 0 /\ stored'[i] > 0 /\ purgedAt[i] > 0 =>
           \/ poll.cut = 0 \/ poll.cut > purgedAt[i]
           \/ published'[i] > published[i]]_vars
  BY PollComesBack DEF IInv
<1> QED BY <1>1, Inductive, PTL DEF Spec, NoFlapping

----------------------------------------------------------------------------
(* The outbox of a browser.                                                *)

Direct == [n : 1..MaxChanges, key : Keys, value : BOOLEAN, fate : Fates]
Paused == [n : 1..MaxChanges, key : Keys, value : BOOLEAN]

\* The last entry of k in q, if there is one, has the value v.
Carries(q, k, v) ==
  \A i \in 1..Len(q) :
    q[i].key = k /\ (\A j \in (i + 1)..Len(q) : q[j].key # k) => q[i].value = v

\* Every entry of k in q has the value v.
Agrees(q, k, v) == \A i \in 1..Len(q) : q[i].key = k => q[i].value = v

Queued(k) == k \in KeysOf(queue)
Flushed(p, k) == k \in KeysOf(flush[p])
Flushing == \E p \in Flushes : Running(p)

\* A flush has dealt with k, or began without it.
PastBy(k) == \E p \in Flushes : Running(p) /\ ~Flushed(p, k)

\* The user's last change of k has not been sent, or its answer is not there.
Awaits(k) == k \in KeysOf(paused) \/ \E d \in direct : d.key = k

\* v is what queue and flushes leave at the server for k.
SettlesTo(k, v) ==
  /\ Carries(queue, k, v)
  /\ \A p \in Flushes : Agrees(flush[p], k, v)
  /\ \A p \in Flushes : flight[p] = "reached" /\ Head(flush[p]).key = k => server[k] = v
  /\ ~Queued(k) \/ PastBy(k) => server[k] = v
  /\ ~Awaits(k) => intent[k] = v

\* One change of k at most is under way; it is the last one, and if it reached the
\* server, no entry of k can overwrite it.
DirectOK(k) ==
  \A d \in direct : d.key = k =>
    /\ \A e \in direct : e.key = k => e = d
    /\ k \notin KeysOf(paused) => d.value = intent[k]
    /\ d.fate = "reached" =>
         server[k] = d.value /\ ~Queued(k) /\ \A p \in Flushes : ~Flushed(p, k)

KeyOK(k) ==
  /\ \E v \in BOOLEAN : SettlesTo(k, v)
  /\ DirectOK(k)
  /\ Carries(paused, k, intent[k])

FlightOK == \A p \in Flushes : flight[p] # "none" => Running(p)
KeysOK == \A k \in Keys \ (raced \cup gone) : KeyOK(k)

OutboxInv == OutboxTypeOK /\ FlightOK /\ KeysOK

----------------------------------------------------------------------------
(* Sequences of changes.                                                   *)

LEMMA KeysOfAppend ==
  ASSUME NEW S, NEW q \in Seq(S), NEW e
  PROVE  KeysOf(Append(q, e)) = KeysOf(q) \cup {e.key}
<1>1. /\ Len(Append(q, e)) = Len(q) + 1 /\ Len(q) \in Nat
      /\ \A i \in 1..Len(q) : Append(q, e)[i] = q[i]
      /\ Append(q, e)[Len(q) + 1] = e
  OBVIOUS
<1>2. 1..(Len(q) + 1) = 1..Len(q) \cup {Len(q) + 1}
  BY <1>1
<1> QED BY <1>1, <1>2 DEF KeysOf

LEMMA KeysOfTail ==
  ASSUME NEW S, NEW q \in Seq(S), q # <<>>
  PROVE  KeysOf(q) = {Head(q).key} \cup KeysOf(Tail(q))
<1>1. /\ Len(Tail(q)) = Len(q) - 1 /\ Len(q) \in Nat \ {0} /\ Head(q) = q[1]
      /\ \A i \in 1..(Len(q) - 1) : Tail(q)[i] = q[i + 1]
  OBVIOUS
<1>2. \A i \in 1..Len(q) : i = 1 \/ i - 1 \in 1..(Len(q) - 1)
  BY <1>1
<1>3. \A i \in 1..(Len(q) - 1) : i + 1 \in 1..Len(q)
  BY <1>1
<1>4. ASSUME NEW i \in 1..Len(q) PROVE q[i].key \in {Head(q).key} \cup KeysOf(Tail(q))
  <2>1. CASE i = 1
    BY <1>1, <2>1
  <2>2. CASE i # 1
    <3>1. i - 1 \in 1..(Len(q) - 1) /\ (i - 1) + 1 = i
      BY <1>1, <2>2
    <3>2. Tail(q)[i - 1] = q[i]
      BY <1>1, <3>1
    <3> QED BY <1>1, <3>1, <3>2 DEF KeysOf
  <2> QED BY <2>1, <2>2
<1>5. ASSUME NEW i \in 1..Len(Tail(q)) PROVE Tail(q)[i].key \in KeysOf(q)
  BY <1>1, <1>3 DEF KeysOf
<1>6. Head(q).key \in KeysOf(q)
  BY <1>1 DEF KeysOf
<1> QED BY <1>4, <1>5, <1>6 DEF KeysOf

LEMMA CarriesAppend ==
  ASSUME NEW S, NEW q \in Seq(S), NEW e, NEW k, NEW v,
         e.key = k => e.value = v, e.key # k => Carries(q, k, v)
  PROVE  Carries(Append(q, e), k, v)
<1> DEFINE n == Len(q)  r == Append(q, e)
<1>1. /\ Len(r) = n + 1 /\ n \in Nat /\ r[n + 1] = e
      /\ \A i \in 1..n : r[i] = q[i]
  OBVIOUS
<1> SUFFICES ASSUME NEW i \in 1..Len(r), r[i].key = k,
                    \A j \in (i + 1)..Len(r) : r[j].key # k
             PROVE  r[i].value = v
  BY DEF Carries
<1> HIDE DEF r, n
<1>2. CASE i = n + 1
  BY <1>1, <1>2
<1>3. CASE i # n + 1
  <2>1. i \in 1..n /\ n + 1 \in (i + 1)..(n + 1)
    BY <1>1, <1>3
  <2>2. e.key # k
    BY <1>1, <2>1
  <2>3. \A j \in (i + 1)..n : q[j].key # k
    <3> SUFFICES ASSUME NEW j \in (i + 1)..n PROVE q[j].key # k
      OBVIOUS
    <3>1. j \in 1..n /\ j \in (i + 1)..(n + 1)
      BY <1>1, <2>1
    <3> QED BY <1>1, <3>1
  <2> QED BY <1>1, <2>1, <2>2, <2>3 DEF Carries, n
<1> QED BY <1>2, <1>3

LEMMA CarriesTail ==
  ASSUME NEW S, NEW q \in Seq(S), q # <<>>, NEW k, NEW v, Carries(q, k, v)
  PROVE  /\ Carries(Tail(q), k, v)
         /\ Head(q).key = k /\ k \notin KeysOf(Tail(q)) => Head(q).value = v
<1> DEFINE n == Len(q)  t == Tail(q)
<1>1. /\ Len(t) = n - 1 /\ n \in Nat \ {0} /\ Head(q) = q[1]
      /\ \A i \in 1..(n - 1) : t[i] = q[i + 1]
  OBVIOUS
<1>2. ASSUME NEW i \in 1..Len(t), t[i].key = k, \A j \in (i + 1)..Len(t) : t[j].key # k
      PROVE  t[i].value = v
  <2> HIDE DEF t, n
  <2>1. i + 1 \in 1..n /\ t[i] = q[i + 1]
    BY <1>1
  <2>2. \A j \in (i + 1 + 1)..n : q[j].key # k
    <3> SUFFICES ASSUME NEW j \in (i + 1 + 1)..n PROVE q[j].key # k
      OBVIOUS
    <3>1. j - 1 \in (i + 1)..Len(t) /\ j - 1 \in 1..(n - 1) /\ (j - 1) + 1 = j
      BY <1>1
    <3> QED BY <1>1, <1>2, <3>1
  <2> QED BY <1>2, <2>1, <2>2 DEF Carries, n
<1>3. ASSUME Head(q).key = k, k \notin KeysOf(t) PROVE Head(q).value = v
  <2> HIDE DEF t, n
  <2>1. \A j \in (1 + 1)..n : q[j].key # k
    <3> SUFFICES ASSUME NEW j \in (1 + 1)..n PROVE q[j].key # k
      OBVIOUS
    <3>1. j - 1 \in 1..(n - 1) /\ (j - 1) + 1 = j
      BY <1>1
    <3>2. t[j - 1] = q[j] /\ t[j - 1].key \in KeysOf(t)
      BY <1>1, <3>1 DEF KeysOf
    <3> QED BY <1>3, <3>2
  <2>2. 1 \in 1..Len(q) /\ q[1].key = k
    BY <1>1, <1>3 DEF n
  <2> QED BY <1>1, <2>1, <2>2 DEF Carries, n
<1> QED BY <1>2, <1>3 DEF Carries

LEMMA AgreesTail ==
  ASSUME NEW S, NEW q \in Seq(S), q # <<>>, NEW k, NEW v, Agrees(q, k, v)
  PROVE  Agrees(Tail(q), k, v) /\ (Head(q).key = k => Head(q).value = v)
<1>1. /\ Len(Tail(q)) = Len(q) - 1 /\ Len(q) \in Nat \ {0} /\ Head(q) = q[1]
      /\ \A i \in 1..(Len(q) - 1) : Tail(q)[i] = q[i + 1]
  OBVIOUS
<1>2. \A i \in 1..(Len(q) - 1) : i + 1 \in 1..Len(q)
  BY <1>1
<1>3. 1 \in 1..Len(q)
  BY <1>1
<1> QED BY <1>1, <1>2, <1>3 DEF Agrees

\* What has no entry carries anything, and what agrees carries its value.
LEMMA AgreesCarries ==
  ASSUME NEW q, NEW k, NEW v
  PROVE  /\ Agrees(q, k, v) => Carries(q, k, v)
         /\ k \notin KeysOf(q) => Agrees(q, k, v)
BY DEF Agrees, Carries, KeysOf

LEMMA EmptyKeys ==
  KeysOf(<<>>) = {}
BY DEF KeysOf

----------------------------------------------------------------------------
(* Coalescing.                                                             *)

Rank(P, m) == Cardinality({l \in P : l <= m})

LEMMA RankType ==
  ASSUME NEW P, IsFiniteSet(P), P \subseteq Int, NEW m \in P
  PROVE  Rank(P, m) \in 1..Cardinality(P) /\ Cardinality(P) \in Nat
<1> DEFINE below == {l \in P : l <= m}
<1>1. IsFiniteSet(below) /\ Cardinality(below) <= Cardinality(P)
  BY FS_Subset
<1>2. m \in below
  OBVIOUS
<1>3. Cardinality(below) # 0
  BY <1>1, <1>2, FS_EmptySet
<1>4. Cardinality(below) \in Nat /\ Cardinality(P) \in Nat
  BY <1>1, FS_CardinalityType
<1> HIDE DEF below
<1>5. Cardinality(below) \in 1..Cardinality(P)
  BY <1>1, <1>3, <1>4
<1> QED BY <1>4, <1>5 DEF Rank, below

LEMMA RankGrows ==
  ASSUME NEW P, IsFiniteSet(P), P \subseteq Int, NEW m \in P, NEW l \in P, m < l
  PROVE  Rank(P, m) < Rank(P, l)
<1> DEFINE belowM == {k \in P : k <= m}
           belowL == {k \in P : k <= l}
<1>1. belowM \subseteq belowL /\ belowM # belowL
  <2>1. l \in belowL /\ l \notin belowM
    OBVIOUS
  <2>2. belowM \subseteq belowL
    <3> SUFFICES ASSUME NEW k \in P, k <= m PROVE k <= l
      OBVIOUS
    <3>1. k \in Int /\ m \in Int /\ l \in Int
      OBVIOUS
    <3> QED BY <3>1
  <2> HIDE DEF belowM, belowL
  <2> QED BY <2>1, <2>2
<1>2. IsFiniteSet(belowL) /\ IsFiniteSet(belowM)
  BY FS_Subset
<1> HIDE DEF belowM, belowL
<1>3. Cardinality(belowM) < Cardinality(belowL)
  <2>1. Cardinality(belowM) <= Cardinality(belowL) /\ Cardinality(belowM) # Cardinality(belowL)
    BY <1>1, <1>2, FS_Subset
  <2>2. Cardinality(belowM) \in Nat /\ Cardinality(belowL) \in Nat
    BY <1>2, FS_CardinalityType
  <2> QED BY <2>1, <2>2
<1> QED BY <1>3 DEF Rank, belowM, belowL

\* Every position up to their number is that of one of them.
LEMMA Ranks ==
  ASSUME NEW P, IsFiniteSet(P), P \subseteq Int, NEW n \in 1..Cardinality(P)
  PROVE  \E m \in P : Rank(P, m) = n
<1> DEFINE T == 1..Cardinality(P)
           rank == [m \in P |-> Rank(P, m)]
<1>1. rank \in [P -> T]
  BY RankType
<1>2. \A m, l \in P : rank[m] = rank[l] => m = l
  <2> SUFFICES ASSUME NEW m \in P, NEW l \in P, m # l
               PROVE  Rank(P, m) # Rank(P, l)
    OBVIOUS
  <2>1. m \in Int /\ l \in Int
    OBVIOUS
  <2>2. Rank(P, m) \in 1..Cardinality(P) /\ Rank(P, l) \in 1..Cardinality(P)
        /\ Cardinality(P) \in Nat
    BY RankType
  <2>3. CASE m < l
    <3>1. Rank(P, m) < Rank(P, l)
      BY <2>3, RankGrows
    <3> QED BY <2>2, <3>1
  <2>4. CASE l < m
    <3>1. Rank(P, l) < Rank(P, m)
      BY <2>4, RankGrows
    <3> QED BY <2>2, <3>1
  <2> QED BY <2>1, <2>3, <2>4
<1>3. Cardinality(P) \in Nat
  BY FS_CardinalityType
<1>4. IsFiniteSet(T) /\ Cardinality(T) = Cardinality(P)
  BY <1>3, FS_Interval
<1> HIDE DEF rank, T
<1>5. rank \in Injection(P, T)
  BY <1>1, <1>2 DEF Injection, IsInjective
<1>6. rank \in Surjection(P, T)
  BY <1>4, <1>5, FS_Injection
<1>7. PICK m \in P : rank[m] = n
  BY <1>6 DEF Surjection, T
<1> QED BY <1>7 DEF rank


\* A choice of positions makes a sequence of the entries that stand there.
LEMMA Selected ==
  ASSUME NEW S, NEW q \in Seq(S), NEW P \in SUBSET (1..Len(q))
  PROVE  /\ Select(q, P) \in Seq(S) /\ Len(Select(q, P)) = Cardinality(P)
         /\ \A n \in 1..Len(Select(q, P)) : \E i \in P : Select(q, P)[n] = q[i]
         /\ \A i \in P : \E n \in 1..Len(Select(q, P)) : Select(q, P)[n] = q[i]
<1> DEFINE at(n) == CHOOSE i \in P : Cardinality({j \in P : j <= i}) = n
<1>1. IsFiniteSet(P) /\ P \subseteq Int
  <2>1. IsFiniteSet(1..Len(q)) /\ 1..Len(q) \subseteq Int
    BY FS_Interval
  <2>2. P \subseteq 1..Len(q)
    OBVIOUS
  <2> QED BY <2>1, <2>2, FS_Subset
<1>2. Cardinality(P) \in Nat
  BY <1>1, FS_CardinalityType
<1>3. Select(q, P) = [n \in 1..Cardinality(P) |-> q[at(n)]]
  BY DEF Select
<1>4. ASSUME NEW n \in 1..Cardinality(P)
      PROVE  at(n) \in P /\ Rank(P, at(n)) = n
  <2>1. \E i \in P : Cardinality({j \in P : j <= i}) = n
    BY <1>1, Ranks DEF Rank
  <2> QED BY <2>1 DEF Rank
<1>5. ASSUME NEW i \in P
      PROVE  Rank(P, i) \in 1..Cardinality(P) /\ at(Rank(P, i)) = i
  <2> DEFINE n == Rank(P, i)
  <2>1. n \in 1..Cardinality(P)
    BY <1>1, RankType
  <2>2. at(n) \in P /\ Rank(P, at(n)) = n
    BY <1>4, <2>1
  <2> HIDE DEF at
  <2> PICK other : other = at(n)
    OBVIOUS
  <2>3. n \in Int /\ other \in P /\ other \in Int /\ i \in Int /\ Rank(P, other) = n
    <3>1. other \in P /\ Rank(P, other) = n
      BY <2>2
    <3>2. n \in Int
      BY <2>1
    <3> QED BY <1>1, <3>1, <3>2
  <2>4. ~(other < i)
    <3> SUFFICES ASSUME other < i PROVE FALSE
      OBVIOUS
    <3>1. Rank(P, other) < Rank(P, i)
      BY <1>1, <2>3, RankGrows
    <3> QED BY <2>3, <3>1
  <2>5. ~(i < other)
    <3> SUFFICES ASSUME i < other PROVE FALSE
      OBVIOUS
    <3>1. Rank(P, i) < Rank(P, other)
      BY <1>1, <2>3, RankGrows
    <3> QED BY <2>3, <3>1
  <2> QED BY <2>1, <2>3, <2>4, <2>5
<1> HIDE DEF at
<1>6. \A n \in 1..Cardinality(P) : q[at(n)] \in S
  <2>1. \A i \in 1..Len(q) : q[i] \in S
    OBVIOUS
  <2>2. P \subseteq 1..Len(q)
    OBVIOUS
  <2> QED BY <1>4, <2>1, <2>2
<1>7. /\ Select(q, P) \in Seq(S) /\ Len(Select(q, P)) = Cardinality(P)
      /\ \A n \in 1..Cardinality(P) : Select(q, P)[n] = q[at(n)]
  BY <1>2, <1>3, <1>6
<1> QED BY <1>4, <1>5, <1>7

\* A key of a queue has a last entry.
LEMMA LastEntry ==
  ASSUME NEW S, NEW q \in Seq(S), NEW k \in KeysOf(q)
  PROVE  \E i \in 1..Len(q) : q[i].key = k /\ \A j \in (i + 1)..Len(q) : q[j].key # k
<1> DEFINE P == {i \in 1..Len(q) : q[i].key = k}
<1>1. IsFiniteSet(P) /\ P \subseteq Int
  <2>1. IsFiniteSet(1..Len(q))
    BY FS_Interval
  <2> QED BY <2>1, FS_Subset
<1>2. P # {}
  BY DEF KeysOf
<1> HIDE DEF P
<1>3. Cardinality(P) \in 1..Cardinality(P)
  <2>1. Cardinality(P) \in Nat /\ Cardinality(P) # 0
    BY <1>1, <1>2, FS_CardinalityType, FS_EmptySet
  <2> QED BY <2>1
<1>4. PICK i \in P : Rank(P, i) = Cardinality(P)
  BY <1>1, <1>3, Ranks
<1>5. ASSUME NEW j \in P, i < j PROVE FALSE
  <2>1. Rank(P, i) < Rank(P, j)
    BY <1>1, <1>5, RankGrows
  <2>2. Rank(P, j) \in 1..Cardinality(P) /\ Cardinality(P) \in Nat
    BY <1>1, RankType
  <2> QED BY <1>4, <2>1, <2>2
<1>6. \A j \in (i + 1)..Len(q) : j \notin P
  <2> SUFFICES ASSUME NEW j \in (i + 1)..Len(q), j \in P PROVE FALSE
    OBVIOUS
  <2>1. i \in Int /\ j \in Int /\ i < j
    BY <1>1, <1>4
  <2> QED BY <1>5, <2>1
<1>7. i \in 1..Len(q)
  BY <1>4 DEF P
<1>8. \A j \in (i + 1)..Len(q) : j \in 1..Len(q)
  BY <1>7
<1> QED BY <1>4, <1>6, <1>7, <1>8 DEF P

\* Coalescing keeps every key, with its last value and no other.
LEMMA Coalesced ==
  ASSUME NEW q \in Seq(Entries)
  PROVE  /\ Coalesce(q) \in Seq(Entries)
         /\ KeysOf(Coalesce(q)) = KeysOf(q)
         /\ \A k, v : Carries(q, k, v) => Agrees(Coalesce(q), k, v)
<1> DEFINE P == {i \in 1..Len(q) : \A j \in (i + 1)..Len(q) : q[j].key # q[i].key}
           c == Coalesce(q)
<1>1. /\ c \in Seq(Entries)
      /\ \A n \in 1..Len(c) : \E i \in P : c[n] = q[i]
      /\ \A i \in P : \E n \in 1..Len(c) : c[n] = q[i]
  <2>1. c = Select(q, P) /\ P \in SUBSET (1..Len(q))
    BY DEF Coalesce
  <2> HIDE DEF c, P
  <2> QED BY <2>1, Selected
<1>2. ASSUME NEW k \in KeysOf(q) PROVE k \in KeysOf(c)
  <2>1. PICK i \in P : q[i].key = k
    BY LastEntry
  <2>2. PICK n \in 1..Len(c) : c[n] = q[i]
    BY <1>1
  <2> HIDE DEF c
  <2> QED BY <2>1, <2>2 DEF KeysOf
<1>3. ASSUME NEW k \in KeysOf(c) PROVE k \in KeysOf(q)
  BY <1>1 DEF KeysOf
<1>4. ASSUME NEW k, NEW v, Carries(q, k, v) PROVE Agrees(c, k, v)
  <2> SUFFICES ASSUME NEW n \in 1..Len(c), c[n].key = k PROVE c[n].value = v
    BY DEF Agrees
  <2>1. PICK i \in P : c[n] = q[i]
    BY <1>1
  <2> QED BY <1>4, <2>1 DEF Carries
<1> QED BY <1>1, <1>2, <1>3, <1>4

----------------------------------------------------------------------------
(* Flushes.                                                                *)

LEMMA OutboxStart == OutboxInit => OutboxInv
<1> SUFFICES ASSUME OutboxInit PROVE OutboxInv
  OBVIOUS
<1>1. OutboxTypeOK
  BY OutboxAssumption DEF OutboxInit, OutboxTypeOK, OutboxAssumption
<1>2. FlightOK
  BY DEF OutboxInit, FlightOK
<1>3. ASSUME NEW k \in Keys PROVE KeyOK(k)
  <2>1. SettlesTo(k, FALSE)
    BY EmptyKeys, AgreesCarries
    DEF OutboxInit, SettlesTo, PastBy, Running, Queued, Awaits
  <2>2. DirectOK(k) /\ Carries(paused, k, intent[k])
    BY EmptyKeys, AgreesCarries DEF OutboxInit, DirectOK
  <2> QED BY <2>1, <2>2 DEF KeyOK
<1> QED BY <1>1, <1>2, <1>3 DEF OutboxInv, KeysOK

\* What a step needs to keep: keys that were raced or are gone stay so.
LEMMA EachKey ==
  ASSUME OutboxInv, OutboxTypeOK', FlightOK', raced \subseteq raced', gone \subseteq gone',
         \A k \in Keys \ (raced' \cup gone') : KeyOK(k) => KeyOK(k)'
  PROVE  OutboxInv'
BY DEF OutboxInv, KeysOK

\* A flush takes the last value of each key that is queued.
LEMMA StartFlushKeeps ==
  ASSUME OutboxInv, NEW p \in Flushes, StartFlush(p)
  PROVE  OutboxInv'
<1> USE DEF OutboxInv
<1>1. /\ ~Running(p) /\ flush' = [flush EXCEPT ![p] = Coalesce(queue)]
      /\ UNCHANGED <<server, queue, direct, paused, flight, intent, raced, gone>>
  BY DEF StartFlush, netVars, historyVars
<1>2. queue \in Seq(Entries) /\ flush \in [Flushes -> Seq(Entries)]
  BY DEF OutboxTypeOK
<1>3. /\ flush'[p] = Coalesce(queue) /\ \A q \in Flushes \ {p} : flush'[q] = flush[q]
      /\ flight[p] = "none"
  BY <1>1, <1>2 DEF FlightOK
<1>4. OutboxTypeOK'
  BY <1>1, Coalesced DEF OutboxTypeOK, StartFlush, netVars, historyVars
<1>5. FlightOK'
  BY <1>1, <1>3 DEF FlightOK, Running
<1>6. ASSUME NEW k \in Keys, KeyOK(k) PROVE KeyOK(k)'
  <2>1. PICK v \in BOOLEAN : SettlesTo(k, v)
    BY <1>6 DEF KeyOK
  <2>2. /\ Flushed(p, k)' <=> Queued(k)
        /\ Agrees(flush'[p], k, v)
        /\ \A q \in Flushes \ {p} : Flushed(q, k)' <=> Flushed(q, k)
    BY <1>2, <1>3, <2>1, Coalesced DEF SettlesTo, Flushed, Queued
  <2>3. PastBy(k)' => PastBy(k) \/ ~Queued(k)
    BY <1>3, <2>2 DEF PastBy, Running
  <2>4. SettlesTo(k, v)'
    BY <1>1, <1>3, <2>1, <2>2, <2>3 DEF SettlesTo, Queued, Awaits
  <2>5. DirectOK(k)' /\ Carries(paused', k, intent'[k])
    BY <1>1, <1>6, <2>2 DEF KeyOK, DirectOK, Queued
  <2> QED BY <2>4, <2>5 DEF KeyOK
<1> QED BY <1>1, <1>4, <1>5, <1>6, EachKey

\* A replayed entry has the value that its key settles to anyhow.
LEMMA ReplayKeeps ==
  ASSUME OutboxInv, NEW p \in Flushes, NEW fate \in Fates, Replay(p, fate)
  PROVE  OutboxInv'
<1> USE DEF OutboxInv
<1> DEFINE head == Head(flush[p])
<1>1. /\ Running(p) /\ flight' = [flight EXCEPT ![p] = fate]
      /\ server' = IF fate = "reached" THEN [server EXCEPT ![head.key] = head.value] ELSE server
      /\ UNCHANGED <<queue, direct, paused, flush, intent, raced, gone>>
  BY DEF Replay, Request, historyVars
<1>2. /\ flush[p] \in Seq(Entries) /\ flush[p] # <<>> /\ head \in Entries
      /\ server \in [Keys -> BOOLEAN] /\ flight \in [Flushes -> Fates \cup {"none"}]
  BY <1>1 DEF OutboxTypeOK, Running
<1>3. OutboxTypeOK'
  <2>1. head.key \in Keys /\ head.value \in BOOLEAN
    BY <1>2 DEF Entries
  <2> HIDE DEF head
  <2>2. server' \in [Keys -> BOOLEAN] /\ flight' \in [Flushes -> Fates \cup {"none"}]
    BY <1>1, <1>2, <2>1
  <2> QED BY <1>1, <2>2 DEF OutboxTypeOK, Replay, historyVars
<1>4. FlightOK'
  BY <1>1, <1>2 DEF FlightOK, Running
<1>5. ASSUME NEW k \in Keys, KeyOK(k) PROVE KeyOK(k)'
  <2>1. PICK v \in BOOLEAN : SettlesTo(k, v)
    BY <1>5 DEF KeyOK
  <2>2. head.key = k => head.value = v /\ Flushed(p, k)
    BY <1>2, <2>1, AgreesTail, KeysOfTail DEF SettlesTo, Flushed
  <2>3. /\ server'[k] = IF fate = "reached" /\ head.key = k THEN v ELSE server[k]
        /\ head \in Entries
    BY <1>1, <1>2, <2>2
  <2>4. \A q \in Flushes : flight'[q] = IF q = p THEN fate ELSE flight[q]
    BY <1>1, <1>2
  <2> HIDE DEF head
  <2>5. \A q \in Flushes : flight'[q] = "reached" /\ Head(flush[q]).key = k => server'[k] = v
    BY <2>1, <2>3, <2>4 DEF SettlesTo, head
  <2>6. SettlesTo(k, v)'
    BY <1>1, <2>1, <2>3, <2>5 DEF SettlesTo, Queued, Awaits, PastBy, Running, Flushed
  <2>7. DirectOK(k)'
    BY <1>1, <1>5, <2>2, <2>3 DEF KeyOK, DirectOK, Queued, Flushed
  <2> QED BY <1>1, <1>5, <2>6, <2>7 DEF KeyOK
<1> QED BY <1>1, <1>3, <1>4, <1>5, EachKey

\* An entry that is dealt with has its value at the server, and so have the
\* keys that the empty remainder drops from the queue.
LEMMA EntryDoneKeeps ==
  ASSUME OutboxInv, NEW p \in Flushes, EntryDone(p)
  PROVE  OutboxInv'
<1> USE DEF OutboxInv
<1> DEFINE head == Head(flush[p])
<1>1. /\ flight[p] \in {"reached", "rejected"}
      /\ flush' = [flush EXCEPT ![p] = Tail(@)] /\ flight' = [flight EXCEPT ![p] = "none"]
      /\ queue' = (IF Len(flush[p]) = 1 THEN <<>> ELSE queue)
      /\ gone' = (IF flight[p] = "rejected" THEN gone \cup {head.key} ELSE gone)
      /\ UNCHANGED <<online, server, shown, direct, paused, changes, intent, raced>>
  BY DEF EntryDone, netVars
<1>2. /\ queue \in Seq(Entries) /\ flush \in [Flushes -> Seq(Entries)]
      /\ flight \in [Flushes -> Fates \cup {"none"}] /\ Running(p)
  BY <1>1 DEF OutboxTypeOK, FlightOK
<1>3. /\ flush[p] # <<>> /\ head \in Entries /\ Tail(flush[p]) \in Seq(Entries)
      /\ flush'[p] = Tail(flush[p]) /\ (Len(flush[p]) = 1 => flush'[p] = <<>>)
      /\ \A q \in Flushes \ {p} : flush'[q] = flush[q]
  BY <1>1, <1>2 DEF Running
<1>4. OutboxTypeOK'
  <2>1. /\ flush' \in [Flushes -> Seq(Entries)] /\ queue' \in Seq(Entries)
        /\ flight' \in [Flushes -> Fates \cup {"none"}] /\ gone' \in SUBSET Keys
    BY <1>1, <1>2, <1>3 DEF OutboxTypeOK, Entries
  <2> QED BY <1>1, <2>1 DEF OutboxTypeOK
<1>5. FlightOK'
  BY <1>1, <1>2, <1>3 DEF FlightOK, Running
<1>6. ASSUME NEW k \in Keys \ (raced' \cup gone'), KeyOK(k) PROVE KeyOK(k)'
  <2>1. PICK v \in BOOLEAN : SettlesTo(k, v)
    BY <1>6 DEF KeyOK
  <2>2. head.key = k => server[k] = v
    BY <1>1, <1>6, <2>1 DEF SettlesTo
  <2>3. KeysOf(flush[p]) = {head.key} \cup KeysOf(flush'[p])
    BY <1>2, <1>3, KeysOfTail
  <2>4. Agrees(flush'[p], k, v)
    BY <1>2, <1>3, <2>1, AgreesTail DEF SettlesTo
  <2> HIDE DEF head
  <2>5. /\ Flushed(p, k)' => Flushed(p, k)
        /\ head.key # k => (Flushed(p, k)' <=> Flushed(p, k))
        /\ \A q \in Flushes \ {p} : Flushed(q, k)' <=> Flushed(q, k)
    BY <1>3, <2>3 DEF Flushed
  <2>6. head.key # k => (PastBy(k)' => PastBy(k))
    BY <1>2, <1>3, <2>5 DEF PastBy, Running
  <2>7. Queued(k)' => Queued(k)
    BY <1>1, EmptyKeys DEF Queued
  <2>8. head.key # k => (~Queued(k)' => ~Queued(k) \/ PastBy(k))
    <3>1. Len(flush[p]) = 1 => ~Flushed(p, k)'
      BY <1>3, EmptyKeys DEF Flushed
    <3> QED BY <1>1, <1>2, <2>5, <3>1 DEF Queued, PastBy
  <2>9. Carries(queue', k, v)
    BY <1>1, <2>1, EmptyKeys, AgreesCarries DEF SettlesTo
  <2>10. \A q \in Flushes : flight'[q] = "reached" => q # p /\ flight[q] = "reached"
    BY <1>1, <1>2
  <2>11. SettlesTo(k, v)'
    BY <1>1, <1>3, <2>1, <2>2, <2>4, <2>6, <2>8, <2>9, <2>10 DEF SettlesTo, Awaits
  <2>12. DirectOK(k)'
    BY <1>1, <1>6, <2>5, <2>7 DEF KeyOK, DirectOK
  <2> QED BY <1>1, <1>6, <2>11, <2>12 DEF KeyOK
<1>7. gone \subseteq gone'
  BY <1>1
<1> QED BY <1>1, <1>4, <1>5, <1>6, <1>7, EachKey

\* What a flush writes back are entries that settle to the same; the keys that it
\* drops from the queue it has dealt with.
LEMMA StopReplayKeeps ==
  ASSUME OutboxInv, NEW p \in Flushes, StopReplay(p)
  PROVE  OutboxInv'
<1> USE DEF OutboxInv
<1>1. /\ flight[p] # "none" /\ queue' = flush[p]
      /\ flush' = [flush EXCEPT ![p] = <<>>] /\ flight' = [flight EXCEPT ![p] = "none"]
      /\ UNCHANGED <<server, direct, paused, intent, raced, gone>>
  BY DEF StopReplay, netVars, historyVars
<1>2. /\ flush \in [Flushes -> Seq(Entries)] /\ Running(p)
      /\ flight \in [Flushes -> Fates \cup {"none"}]
  BY <1>1 DEF OutboxTypeOK, FlightOK
<1>3. flush'[p] = <<>> /\ \A q \in Flushes \ {p} : flush'[q] = flush[q]
  BY <1>1, <1>2
<1>4. OutboxTypeOK'
  BY <1>1, <1>2 DEF OutboxTypeOK, StopReplay, netVars, historyVars
<1>5. FlightOK'
  BY <1>1, <1>2, <1>3 DEF FlightOK, Running
<1>6. ASSUME NEW k \in Keys, KeyOK(k) PROVE KeyOK(k)'
  <2>1. PICK v \in BOOLEAN : SettlesTo(k, v)
    BY <1>6 DEF KeyOK
  <2>2. Carries(queue', k, v) /\ (Queued(k)' <=> Flushed(p, k))
    BY <1>1, <2>1, AgreesCarries DEF SettlesTo, Queued, Flushed
  <2>3. \A q \in Flushes : Agrees(flush'[q], k, v) /\ (Flushed(q, k)' => Flushed(q, k))
    BY <1>3, <2>1, EmptyKeys, AgreesCarries DEF SettlesTo, Flushed
  <2>4. PastBy(k)' \/ ~Queued(k)' => PastBy(k)
    BY <1>2, <1>3, <2>2 DEF PastBy, Running, Flushed
  <2>5. \A q \in Flushes : flight'[q] = "reached" => q # p /\ flight[q] = "reached"
    BY <1>1, <1>2
  <2>6. SettlesTo(k, v)'
    BY <1>1, <1>3, <2>1, <2>2, <2>3, <2>4, <2>5 DEF SettlesTo, Awaits
  <2>7. DirectOK(k)'
    BY <1>1, <1>6, <2>2, <2>3 DEF KeyOK, DirectOK
  <2> QED BY <1>1, <1>6, <2>6, <2>7 DEF KeyOK
<1> QED BY <1>1, <1>4, <1>5, <1>6, EachKey

----------------------------------------------------------------------------
(* Changes.                                                                *)

\* A send of one key: unless it races, no entry of the key is in any flush and no
\* other change of it is under way, nor is one queued if it reaches the server.
LEMMA SendKeeps ==
  ASSUME OutboxInv, OutboxTypeOK', NEW n \in 1..MaxChanges, NEW key \in Keys,
         NEW value \in BOOLEAN, NEW fate \in Fates, Send(n, key, value, fate),
         UNCHANGED <<queue, flush, flight, gone>>,
         \A k \in Keys : Carries(paused, k, intent[k]) => Carries(paused', k, intent'[k]),
         \A k \in Keys \ {key} : (k \in KeysOf(paused') <=> k \in KeysOf(paused))
                                   /\ intent'[k] = intent[k],
         Carries(paused, key, intent[key]) /\ key \notin KeysOf(paused') => value = intent'[key]
  PROVE  OutboxInv'
<1> USE DEF OutboxInv
<1> DEFINE new == [n |-> n, key |-> key, value |-> value, fate |-> fate]
<1>1. /\ direct' = direct \cup {new} /\ raced \subseteq raced'
      /\ server' = (IF fate = "reached" THEN [server EXCEPT ![key] = value] ELSE server)
      /\ \/ key \in raced'
         \/ /\ ~(fate = "reached" /\ Queued(key)) /\ \A p \in Flushes : ~Flushed(p, key)
            /\ \A d \in direct : d.key # key
  BY DEF Send, Request, Queued, Flushed
<1>2. new.key = key /\ new.value = value /\ new.fate = fate
  OBVIOUS
<1> HIDE DEF new
<1>3. server \in [Keys -> BOOLEAN] /\ flush \in [Flushes -> Seq(Entries)]
  BY DEF OutboxTypeOK
<1>4. FlightOK'
  BY DEF FlightOK, Running
<1>5. ASSUME NEW k \in Keys \ (raced' \cup gone'), KeyOK(k), k # key PROVE KeyOK(k)'
  <2>1. PICK v \in BOOLEAN : SettlesTo(k, v)
    BY <1>5 DEF KeyOK
  <2>2. server'[k] = server[k] /\ intent'[k] = intent[k]
    BY <1>1, <1>3, <1>5
  <2>3. /\ Awaits(k)' <=> Awaits(k)
        /\ Queued(k)' <=> Queued(k)
        /\ PastBy(k)' <=> PastBy(k)
    BY <1>1, <1>2, <1>5 DEF Awaits, Queued, PastBy, Running, Flushed
  <2>4. SettlesTo(k, v)'
    BY <2>1, <2>2, <2>3 DEF SettlesTo
  <2>5. DirectOK(k)'
    BY <1>1, <1>2, <1>5, <2>2 DEF KeyOK, DirectOK, Queued, Flushed
  <2> QED BY <1>5, <2>4, <2>5 DEF KeyOK
<1>6. ASSUME key \notin raced' \cup gone', KeyOK(key) PROVE KeyOK(key)'
  <2>1. PICK v \in BOOLEAN : SettlesTo(key, v)
    BY <1>6 DEF KeyOK
  <2>2. \A p \in Flushes : ~Flushed(p, key) /\ (flight[p] = "reached" => Head(flush[p]).key # key)
    <3> SUFFICES ASSUME NEW p \in Flushes, flight[p] = "reached"
                 PROVE  Head(flush[p]).key # key
      BY <1>1, <1>6
    <3>1. flush[p] # <<>> /\ flush[p] \in Seq(Entries)
      BY <1>3 DEF FlightOK, Running
    <3>2. Head(flush[p]).key \in KeysOf(flush[p])
      BY <3>1, KeysOfTail
    <3> QED BY <1>1, <1>6, <3>2 DEF Flushed
  <2>3. Awaits(key)'
    BY <1>1, <1>2 DEF Awaits
  <2>4. \E w \in BOOLEAN : SettlesTo(key, w)'
    <3>1. CASE fate = "reached"
      <4>1. ~Queued(key) /\ server'[key] = value
        BY <1>1, <1>3, <1>6, <3>1
      <4>2. SettlesTo(key, value)'
        BY <2>2, <2>3, <4>1, AgreesCarries DEF SettlesTo, Queued, Flushed
      <4> QED BY <4>2
    <3>2. CASE fate # "reached"
      <4>1. server' = server
        BY <1>1, <3>2
      <4>2. SettlesTo(key, v)'
        BY <2>1, <2>3, <4>1 DEF SettlesTo, Queued, PastBy, Running, Flushed
      <4> QED BY <4>2
    <3> QED BY <3>1, <3>2
  <2>5. DirectOK(key)'
    <3>1. fate = "reached" => server'[key] = value
      BY <1>1, <1>3
    <3>2. \A d \in direct' : d.key = key => d = new
      BY <1>1, <1>6
    <3> QED BY <1>1, <1>2, <1>6, <2>2, <3>1, <3>2 DEF KeyOK, DirectOK, Queued, Flushed
  <2> QED BY <1>6, <2>4, <2>5 DEF KeyOK
<1>7. \A k \in Keys \ (raced' \cup gone') : KeyOK(k) => KeyOK(k)'
  BY <1>5, <1>6
<1> QED BY <1>1, <1>4, <1>7, EachKey

LEMMA ChangeKeeps ==
  ASSUME OutboxInv, NEW key \in Keys, NEW fate \in Fates, Change(key, fate)
  PROVE  OutboxInv'
<1> DEFINE value == ~shown[key]
<1>1. /\ paused = <<>> /\ changes' = changes + 1 /\ changes < MaxChanges
      /\ intent' = [intent EXCEPT ![key] = value]
      /\ Send(changes', key, value, fate)
      /\ UNCHANGED <<online, queue, paused, flush, flight, gone>>
  BY DEF Change, flushVars
<1>2. /\ changes' \in 1..MaxChanges /\ changes' \in 0..MaxChanges /\ value \in BOOLEAN
      /\ intent \in [Keys -> BOOLEAN]
  BY <1>1, OutboxAssumption DEF OutboxInv, OutboxTypeOK, OutboxAssumption
<1>3. intent'[key] = value /\ \A k \in Keys \ {key} : intent'[k] = intent[k]
  BY <1>1, <1>2
<1> HIDE DEF value
<1>4. OutboxTypeOK'
  <2>1. /\ server' \in [Keys -> BOOLEAN] /\ shown' \in [Keys -> BOOLEAN]
        /\ intent' \in [Keys -> BOOLEAN] /\ raced' \in SUBSET Keys
    BY <1>1, <1>2 DEF OutboxInv, OutboxTypeOK, Send, Request
  <2>2. direct' \in SUBSET Direct
    BY <1>1, <1>2 DEF OutboxInv, OutboxTypeOK, Send, Direct
  <2> QED BY <1>1, <1>2, <2>1, <2>2 DEF OutboxInv, OutboxTypeOK, Direct
<1>5. \A k \in Keys : Carries(paused', k, intent'[k])
  BY <1>1, EmptyKeys, AgreesCarries
<1> QED BY <1>1, <1>2, <1>3, <1>4, <1>5, SendKeeps

\* Of the paused changes of a key the last one is what the user chose last.
LEMMA ResumeChangeKeeps ==
  ASSUME OutboxInv, NEW fate \in Fates, ResumeChange(fate)
  PROVE  OutboxInv'
<1> DEFINE head == Head(paused)
<1>1. /\ paused # <<>> /\ paused' = Tail(paused)
      /\ Send(head.n, head.key, head.value, fate)
      /\ UNCHANGED <<online, queue, flush, flight, changes, intent, gone>>
  BY DEF ResumeChange, flushVars
<1>2. paused \in Seq(Paused)
  BY DEF OutboxInv, OutboxTypeOK, Paused
<1>3. paused' \in Seq(Paused) /\ head \in Paused
  BY <1>1, <1>2
<1>4. head.n \in 1..MaxChanges /\ head.key \in Keys /\ head.value \in BOOLEAN
  BY <1>3 DEF Paused
<1>5. KeysOf(paused) = {head.key} \cup KeysOf(paused')
  BY <1>1, <1>2, KeysOfTail
<1>6. ASSUME NEW k \in Keys, Carries(paused, k, intent[k])
      PROVE  /\ Carries(paused', k, intent'[k])
             /\ k = head.key /\ k \notin KeysOf(paused') => head.value = intent'[k]
  BY <1>1, <1>2, <1>6, CarriesTail
<1> HIDE DEF head
<1>7. OutboxTypeOK'
  <2>1. /\ server' \in [Keys -> BOOLEAN] /\ shown' \in [Keys -> BOOLEAN]
        /\ raced' \in SUBSET Keys
    BY <1>1, <1>4 DEF OutboxInv, OutboxTypeOK, Send, Request
  <2>2. direct' \in SUBSET Direct
    BY <1>1, <1>4 DEF OutboxInv, OutboxTypeOK, Send, Direct
  <2> QED BY <1>1, <1>3, <2>1, <2>2 DEF OutboxInv, OutboxTypeOK, Direct, Paused
<1>8. \A k \in Keys \ {head.key} : (k \in KeysOf(paused') <=> k \in KeysOf(paused))
                                     /\ intent'[k] = intent[k]
  BY <1>1, <1>5
<1> QED BY <1>1, <1>4, <1>6, <1>7, <1>8, SendKeeps

\* A paused change is the last one of its key.
LEMMA PauseChangeKeeps ==
  ASSUME OutboxInv, NEW key \in Keys, PauseChange(key)
  PROVE  OutboxInv'
<1> USE DEF OutboxInv
<1> DEFINE value == ~shown[key]
           entry == [n |-> changes', key |-> key, value |-> value]
<1>1. /\ changes < MaxChanges /\ changes' = changes + 1
      /\ intent' = [intent EXCEPT ![key] = value] /\ paused' = Append(paused, entry)
      /\ UNCHANGED <<online, server, shown, queue, direct, flush, flight, raced, gone>>
  BY DEF PauseChange, netVars, flushVars
<1>2. /\ paused \in Seq(Paused) /\ intent \in [Keys -> BOOLEAN] /\ value \in BOOLEAN
      /\ changes' \in 1..MaxChanges /\ changes' \in 0..MaxChanges
  BY <1>1, OutboxAssumption DEF OutboxTypeOK, Paused, OutboxAssumption
<1>3. entry \in Paused /\ entry.key = key /\ entry.value = value
  BY <1>2 DEF Paused
<1> HIDE DEF entry, value
<1>4. /\ KeysOf(paused') = KeysOf(paused) \cup {key}
      /\ intent'[key] = value /\ \A k \in Keys \ {key} : intent'[k] = intent[k]
  BY <1>1, <1>2, <1>3, KeysOfAppend
<1>5. OutboxTypeOK'
  <2>1. paused' \in Seq(Paused) /\ intent' \in [Keys -> BOOLEAN]
    BY <1>1, <1>2, <1>3
  <2> QED BY <1>1, <1>2, <2>1 DEF OutboxTypeOK, Paused
<1>6. FlightOK'
  BY <1>1 DEF FlightOK, Running
<1>7. ASSUME NEW k \in Keys, KeyOK(k) PROVE KeyOK(k)'
  <2>1. PICK v \in BOOLEAN : SettlesTo(k, v)
    BY <1>7 DEF KeyOK
  <2>2. Awaits(k) => Awaits(k)'
    BY <1>1, <1>4 DEF Awaits
  <2>3. k = key => Awaits(k)'
    BY <1>4 DEF Awaits
  <2>4. SettlesTo(k, v)'
    BY <1>1, <1>4, <2>1, <2>2, <2>3 DEF SettlesTo, Queued, PastBy, Running, Flushed
  <2>5. DirectOK(k)'
    BY <1>1, <1>4, <1>7 DEF KeyOK, DirectOK, Queued, Flushed
  <2>6. Carries(paused', k, intent'[k])
    BY <1>1, <1>2, <1>3, <1>4, <1>7, CarriesAppend DEF KeyOK
  <2> QED BY <2>4, <2>5, <2>6 DEF KeyOK
<1> QED BY <1>1, <1>5, <1>6, <1>7, EachKey

\* What has reached the server is settled.
LEMMA SendSucceedsKeeps ==
  ASSUME OutboxInv, NEW d \in direct, SendSucceeds(d)
  PROVE  OutboxInv'
<1> USE DEF OutboxInv
<1>1. /\ d.fate = "reached" /\ direct' = direct \ {d}
      /\ UNCHANGED <<server, queue, paused, flush, flight, intent, raced, gone>>
  BY DEF SendSucceeds, netVars, flushVars, historyVars
<1>2. OutboxTypeOK' /\ FlightOK'
  BY <1>1 DEF OutboxTypeOK, FlightOK, Running, SendSucceeds, netVars, flushVars, historyVars
<1>3. ASSUME NEW k \in Keys, KeyOK(k) PROVE KeyOK(k)'
  <2>1. PICK v \in BOOLEAN : SettlesTo(k, v)
    BY <1>3 DEF KeyOK
  <2>2. ~Awaits(k)' => intent[k] = v
    <3>1. CASE d.key = k
      <4>1. k \notin KeysOf(paused) => d.value = intent[k] /\ server[k] = d.value /\ ~Queued(k)
        BY <1>1, <1>3, <3>1 DEF KeyOK, DirectOK
      <4> QED BY <1>1, <2>1, <4>1 DEF SettlesTo, Awaits
    <3>2. CASE d.key # k
      BY <1>1, <2>1, <3>2 DEF SettlesTo, Awaits
    <3> QED BY <3>1, <3>2
  <2>3. SettlesTo(k, v)'
    BY <1>1, <2>1, <2>2 DEF SettlesTo, Queued, PastBy, Running, Flushed
  <2>4. DirectOK(k)'
    BY <1>1, <1>3 DEF KeyOK, DirectOK, Queued, Flushed
  <2> QED BY <1>1, <1>3, <2>3, <2>4 DEF KeyOK
<1> QED BY <1>1, <1>2, <1>3, EachKey

LEMMA SendFailsKeeps ==
  ASSUME OutboxInv, NEW d \in direct, SendFails(d)
  PROVE  OutboxInv'
<1> USE DEF OutboxInv
<1>1. /\ direct' = direct \ {d} /\ gone' = gone \cup {d.key}
      /\ UNCHANGED <<online, server, shown, queue, paused, flush, flight, changes, intent, raced>>
  BY DEF SendFails, netVars, flushVars
<1>2. d.key \in Keys
  BY DEF OutboxTypeOK
<1>3. OutboxTypeOK' /\ FlightOK'
  BY <1>1, <1>2 DEF OutboxTypeOK, FlightOK, Running
<1>4. ASSUME NEW k \in Keys \ {d.key}, KeyOK(k) PROVE KeyOK(k)'
  <2>1. PICK v \in BOOLEAN : SettlesTo(k, v)
    BY <1>4 DEF KeyOK
  <2>2. Awaits(k)' <=> Awaits(k)
    BY <1>1 DEF Awaits
  <2>3. SettlesTo(k, v)'
    BY <1>1, <2>1, <2>2 DEF SettlesTo, Queued, PastBy, Running, Flushed
  <2>4. DirectOK(k)'
    BY <1>1, <1>4 DEF KeyOK, DirectOK, Queued, Flushed
  <2> QED BY <1>1, <1>4, <2>3, <2>4 DEF KeyOK
<1>5. gone \subseteq gone' /\ \A k \in Keys \ (raced' \cup gone') : k # d.key
  BY <1>1
<1> QED BY <1>1, <1>3, <1>4, <1>5, EachKey

\* A change that is queued while no flush is under way goes behind all others.
LEMMA EnqueueKeeps ==
  ASSUME OutboxInv, NEW d \in direct, Enqueue(d)
  PROVE  OutboxInv'
<1> USE DEF OutboxInv
<1> DEFINE entry == [key |-> d.key, value |-> d.value]
<1>1. /\ direct' = direct \ {d} /\ queue' = Append(queue, entry)
      /\ raced \subseteq raced' /\ raced' \subseteq raced \cup {d.key}
      /\ Flushing => d.key \in raced'
      /\ UNCHANGED <<online, server, shown, paused, flush, flight, changes, intent, gone>>
  BY DEF Enqueue, netVars, flushVars, Flushing
<1>2. /\ queue \in Seq(Entries) /\ flush \in [Flushes -> Seq(Entries)]
      /\ d.key \in Keys /\ d.value \in BOOLEAN
  BY DEF OutboxTypeOK
<1>3. entry \in Entries /\ entry.key = d.key /\ entry.value = d.value
  BY <1>2 DEF Entries
<1> HIDE DEF entry
<1>4. OutboxTypeOK' /\ FlightOK'
  <2>1. queue' \in Seq(Entries) /\ raced' \in SUBSET Keys /\ direct' \subseteq direct
    BY <1>1, <1>2, <1>3 DEF OutboxTypeOK
  <2> QED BY <1>1, <2>1 DEF OutboxTypeOK, FlightOK, Running
<1>5. KeysOf(queue') = KeysOf(queue) \cup {d.key}
  BY <1>1, <1>2, <1>3, KeysOfAppend
<1>6. ASSUME NEW k \in Keys, KeyOK(k), k # d.key PROVE KeyOK(k)'
  <2>1. PICK v \in BOOLEAN : SettlesTo(k, v)
    BY <1>6 DEF KeyOK
  <2>2. Carries(queue', k, v)
    BY <1>1, <1>2, <1>3, <1>6, <2>1, CarriesAppend DEF SettlesTo
  <2>3. (Queued(k)' <=> Queued(k)) /\ (Awaits(k)' <=> Awaits(k))
    BY <1>1, <1>5, <1>6 DEF Queued, Awaits
  <2>4. SettlesTo(k, v)'
    BY <1>1, <2>1, <2>2, <2>3 DEF SettlesTo, PastBy, Running, Flushed
  <2>5. DirectOK(k)'
    BY <1>1, <1>6, <2>3 DEF KeyOK, DirectOK, Flushed
  <2> QED BY <1>1, <1>6, <2>4, <2>5 DEF KeyOK
<1>7. ASSUME NEW k \in Keys, KeyOK(k), k = d.key, ~Flushing PROVE KeyOK(k)'
  <2>1. Carries(queue', k, d.value)
    BY <1>1, <1>2, <1>3, <1>7, CarriesAppend
  <2>2. \A e \in direct : e.key = k => e = d
    BY <1>7 DEF KeyOK, DirectOK
  <2>3. k \notin KeysOf(paused) => d.value = intent[k]
    BY <1>7 DEF KeyOK, DirectOK
  <2>4. \A p \in Flushes : flush[p] = <<>> /\ flight[p] # "reached"
    BY <1>7 DEF Flushing, Running, FlightOK
  <2>5. SettlesTo(k, d.value)'
    <3>1. Queued(k)' /\ ~PastBy(k)'
      BY <1>1, <1>5, <1>7, <2>4 DEF Queued, PastBy, Running
    <3>2. \A p \in Flushes : Agrees(flush'[p], k, d.value)
      BY <1>1, <2>4, EmptyKeys, AgreesCarries
    <3> QED BY <1>1, <2>1, <2>3, <2>4, <3>1, <3>2 DEF SettlesTo, Awaits
  <2>6. DirectOK(k)'
    BY <1>1, <2>2 DEF DirectOK
  <2> QED BY <1>1, <1>2, <1>7, <2>5, <2>6 DEF KeyOK
<1>8. \A k \in Keys \ (raced' \cup gone') : KeyOK(k) => KeyOK(k)'
  BY <1>1, <1>6, <1>7
<1> QED BY <1>1, <1>4, <1>8, EachKey

\* What is shown to the user and whether the browser is online settle nothing.
LEMMA ShowKeeps ==
  ASSUME OutboxInv, (\E k \in Keys : Refetch(k)) \/ Connectivity \/ UNCHANGED outboxVars
  PROVE  OutboxInv'
<1> USE DEF OutboxInv
<1>1. UNCHANGED <<server, queue, direct, paused, flush, flight, changes, intent, raced, gone>>
  BY DEF Refetch, Connectivity, outboxVars, netVars, flushVars, historyVars
<1>2. online' \in BOOLEAN /\ shown' \in [Keys -> BOOLEAN]
  BY DEF OutboxTypeOK, Refetch, Connectivity, outboxVars, netVars
<1>3. OutboxTypeOK' /\ FlightOK'
  BY <1>1, <1>2 DEF OutboxTypeOK, FlightOK, Running
<1>4. ASSUME NEW k \in Keys, KeyOK(k) PROVE KeyOK(k)'
  BY <1>1, <1>4 DEF KeyOK, SettlesTo, DirectOK, Queued, PastBy, Running, Flushed, Awaits
<1> QED BY <1>1, <1>3, <1>4, EachKey

\* Of what a closed app loses, only changes that reached the server are not gone.
LEMMA ReopenKeeps ==
  ASSUME OutboxInv, Reopen
  PROVE  OutboxInv'
<1> USE DEF OutboxInv
<1>1. /\ direct' = {} /\ paused' = <<>> /\ shown' = server
      /\ flush' = [p \in Flushes |-> <<>>] /\ flight' = [p \in Flushes |-> "none"]
      /\ gone' = gone \cup KeysOf(paused)
                   \cup {d.key : d \in {e \in direct : e.fate # "reached"}}
      /\ UNCHANGED <<online, server, queue, changes, intent, raced>>
  BY DEF Reopen, netVars
<1>2. KeysOf(paused) \subseteq Keys
  <2>1. paused \in Seq(Paused)
    BY DEF OutboxTypeOK, Paused
  <2>2. \A i \in 1..Len(paused) : paused[i] \in Paused
    BY <2>1
  <2> QED BY <2>2 DEF KeysOf, Paused
<1>3. OutboxTypeOK'
  <2>1. gone' \in SUBSET Keys
    BY <1>1, <1>2 DEF OutboxTypeOK
  <2> QED BY <1>1, <2>1 DEF OutboxTypeOK
<1>4. FlightOK'
  BY <1>1 DEF FlightOK
<1>5. ASSUME NEW k \in Keys \ (raced' \cup gone'), KeyOK(k) PROVE KeyOK(k)'
  <2>1. PICK v \in BOOLEAN : SettlesTo(k, v)
    BY <1>5 DEF KeyOK
  <2>2. k \notin KeysOf(paused) /\ \A d \in direct : d.key = k => d.fate = "reached"
    BY <1>1, <1>5
  <2>3. intent[k] = v
    <3>1. CASE Awaits(k)
      <4>1. PICK d \in direct : d.key = k
        BY <2>2, <3>1 DEF Awaits
      <4> QED BY <1>5, <2>1, <2>2, <4>1 DEF KeyOK, DirectOK, SettlesTo
    <3>2. CASE ~Awaits(k)
      BY <2>1, <3>2 DEF SettlesTo
    <3> QED BY <3>1, <3>2
  <2>4. /\ \A p \in Flushes : Agrees(flush'[p], k, v) /\ flight'[p] # "reached"
        /\ ~PastBy(k)'
    BY <1>1, EmptyKeys, AgreesCarries DEF PastBy, Running
  <2>5. SettlesTo(k, v)'
    BY <1>1, <2>1, <2>3, <2>4 DEF SettlesTo, Queued
  <2>6. DirectOK(k)' /\ Carries(paused', k, intent'[k])
    BY <1>1, EmptyKeys, AgreesCarries DEF DirectOK
  <2> QED BY <2>5, <2>6 DEF KeyOK
<1>6. raced \subseteq raced' /\ gone \subseteq gone'
  BY <1>1
<1> QED BY <1>3, <1>4, <1>5, <1>6, EachKey

\* Through any interleaving of changes, flushes, lost answers and closed apps,
\* what lies in the queue and the flushes settles to what the user chose last.
THEOREM OutboxInductive == OutboxSpec => []OutboxInv
<1>1. OutboxInv /\ [OutboxNext]_outboxVars => OutboxInv'
  <2> SUFFICES ASSUME OutboxInv, [OutboxNext]_outboxVars PROVE OutboxInv'
    OBVIOUS
  <2>1. CASE \E p \in Flushes : FlushStep(p)
    BY <2>1, StartFlushKeeps, ReplayKeeps, EntryDoneKeeps, StopReplayKeeps DEF FlushStep
  <2>2. CASE \E k \in Keys, fate \in Fates : Change(k, fate)
    BY <2>2, ChangeKeeps
  <2>3. CASE \E k \in Keys : PauseChange(k)
    BY <2>3, PauseChangeKeeps
  <2>4. CASE \E fate \in Fates : ResumeChange(fate)
    BY <2>4, ResumeChangeKeeps
  <2>5. CASE \E d \in direct : SendSucceeds(d) \/ SendFails(d) \/ Enqueue(d)
    BY <2>5, SendSucceedsKeeps, SendFailsKeeps, EnqueueKeeps
  <2>6. CASE (\E k \in Keys : Refetch(k)) \/ Connectivity \/ UNCHANGED outboxVars
    BY <2>6, ShowKeeps
  <2>7. CASE Reopen
    BY <2>7, ReopenKeeps
  <2> QED BY <2>1, <2>2, <2>3, <2>4, <2>5, <2>6, <2>7 DEF OutboxNext
<1> QED BY OutboxStart, <1>1, PTL DEF OutboxSpec

\* The queue, the requests and the flushes hold changes of keys (outbox.ts).
THEOREM OutboxTyped == OutboxSpec => []OutboxTypeOK
<1>1. OutboxInv => OutboxTypeOK
  BY DEF OutboxInv
<1> QED BY OutboxInductive, <1>1, PTL

\* A key that nothing is pending for has at the server what the user chose last,
\* for any number of keys, changes and overlapping flushes (sync.ts, outbox.ts).
THEOREM Settled == OutboxSpec => []SettledWithoutRace
<1>1. OutboxInv => SettledWithoutRace
  <2> SUFFICES ASSUME OutboxInv, NEW k \in Keys \ (raced \cup gone), k \notin Pending
               PROVE  server[k] = intent[k]
    BY DEF SettledWithoutRace
  <2>1. PICK v \in BOOLEAN : SettlesTo(k, v)
    BY DEF OutboxInv, KeysOK, KeyOK
  <2>2. ~Queued(k) /\ ~Awaits(k)
    BY DEF Pending, Queued, Awaits
  <2> QED BY <2>1, <2>2 DEF SettlesTo
<1> QED BY OutboxInductive, <1>1, PTL
=============================================================================
