------------------------------- MODULE Items --------------------------------
(***************************************************************************)
(* The shared items of a feed and what users do with them: polls that      *)
(* store them (ingest/store.rs), the retention purge (maintenance.rs),     *)
(* read and star flags, and the paged list (routes/items.rs).              *)
(*                                                                         *)
(* Times are days.  A document dates its entries, not always with the same *)
(* date, or leaves them undated; an undated entry gets the time of each    *)
(* fetch.  An item that is purged and stored again is a new row: `stored'  *)
(* numbers the rows of an item, and what is under way for an old row fails *)
(* on its foreign key.  All users subscribe to the feed.  A transaction    *)
(* that reads and then writes fails when another write was committed in    *)
(* between (SQLITE_BUSY_SNAPSHOT), and is not tried again.                 *)
(***************************************************************************)
EXTENDS Integers, FiniteSets

CONSTANTS
  Users,
  Reader,       \* the user who pages through the list
  Items,
  Documents,    \* what the feed publishes at some time, as sets of items
  Dates,        \* the days with which documents date each, {} if undated
  Limits,       \* values of the settings, 0 for no limit
  FirstLimits,  \* settings at the start: cutoff, age and number
  PageSize,
  Requests,     \* requests to set a flag that may be served together
  Marked,       \* bound: items whose flags are ever set
  MaxDay,       \* bound: the clock
  MaxRows,      \* bound: polls that store something
  MaxRequests   \* bound: flags and settings changed, and walks

ASSUME ReaderAssumption == Reader \in Users
ASSUME NumbersAssumption ==
  PageSize \in Nat \ {0} /\ Limits \subseteq Nat /\ 0 \in Limits
  /\ FirstLimits \subseteq Limits \X Limits \X Limits
ASSUME ItemsAssumption == IsFiniteSet(Items)
ASSUME DocumentsAssumption == Documents \subseteq SUBSET Items
ASSUME DatesAssumption == Dates \in [Items -> SUBSET Int]
ASSUME MarkedAssumption == Marked \subseteq Items
ASSUME BoundsAssumption == {MaxDay, MaxRows, MaxRequests} \subseteq Nat

VARIABLES
  day,
  stored,     \* stored[i]: 0, or the number of the row of i
  rows,       \* polls that stored something, which numbers the rows they made
  published,  \* published_at of the last row of each item
  flags,      \* item_states, by user and item
  settings,   \* max_item_age_days and the two limits of the retention
  poll,       \* locals of the poll
  purge,      \* locals of the retention purge
  req,        \* locals of each request
  walk,       \* the pages that the reader has asked for
  acked,      \* last value answered for a flag, while no request may change it
  purgedAt,   \* limit of age under which an item was purged, or 0
  served      \* what MaxRequests bounds

content == <<stored, rows, published, flags>>
history == <<acked, purgedAt, served>>
vars == <<day, content, settings, poll, purge, req, walk, history>>

Stored == {i \in Items : stored[i] > 0}
Columns == {"read", "star"}
None == [read |-> FALSE, star |-> FALSE]
Flags(u, i) == IF <<u, i>> \in DOMAIN flags THEN flags[<<u, i>>] ELSE None

With(f, x, y) == [z \in DOMAIN f \cup {x} |-> IF z = x THEN y ELSE f[z]]
Without(f, S) == [z \in DOMAIN f \ S |-> f[z]]

IdlePoll == [at |-> "idle", items |-> <<>>, cut |-> 0, new |-> <<>>, stale |-> FALSE]
IdlePurge == [at |-> "idle", age |-> 0, cap |-> 0]
IdleRequest == [at |-> "idle", key |-> <<Reader, CHOOSE i \in Items : TRUE>>, row |-> 0,
                column |-> "read", value |-> FALSE, seen |-> None]
IdleWalk == [at |-> "idle", status |-> "all", page |-> 0, pages |-> 0, unseen |-> {}]

----------------------------------------------------------------------------
(* The list of the reader.                                                 *)

\* push_scope with the facet of status.
Scope(status) ==
  {i \in Stored : status = "unread" => ~Flags(Reader, i).read}

\* The first n rows in ORDER BY published_at DESC.  There is no second key:
\* of items with one date, any may come first, in each query anew.
First(S, n) ==
  {P \in SUBSET S : /\ Cardinality(P) = (IF n < Cardinality(S) THEN n ELSE Cardinality(S))
                    /\ \A i \in P, j \in S \ P : published[i] >= published[j]}

\* Items whose place in the list their date alone decides.
Alone(S) == {i \in S : \A j \in S \ {i} : published[j] # published[i]}

TotalPages(n) == (n + PageSize - 1) \div PageSize

\* LIMIT and OFFSET
IsPage(P, S, n) ==
  \E skipped \in First(S, (n - 1) * PageSize) :
    skipped \cap P = {} /\ skipped \cup P \in First(S, n * PageSize)

\* list_items is two statements: the count, and the rows of the page.
Walk(status) ==
  /\ walk.at = "idle"
  /\ served < MaxRequests /\ served' = served + 1
  /\ walk' = [IdleWalk EXCEPT !.at = "count", !.status = status, !.page = 1,
                              !.unseen = Alone(Scope(status))]
  /\ UNCHANGED <<day, content, settings, poll, purge, req, acked, purgedAt>>

\* Fault: the number of pages is taken from the first answer.
WalkCountOnce ==
  /\ walk.at = "count"
  /\ walk' = [walk EXCEPT !.at = "rows",
       !.pages = IF walk.page = 1 THEN TotalPages(Cardinality(Scope(walk.status))) ELSE @]
  /\ UNCHANGED <<day, content, settings, poll, purge, req, history>>

WalkCount ==
  /\ walk.at = "count"
  /\ walk' = [walk EXCEPT !.at = "rows", !.pages = TotalPages(Cardinality(Scope(walk.status)))]
  /\ UNCHANGED <<day, content, settings, poll, purge, req, history>>

WalkRows ==
  /\ walk.at = "rows"
  /\ \E P \in SUBSET Scope(walk.status) :
       /\ IsPage(P, Scope(walk.status), walk.page)
       /\ walk' = IF walk.page < walk.pages
                  THEN [walk EXCEPT !.at = "count", !.page = @ + 1, !.unseen = @ \ P]
                  ELSE [IdleWalk EXCEPT !.at = "end", !.unseen = walk.unseen \ P]
  /\ UNCHANGED <<day, content, settings, poll, purge, req, history>>

\* What a write does to a walk.  Nothing is promised any more once an item
\* left the list, or one entered it between the two statements of a page.
Watch == \E status \in {walk.status} :
  LET steady == IF walk.at = "rows" THEN Scope(status) = Scope(status)'
                ELSE Scope(status) \subseteq Scope(status)' IN
  walk' = IF walk.at \in {"count", "rows"}
          THEN [walk EXCEPT !.unseen = IF steady THEN @ \cap Alone(Scope(status))' ELSE {}]
          ELSE walk

----------------------------------------------------------------------------
(* Polls.                                                                  *)

\* Another write makes the snapshot of an open transaction stale.
Commit == poll' = [poll EXCEPT !.stale = @ \/ poll.at = "write"]

\* published, else updated, else the time of the fetch
EntryDates(i) == IF Dates[i] = {} THEN {day} ELSE Dates[i]

PollFetch(S) ==
  /\ poll.at = "idle"
  /\ \E dates \in [S -> UNION {EntryDates(i) : i \in S}] :
       /\ \A i \in S : dates[i] \in EntryDates(i)
       /\ poll' = [IdlePoll EXCEPT !.at = "read", !.items = dates, !.cut = settings.cut]
  /\ UNCHANGED <<day, content, settings, purge, req, walk, history>>

\* Fault: the cutoff is not looked at.
AnyAge(cut, date) == TRUE
YoungEnough(cut, date) == cut > 0 => date >= day - cut

\* insert_items: the SELECTs of the transaction.
PollRead ==
  LET old == {i \in DOMAIN poll.items : ~YoungEnough(poll.cut, poll.items[i])} IN
  /\ poll.at = "read"
  /\ poll' = [poll EXCEPT !.at = "write", !.items = <<>>,
                          !.new = Without(poll.items, Stored \cup old)]
  /\ UNCHANGED <<day, content, settings, purge, req, walk, history>>

\* insert_items: the INSERTs and the commit.  A row keeps its published_at.
PollWrite ==
  LET new == IF poll.stale THEN {} ELSE DOMAIN poll.new IN
  /\ poll.at = "write"
  /\ new # {} => rows < MaxRows
  /\ rows' = IF new # {} THEN rows + 1 ELSE rows
  /\ stored' = [i \in Items |-> IF i \in new THEN rows' ELSE stored[i]]
  /\ published' = [i \in Items |-> IF i \in new THEN poll.new[i] ELSE published[i]]
  /\ purgedAt' = [i \in Items |-> IF i \in new THEN 0 ELSE purgedAt[i]]
  /\ poll' = IdlePoll
  /\ UNCHANGED <<day, flags, settings, purge, req, acked, served>>
  /\ Watch

----------------------------------------------------------------------------
(* Retention.                                                              *)

\* put_ingestion: set_app for one key after the other.
SetApp(key, value) ==
  /\ served < MaxRequests /\ served' = served + 1
  /\ settings' = [settings EXCEPT ![key] = value]
  /\ Commit
  /\ UNCHANGED <<day, content, purge, req, walk, acked, purgedAt>>

\* RetentionPolicy::load reads one setting after the other.
PurgeBegin ==
  /\ purge.at = "idle"
  /\ purge' = [IdlePurge EXCEPT !.at = "load", !.age = settings.age]
  /\ UNCHANGED <<day, content, settings, poll, req, walk, history>>

PurgeLoad ==
  /\ purge.at = "load"
  /\ purge' = [purge EXCEPT !.at = "age", !.cap = settings.cap]
  /\ UNCHANGED <<day, content, settings, poll, req, walk, history>>

\* KEEP_STARRED
Starred(i) == \E u \in Users : Flags(u, i).star

\* Fault: ON DELETE CASCADE is missing.
KeptStates(S) == flags

\* What the cascade to item_states leaves.
LeftStates(S) == Without(flags, Users \X S)

\* DELETE FROM items
Delete(S) ==
  /\ stored' = [i \in Items |-> IF i \in S THEN 0 ELSE stored[i]]
  /\ flags' = LeftStates(S)
  /\ acked' = Without(acked, {k \in Users \X S \X Columns : ~(k[3] = "star" /\ acked[k])})
  /\ UNCHANGED <<rows, published>>
  /\ Commit /\ Watch

PurgeAge ==
  LET old == {i \in Stored : published[i] < day - purge.age /\ ~Starred(i)} IN
  /\ purge.at = "age"
  /\ purge' = [purge EXCEPT !.at = "cap"]
  /\ Delete(IF purge.age > 0 THEN old ELSE {})
  /\ purgedAt' = [i \in Items |-> IF purge.age > 0 /\ i \in old THEN purge.age ELSE purgedAt[i]]
  /\ UNCHANGED <<day, settings, req, served>>

\* ROW_NUMBER() orders items of one date by id, which is not modelled.
PurgeCap ==
  /\ purge.at = "cap"
  /\ purge' = IdlePurge
  /\ \E newest \in First(Stored, purge.cap) :
       LET over == {i \in Stored \ newest : ~Starred(i)}
       IN  Delete(IF purge.cap > 0 THEN over ELSE {})
  /\ UNCHANGED <<day, settings, req, purgedAt, served>>

----------------------------------------------------------------------------
(* Flags.                                                                  *)

Touches(r, key, column) ==
  req[r].at # "idle" /\ req[r].key = key /\ req[r].column = column

\* owned_item, and from now on the last answer for this flag is open.
FlagBegin(r, key, column, value) ==
  /\ req[r].at = "idle" /\ key[2] \in Stored
  /\ served < MaxRequests /\ served' = served + 1
  /\ req' = [req EXCEPT ![r] = [IdleRequest EXCEPT !.at = "state", !.key = key,
               !.row = stored[key[2]], !.column = column, !.value = value]]
  /\ acked' = Without(acked, {<<key[1], key[2], column>>})
  /\ UNCHANGED <<day, content, settings, poll, purge, walk, purgedAt>>

\* current_state; a value that is not given is the opposite of what is read.
FlagRead(r) ==
  /\ req[r].at = "state"
  /\ req' = [req EXCEPT ![r].at = "write",
               ![r].seen = Flags(req[r].key[1], req[r].key[2])]
  /\ UNCHANGED <<day, content, settings, poll, purge, walk, history>>

\* Fault: ON CONFLICT writes both columns.
WriteRow(r) == [req[r].seen EXCEPT ![req[r].column] = req[r].value]

\* ON CONFLICT writes the column of the request, an INSERT both of them.
Upserted(r) ==
  IF req[r].key \in DOMAIN flags
  THEN [flags[req[r].key] EXCEPT ![req[r].column] = req[r].value]
  ELSE [req[r].seen EXCEPT ![req[r].column] = req[r].value]

FlagWrite(r) ==
  LET key == req[r].key  column == req[r].column
      ok == stored[key[2]] = req[r].row
      contested == \E q \in Requests \ {r} : Touches(q, key, column)
  IN  /\ req[r].at = "write"
      /\ flags' = IF ok THEN With(flags, key, Upserted(r)) ELSE flags
      /\ acked' = IF ok /\ ~contested
                  THEN With(acked, <<key[1], key[2], column>>, req[r].value) ELSE acked
      /\ req' = [req EXCEPT ![r] = IdleRequest]
      /\ UNCHANGED <<day, stored, rows, published, settings, purge, purgedAt, served>>
      /\ Commit /\ Watch

----------------------------------------------------------------------------
(* The world, and the specification.                                       *)

NextDay ==
  /\ day < MaxDay
  /\ day' = day + 1
  /\ UNCHANGED <<content, settings, poll, purge, req, walk, history>>

\* A statement fails, or the server restarts.
Crash ==
  /\ poll' = IdlePoll /\ purge' = IdlePurge
  /\ req' = [r \in Requests |-> IdleRequest]
  /\ UNCHANGED <<day, content, settings, walk, history>>

Init ==
  /\ day = 0
  /\ stored = [i \in Items |-> 0] /\ rows = 0 /\ flags = <<>>
  /\ published = [i \in Items |-> 0]
  /\ \E l \in FirstLimits : settings = [cut |-> l[1], age |-> l[2], cap |-> l[3]]
  /\ poll = IdlePoll /\ purge = IdlePurge /\ walk = IdleWalk
  /\ req = [r \in Requests |-> IdleRequest]
  /\ acked = <<>> /\ purgedAt = [i \in Items |-> 0] /\ served = 0

Next ==
  \/ \E status \in {"all", "unread"} : Walk(status)
  \/ WalkCount \/ WalkRows
  \/ \E S \in Documents : PollFetch(S)
  \/ PollRead \/ PollWrite
  \/ \E key \in {"cut", "age", "cap"}, value \in Limits : SetApp(key, value)
  \/ PurgeBegin \/ PurgeLoad \/ PurgeAge \/ PurgeCap
  \/ \E r \in Requests :
       \/ \E key \in Users \X Marked, column \in Columns, value \in BOOLEAN :
            FlagBegin(r, key, column, value)
       \/ FlagRead(r) \/ FlagWrite(r)
  \/ NextDay \/ Crash

Spec == Init /\ [][Next]_vars

----------------------------------------------------------------------------
(* Properties.                                                             *)

\* Every variable has its type; flags are those of rows that are stored.
TypeOK ==
  /\ day \in 0..MaxDay
  /\ rows \in 0..MaxRows /\ stored \in [Items -> 0..rows]
  /\ published \in [Items -> Int]
  /\ DOMAIN flags \subseteq Users \X Stored
  /\ \A k \in DOMAIN flags : flags[k] \in [read : BOOLEAN, star : BOOLEAN]
  /\ settings \in [cut : Limits, age : Limits, cap : Limits]
  /\ purge \in [at : {"idle", "load", "age", "cap"}, age : Limits, cap : Limits]
  /\ DOMAIN acked \subseteq Users \X Items \X Columns
  /\ served \in 0..MaxRequests

\* What the server answered about a flag stays so until the user asks to
\* change that flag again: requests for the other flag, of other users, polls
\* and purges that overlap do not undo it, and a starred item is kept.
AnswersStand ==
  \A k \in DOMAIN acked : Flags(k[1], k[2])[k[3]] = acked[k]

\* An item that was purged for its age comes back, as new and unread, only
\* when the cutoff of the polls is off or longer than that of the purge, or
\* when its entry has a later date now.  An undated entry has one at every
\* fetch (parse.rs:92): the cutoff never keeps it out.
NoFlapping ==
  [][\A i \in Items : stored[i] = 0 /\ stored'[i] > 0 /\ purgedAt[i] > 0 =>
       \/ poll.cut = 0 \/ poll.cut > purgedAt[i]
       \/ published'[i] > published[i]]_vars

\* Who pages through the list to its end has been shown every item that was in it
\* all the while, though polls insert items at any place meanwhile, provided
\* nothing left the list, no write fell between the count and the page, and
\* the item never shared its date with another of the list (sort_clause has
\* no second key, so the order of such items may change from page to page).
WalkMissesNothing ==
  walk.at = "end" => walk.unseen = {}
=============================================================================
