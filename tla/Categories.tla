----------------------------- MODULE Categories -----------------------------
(***************************************************************************)
(* Categories and the subscriptions they hold (routes/categories.rs),      *)
(* subscribing (routes/feeds.rs), OPML import and export (routes/opml.rs,  *)
(* opml.rs) and the starter feeds (routes/settings.rs), with requests of   *)
(* the same user and of different users overlapping statement by           *)
(* statement.                                                              *)
(*                                                                         *)
(* A feed is its URL: rows of feeds are shared and never deleted.  A name  *)
(* of a category is one of a few strings, and Fold tells which of them     *)
(* COLLATE NOCASE takes for equal.  Left out: positions, titles, and the   *)
(* other columns of a subscription.  Everybody has the category Other.     *)
(***************************************************************************)
EXTENDS Naturals, FiniteSets

CONSTANTS
  Users,
  Names,          \* names of categories, "Other" among them
  Fold(_),        \* a name as COLLATE NOCASE compares it
  Urls,           \* feed URLs as normalized
  Source(_),      \* what a URL is without its scheme
  Starter,        \* STARTER_FEEDS: entries of the onboarding
  Requests,       \* requests that may be served together
  MaxCategories,  \* bound: rows ever created in categories
  MaxRequests     \* bound: requests served

OtherName == "Other"  \* OTHER_CATEGORY

ASSUME NamesAssumption == OtherName \in Names
ASSUME UsersAssumption == IsFiniteSet(Users) /\ Cardinality(Users) \in 1..MaxCategories
ASSUME StarterAssumption ==
  /\ Starter \subseteq [url : Urls, name : Names, was : Names]
  /\ \A e \in Starter : Fold(e.name) = Fold(OtherName) => e.name = OtherName
ASSUME BoundsAssumption == MaxCategories \in Nat /\ MaxRequests \in Nat

VARIABLES
  categories,     \* rows of categories by id
  made,           \* rows ever created in categories
  feeds,          \* URLs of the rows of feeds
  subscriptions,  \* category of each subscription, by user and URL
  file,           \* entries of the last OPML export
  req,            \* locals of each request
  served          \* requests served

tables == <<categories, made, feeds, subscriptions>>
vars == <<tables, file, req, served>>

Ids == 1..MaxCategories

\* `todo' are the entries that `loop', an import or the onboarding, has not
\* begun, of `all'.
Idle == [at |-> "idle", user |-> CHOOSE u \in Users : TRUE, cat |-> 0, name |-> OtherName,
         url |-> CHOOSE u \in Urls : TRUE, todo |-> {}, all |-> {},
         loop |-> "none", alone |-> FALSE]

With(f, x, y) == [z \in DOMAIN f \cup {x} |-> IF z = x THEN y ELSE f[z]]
Without(f, S) == [z \in DOMAIN f \ S |-> f[z]]

At(r, at) == req[r].at = at
Done(r) == req' = [req EXCEPT ![r] = Idle]
GoOn(r, at) == req' = [req EXCEPT ![r].at = at]

Owned(u) == {c \in DOMAIN categories : categories[c].user = u}
Exactly(u, name) == {c \in Owned(u) : categories[c].name = name}
Like(u, name) == {c \in Owned(u) : Fold(categories[c].name) = Fold(name)}  \* NOCASE

Variants(url) == {v \in Urls : Source(v) = Source(url)}  \* scheme_variants

\* existing_subscription
Subscribed(u, url) == \E v \in Variants(url) : <<u, v>> \in DOMAIN subscriptions

\* What a user has subscribed to: rows of the query of export.
Entries(u) ==
  {[url |-> k[2], name |-> categories[subscriptions[k]].name] :
     k \in {x \in DOMAIN subscriptions : x[1] = u}}

\* Another request of the same user is being served.
Busy(u) == \E r \in Requests : ~At(r, "idle") /\ req[r].user = u

\* A request begins; `alone' tells that its user had no subscription then,
\* and has made no other request meanwhile.
Begin(r, u, at, all) ==
  /\ At(r, "idle") /\ served < MaxRequests
  /\ served' = served + 1
  /\ req' = [q \in Requests |->
               IF q = r THEN [Idle EXCEPT !.at = at, !.user = u, !.todo = all, !.all = all,
                                          !.loop = IF all = {} THEN "none" ELSE at,
                                          !.alone = ~Busy(u) /\ Entries(u) = {}]
               ELSE [req[q] EXCEPT !.alone = @ /\ req[q].user # u]]
  /\ UNCHANGED <<tables, file>>

----------------------------------------------------------------------------
(* Categories.                                                             *)

\* INSERT INTO categories, for `then' to use; UNIQUE(user_id, name) compares
\* exactly, and the request fails when it is violated.
Insert(r, u, name, then) ==
  IF Exactly(u, name) = {}
  THEN /\ made < MaxCategories
       /\ made' = made + 1
       /\ categories' = With(categories, made + 1, [user |-> u, name |-> name])
       /\ req' = [req EXCEPT ![r] = IF then = "idle" THEN Idle
                                    ELSE [@ EXCEPT !.at = then, !.cat = made + 1]]
  ELSE UNCHANGED <<categories, made>> /\ Done(r)

\* create_category
CreateCheck(r, name) ==
  /\ At(r, "create")
  /\ IF Like(req[r].user, name) # {} THEN Done(r)
     ELSE req' = [req EXCEPT ![r].at = "insert", ![r].name = name]
  /\ UNCHANGED <<tables, file, served>>

CreateInsert(r) ==
  /\ At(r, "insert")
  /\ Insert(r, req[r].user, req[r].name, "idle")
  /\ UNCHANGED <<feeds, subscriptions, file, served>>

\* update_category: the name of the row, then the clash, then the UPDATE.
\* Fault: the catch-all is an ordinary category.
IsAnyName(name) == FALSE
IsOther(name) == name = OtherName

RenameRead(r, c, name) ==
  /\ At(r, "rename")
  /\ IF c \in Owned(req[r].user) /\ (IsOther(categories[c].name) => name = OtherName)
     THEN req' = [req EXCEPT ![r].at = "clash", ![r].cat = c, ![r].name = name]
     ELSE Done(r)
  /\ UNCHANGED <<tables, file, served>>

RenameClash(r) ==
  /\ At(r, "clash")
  /\ IF Like(req[r].user, req[r].name) \subseteq {req[r].cat} THEN GoOn(r, "renameWrite") ELSE Done(r)
  /\ UNCHANGED <<tables, file, served>>

RenameWrite(r) ==
  LET c == req[r].cat  name == req[r].name IN
  /\ At(r, "renameWrite")
  /\ categories' = IF c \in DOMAIN categories /\ Exactly(req[r].user, name) \subseteq {c}
                   THEN [categories EXCEPT ![c].name = name] ELSE categories
  /\ Done(r)
  /\ UNCHANGED <<made, feeds, subscriptions, file, served>>

\* delete_category: the name and the id of Other are read before the
\* transaction, whose first UPDATE takes the write lock.
DeleteRead(r, c) ==
  /\ At(r, "delete")
  /\ IF c \in Owned(req[r].user) /\ ~IsOther(categories[c].name)
     THEN req' = [req EXCEPT ![r].at = "reassign", ![r].cat = c]
     ELSE Done(r)
  /\ UNCHANGED <<tables, file, served>>

\* Fault: the subscriptions go with their category.
Cascade(r, c) ==
  subscriptions' = Without(subscriptions, {k \in DOMAIN subscriptions : subscriptions[k] = c})

Reassign(r, c) ==
  \E other \in Exactly(req[r].user, OtherName) :
    subscriptions' = [k \in DOMAIN subscriptions |->
                        IF k[1] = req[r].user /\ subscriptions[k] = c THEN other
                        ELSE subscriptions[k]]

DeleteCategory(r) ==
  /\ At(r, "reassign")
  /\ Reassign(r, req[r].cat)
  /\ categories' = Without(categories, {req[r].cat})
  /\ Done(r)
  /\ UNCHANGED <<made, feeds, file, served>>

----------------------------------------------------------------------------
(* Feeds.                                                                  *)

\* require_category, of subscribe and of update_feed.
SubscribeCategory(r, c, url) ==
  /\ At(r, "subscribe")
  /\ IF c \in Owned(req[r].user)
     THEN req' = [req EXCEPT ![r].at = "existing", ![r].cat = c, ![r].url = url]
     ELSE Done(r)
  /\ UNCHANGED <<tables, file, served>>

\* subscribe ends, subscribe_url leaves its caller's loop at the next entry.
Treated(r) == IF req[r].loop = "none" THEN Done(r) ELSE GoOn(r, req[r].loop)

\* existing_subscription: subscribe answers 409, subscribe_url skips.
Existing(r) ==
  /\ At(r, "existing")
  /\ IF Subscribed(req[r].user, req[r].url) THEN Treated(r) ELSE GoOn(r, "feed")
  /\ UNCHANGED <<tables, file, served>>

\* upsert_feed: a row of either variant is taken.
FindFeed(r) ==
  /\ At(r, "feed")
  /\ \/ \E v \in Variants(req[r].url) \cap feeds :
          req' = [req EXCEPT ![r].at = "add", ![r].url = v]
     \/ Variants(req[r].url) \cap feeds = {} /\ GoOn(r, "newFeed")
  /\ UNCHANGED <<tables, file, served>>

\* UNIQUE(feed_url): the request that comes second fails.
InsertFeed(r) ==
  /\ At(r, "newFeed")
  /\ IF req[r].url \in feeds THEN Done(r) ELSE GoOn(r, "add")
  /\ feeds' = feeds \cup {req[r].url}
  /\ UNCHANGED <<categories, made, subscriptions, file, served>>

\* UNIQUE(user_id, feed_id), and the foreign key on the category.
\* Fault: the category that was checked before is taken to be there still.
WasThere(c) == TRUE
IsThere(c) == c \in DOMAIN categories

AddSubscription(r) ==
  LET key == <<req[r].user, req[r].url>> IN
  /\ At(r, "add")
  /\ IF key \notin DOMAIN subscriptions /\ IsThere(req[r].cat)
     THEN subscriptions' = With(subscriptions, key, req[r].cat) /\ Treated(r)
     ELSE subscriptions' = subscriptions /\ Done(r)
  /\ UNCHANGED <<categories, made, feeds, file, served>>

\* update_feed with a category.
MoveCheck(r, c, url) ==
  /\ At(r, "move")
  /\ IF <<req[r].user, url>> \in DOMAIN subscriptions /\ c \in Owned(req[r].user)
     THEN req' = [req EXCEPT ![r].at = "moveWrite", ![r].cat = c, ![r].url = url]
     ELSE Done(r)
  /\ UNCHANGED <<tables, file, served>>

MoveWrite(r) ==
  LET key == <<req[r].user, req[r].url>> IN
  /\ At(r, "moveWrite")
  /\ subscriptions' = IF key \in DOMAIN subscriptions /\ IsThere(req[r].cat)
                      THEN [subscriptions EXCEPT ![key] = req[r].cat] ELSE subscriptions
  /\ Done(r)
  /\ UNCHANGED <<categories, made, feeds, file, served>>

Unsubscribe(r, url) ==
  /\ At(r, "unsubscribe")
  /\ subscriptions' = Without(subscriptions, {<<req[r].user, url>>})
  /\ Done(r)
  /\ UNCHANGED <<categories, made, feeds, file, served>>

----------------------------------------------------------------------------
(* OPML.                                                                   *)

\* Fault: the folders of the outlines are not written.
FlatOutlines(u) == {[url |-> e.url, name |-> OtherName, was |-> e.name] : e \in Entries(u)}

\* build, and what parse makes of it when the file is imported; `was' is the
\* category that the exporter had the feed in.
Outlines(u) == {[url |-> e.url, name |-> e.name, was |-> e.name] : e \in Entries(u)}

Export(u) ==
  /\ file' = Outlines(u)
  /\ UNCHANGED <<tables, req, served>>

\* import, and resolve_or_create_category for its next entry.
ImportEntry(r, e) ==
  LET like == Like(req[r].user, e.name)
      next == [req[r] EXCEPT !.todo = @ \ {e}, !.url = e.url, !.name = e.name]
  IN  /\ At(r, "entry")
      /\ \/ \E c \in like :
              req' = [req EXCEPT ![r] = [next EXCEPT !.at = "existing", !.cat = c]]
         \/ like = {} /\ req' = [req EXCEPT ![r] = [next EXCEPT !.at = "resolve"]]
      /\ UNCHANGED <<tables, file, served>>

ResolveInsert(r) ==
  /\ At(r, "resolve")
  /\ Insert(r, req[r].user, req[r].name, "existing")
  /\ UNCHANGED <<feeds, subscriptions, file, served>>

ImportEnds(r) ==
  /\ At(r, "entry") /\ req[r].todo = {}
  /\ GoOn(r, "imported")
  /\ UNCHANGED <<tables, file, served>>

\* subscribe_starter_feeds: INSERT OR IGNORE of the category of an entry ...
StarterEntry(r, e) ==
  LET u == req[r].user IN
  /\ At(r, "starter")
  /\ IF Exactly(u, e.name) # {} THEN UNCHANGED <<categories, made>>
     ELSE /\ made < MaxCategories /\ made' = made + 1
          /\ categories' = With(categories, made + 1, [user |-> u, name |-> e.name])
  /\ req' = [req EXCEPT ![r].at = "starterId", ![r].todo = @ \ {e},
                        ![r].url = e.url, ![r].name = e.name]
  /\ UNCHANGED <<feeds, subscriptions, file, served>>

\* ... and its id, which another request may have renamed or deleted.
StarterId(r) ==
  LET found == Exactly(req[r].user, req[r].name) IN
  /\ At(r, "starterId")
  /\ \/ found = {} /\ Done(r)
     \/ \E c \in found : req' = [req EXCEPT ![r].at = "existing", ![r].cat = c]
  /\ UNCHANGED <<tables, file, served>>

----------------------------------------------------------------------------
(* The specification.                                                      *)

\* A statement fails, the server restarts, or the answer is sent.
Stop(r) ==
  /\ ~At(r, "idle")
  /\ Done(r)
  /\ UNCHANGED <<tables, file, served>>

UserSeq == CHOOSE f \in [Users -> 1..Cardinality(Users)] :
             \A u, v \in Users : f[u] = f[v] => u = v

Init ==
  /\ categories = [c \in 1..Cardinality(Users) |->
                     [user |-> CHOOSE u \in Users : UserSeq[u] = c, name |-> OtherName]]
  /\ made = Cardinality(Users)
  /\ feeds = {} /\ subscriptions = <<>> /\ file = {}
  /\ req = [r \in Requests |-> Idle]
  /\ served = 0

Handlers == {"create", "rename", "delete", "subscribe", "move", "unsubscribe"}

Next ==
  \/ \E u \in Users : Export(u)
  \/ \E r \in Requests :
       \/ \E u \in Users, at \in Handlers : Begin(r, u, at, {})
       \/ \E u \in Users : file # {} /\ Begin(r, u, "entry", file)
       \/ \E u \in Users : Begin(r, u, "starter", Starter)
       \/ \E name \in Names : CreateCheck(r, name)
       \/ CreateInsert(r)
       \/ \E c \in Ids, name \in Names : RenameRead(r, c, name)
       \/ RenameClash(r) \/ RenameWrite(r)
       \/ \E c \in Ids : DeleteRead(r, c)
       \/ DeleteCategory(r)
       \/ \E c \in Ids, url \in Urls : SubscribeCategory(r, c, url) \/ MoveCheck(r, c, url)
       \/ Existing(r) \/ FindFeed(r) \/ InsertFeed(r) \/ AddSubscription(r)
       \/ MoveWrite(r)
       \/ \E url \in Urls : Unsubscribe(r, url)
       \/ \E e \in req[r].todo : ImportEntry(r, e) \/ StarterEntry(r, e)
       \/ StarterId(r)
       \/ ResolveInsert(r) \/ ImportEnds(r)
       \/ Stop(r)

Spec == Init /\ [][Next]_vars

----------------------------------------------------------------------------
(* Properties.                                                             *)

\* Every variable has its type, and the foreign keys hold: a subscription is
\* in a category of its user, on a feed.
TypeOK ==
  /\ DOMAIN categories \subseteq Ids
  /\ categories \in [DOMAIN categories -> [user : Users, name : Names]]
  /\ made \in Ids
  /\ feeds \subseteq Urls
  /\ DOMAIN subscriptions \subseteq Users \X feeds
  /\ \A k \in DOMAIN subscriptions : subscriptions[k] \in Owned(k[1])
  /\ file \subseteq [url : Urls, name : Names, was : Names]
  /\ served \in 0..MaxRequests

\* Whatever requests overlap, a user has one category Other, and none that is
\* like it but for the case, so that a deletion finds where to put the feeds.
OneOther ==
  \A u \in Users : \E c \in Exactly(u, OtherName) : Like(u, OtherName) = {c}

\* Only its owner's request to unsubscribe removes a subscription; deleting
\* its category while feeds are moved or added leaves it, in another one.
OnlyUnsubscribeRemoves ==
  [][\A k \in DOMAIN subscriptions \ DOMAIN subscriptions' :
       \E r \in Requests : At(r, "unsubscribe") /\ req[r].user = k[1]]_vars

\* "Round-trip must be lossless": an import that ran to its end into an
\* account without subscriptions has every feed of the exporter, in a category
\* named as the exporter's but for the case, whatever other users did meanwhile.
Lossless ==
  \A r \in Requests : At(r, "imported") /\ req[r].alone =>
    \A e \in req[r].all : \E f \in Entries(req[r].user), g \in req[r].all :
      /\ Source(e.url) = Source(f.url) /\ Source(e.url) = Source(g.url)
      /\ Fold(g.was) = Fold(f.name)
=============================================================================
