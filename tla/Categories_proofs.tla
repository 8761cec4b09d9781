-------------------------- MODULE Categories_proofs --------------------------
(***************************************************************************)
(* What Categories promises for any number of users, requests, categories  *)
(* and feeds.                                                              *)
(*                                                                         *)
(* A handler looks at the tables in one statement and writes in a later    *)
(* one.  KnowsOK says what it still knows by then: its category, if it is  *)
(* there, belongs to its user and is the catch-all or not, as it was read. *)
(* That is enough because the catch-all of a user never changes.  An       *)
(* import is followed entry by entry in ImportOK, while nobody else works  *)
(* on the account.                                                         *)
(***************************************************************************)
EXTENDS Categories, FiniteSetTheorems, TLAPS

Lines == [url : Urls, name : Names, was : Names]

Adding == {"existing", "feed", "newFeed", "add"}
Held == Adding \cup {"clash", "renameWrite", "reassign", "moveWrite"}

CatchAll(cats, c) == c \in DOMAIN cats /\ cats[c].name = OtherName

\* The locals of a request, whatever the tables hold by now.
ArgsOK(q) ==
  /\ DOMAIN q = {"at", "user", "cat", "name", "url", "todo", "all", "loop", "alone"}
  /\ q.at # "idle" => q.user \in Users
  /\ q.todo \subseteq Lines /\ q.loop \in {"none", "entry", "starter"}
  /\ q.loop = "starter" \/ q.at = "starter" => q.todo \subseteq Starter
  /\ q.at \in {"insert", "resolve"} => q.name \in Names /\ Fold(q.name) # Fold(OtherName)
  /\ q.at \in Adding \cup {"moveWrite", "resolve", "starterId"} => q.url \in Urls

\* What it knows of the tables: cats are the categories, of n ever made, and
\* known the feeds.
KnowsOK(q, cats, n, known) ==
  /\ q.at = "add" => q.url \in known
  /\ q.at \in Held =>
       q.cat \in 1..n /\ (q.cat \in DOMAIN cats => cats[q.cat].user = q.user)
  /\ q.at \in {"clash", "renameWrite"} =>
       q.name \in Names /\ (CatchAll(cats, q.cat) => q.name = OtherName)
  /\ q.at = "renameWrite" /\ Fold(q.name) = Fold(OtherName) => CatchAll(cats, q.cat)
  /\ q.at = "reassign" => ~CatchAll(cats, q.cat)

LocalOK(q, cats, n, known) == ArgsOK(q) /\ KnowsOK(q, cats, n, known)

LocalsOK ==
  /\ DOMAIN req = Requests
  /\ \A r \in Requests : LocalOK(req[r], categories, made, feeds)

TablesOK == TypeOK /\ OneOther /\ DOMAIN categories \subseteq 1..made

IInv == TablesOK /\ LocalsOK

\* Of an import by q into an account that holds `entries': what is there came
\* from the file, and what was treated is there, or being added.
ImportOK(q, entries, cats) ==
  /\ q.todo \subseteq q.all /\ \A e \in q.all : e.was = e.name
  /\ \A f \in entries : \E g \in q.all :
       Source(g.url) = Source(f.url) /\ Fold(g.was) = Fold(f.name)
  /\ \A e \in q.all \ q.todo :
       \/ \E f \in entries : Source(f.url) = Source(e.url)
       \/ q.at \in Adding \cup {"resolve"} /\ Source(q.url) = Source(e.url)
  /\ q.at \in Adding \cup {"resolve"} =>
       \E e \in q.all : Source(e.url) = Source(q.url) /\ e.name = q.name
  /\ q.at \in Adding => q.cat \in DOMAIN cats /\ Fold(cats[q.cat].name) = Fold(q.name)
  /\ q.at = "imported" => q.todo = {}

ImportStages == Adding \cup {"entry", "resolve", "imported"}
ImportsAlone(q) == q.loop = "entry" /\ q.alone
LoopOK(q) ==
  /\ q.loop = "entry" => q.at \in ImportStages
  /\ q.at \in {"entry", "imported"} => q.loop = "entry"

ImportsOK ==
  /\ \A e \in file : e.was = e.name
  /\ \A r \in Requests : LoopOK(req[r])
  /\ \A r \in Requests : ImportsAlone(req[r]) =>
       /\ ImportOK(req[r], Entries(req[r].user), categories)
       /\ \A s \in Requests \ {r} : At(s, "idle") \/ req[s].user # req[r].user

USE BoundsAssumption, UsersAssumption, NamesAssumption

----------------------------------------------------------------------------
(* Steps that change no table.                                             *)

\* What a step may do to the tables while others have looked at them.
TablesStep ==
  /\ made \in Nat /\ made' \in Nat /\ made <= made' /\ feeds \subseteq feeds'
  /\ \A c \in 1..made :
       /\ CatchAll(categories', c) <=> CatchAll(categories, c)
       /\ c \in DOMAIN categories' =>
            c \in DOMAIN categories /\ categories'[c].user = categories[c].user

\* What a request knows stays so.
LEMMA KnowsStays ==
  ASSUME TablesStep, NEW q, KnowsOK(q, categories, made, feeds)
  PROVE  KnowsOK(q, categories', made', feeds')
<1>1. q.at \in Held => q.cat \in 1..made /\ q.cat \in 1..made'
  BY DEF TablesStep, KnowsOK
<1>2. q.at \in {"clash", "renameWrite", "reassign"} =>
        (CatchAll(categories', q.cat) <=> CatchAll(categories, q.cat))
  BY <1>1 DEF TablesStep, Held
<1> QED BY <1>1, <1>2 DEF TablesStep, KnowsOK

LEMMA StepKeeps ==
  ASSUME LocalsOK, TablesStep, NEW r \in Requests, NEW q, req' = [req EXCEPT ![r] = q],
         LocalOK(q, categories', made', feeds')
  PROVE  LocalsOK'
<1>1. \A s \in Requests : req'[s] = IF s = r THEN q ELSE req[s]
  BY DEF LocalsOK
<1>2. \A s \in Requests : LocalOK(req'[s], categories', made', feeds')
  BY <1>1, KnowsStays DEF LocalsOK, LocalOK
<1> QED BY <1>2 DEF LocalsOK

LEMMA IdleOK == \A cats, n, known : LocalOK(Idle, cats, n, known)
BY DEF LocalOK, ArgsOK, KnowsOK, Idle, Adding, Held

LEMMA DoneKeeps ==
  ASSUME LocalsOK, TablesStep, NEW r \in Requests, Done(r)
  PROVE  LocalsOK'
BY StepKeeps, IdleOK DEF Done

LEMMA StaysStep ==
  ASSUME IInv, UNCHANGED <<categories, made, feeds>>
  PROVE  TablesStep
BY DEF TablesStep, IInv, TablesOK, TypeOK, Ids

LEMMA TablesStay ==
  ASSUME TablesOK, UNCHANGED tables, file' \subseteq Lines, served' \in 0..MaxRequests
  PROVE  TablesOK'
BY DEF TablesOK, TypeOK, OneOther, Exactly, Like, Owned, tables, Lines

\* A step that only moves a request on.
LEMMA ReadKeeps ==
  ASSUME IInv, NEW r \in Requests, NEW q, req' = [req EXCEPT ![r] = q],
         LocalOK(q, categories, made, feeds), UNCHANGED <<tables, file, served>>
  PROVE  IInv'
<1>1. TablesStep
  BY StaysStep DEF tables
<1>2. LocalsOK'
  BY <1>1, StepKeeps DEF IInv, tables
<1>3. TablesOK'
  BY TablesStay DEF IInv, TablesOK, TypeOK, Lines
<1> QED BY <1>2, <1>3 DEF IInv

LEMMA DoneReading ==
  ASSUME IInv, NEW r \in Requests, Done(r), UNCHANGED <<tables, file, served>>
  PROVE  IInv'
BY ReadKeeps, IdleOK DEF Done

\* What looks like the catch-all of a user is his catch-all.
LEMMA OtherIsOne ==
  ASSUME TablesOK, NEW u \in Users
  PROVE  \E c \in Owned(u) : /\ CatchAll(categories, c)
                             /\ \A d \in Owned(u) :
                                  Fold(categories[d].name) = Fold(OtherName) => d = c
BY DEF TablesOK, OneOther, Exactly, Like, Owned, CatchAll

LEMMA CreateCheckKeeps ==
  ASSUME IInv, NEW r \in Requests, NEW name \in Names, CreateCheck(r, name)
  PROVE  IInv'
<1>1. CASE Like(req[r].user, name) # {}
  BY <1>1, DoneReading DEF CreateCheck
<1>2. CASE Like(req[r].user, name) = {}
  <2> DEFINE q == [req[r] EXCEPT !.at = "insert", !.name = name]
  <2>1. LocalOK(req[r], categories, made, feeds) /\ req[r].at = "create"
    BY DEF CreateCheck, At, IInv, LocalsOK
  <2>2. req[r].user \in Users
    BY <2>1 DEF LocalOK, ArgsOK
  <2>3. Fold(name) # Fold(OtherName)
    BY <1>2, <2>2, OtherIsOne DEF Like, CatchAll, IInv
  <2>4. req' = [req EXCEPT ![r] = q]
    BY <1>2 DEF CreateCheck, IInv, LocalsOK
  <2>5. LocalOK(q, categories, made, feeds)
    BY <2>1, <2>3 DEF LocalOK, ArgsOK, KnowsOK, Adding, Held
  <2> QED BY <2>4, <2>5, ReadKeeps DEF CreateCheck
<1> QED BY <1>1, <1>2

LEMMA RenameReadKeeps ==
  ASSUME IInv, NEW r \in Requests, NEW c \in Ids, NEW name \in Names, RenameRead(r, c, name)
  PROVE  IInv'
<1> DEFINE q == [req[r] EXCEPT !.at = "clash", !.cat = c, !.name = name]
<1>1. LocalOK(req[r], categories, made, feeds) /\ req[r].at = "rename"
  BY DEF RenameRead, At, IInv, LocalsOK
<1>2. CASE c \in Owned(req[r].user) /\ (IsOther(categories[c].name) => name = OtherName)
  <2>1. c \in DOMAIN categories /\ c \in 1..made /\ categories[c].user = req[r].user
    BY <1>2 DEF Owned, IInv, TablesOK
  <2>2. CatchAll(categories, c) => name = OtherName
    BY <1>2 DEF CatchAll, IsOther
  <2>3. req' = [req EXCEPT ![r] = q]
    BY <1>2 DEF RenameRead, IInv, LocalsOK
  <2>4. LocalOK(q, categories, made, feeds)
    BY <1>1, <2>1, <2>2 DEF LocalOK, ArgsOK, KnowsOK, Adding, Held
  <2> QED BY <2>3, <2>4, ReadKeeps DEF RenameRead
<1>3. CASE ~(c \in Owned(req[r].user) /\ (IsOther(categories[c].name) => name = OtherName))
  BY <1>3, DoneReading DEF RenameRead
<1> QED BY <1>2, <1>3

LEMMA RenameClashKeeps ==
  ASSUME IInv, NEW r \in Requests, RenameClash(r)
  PROVE  IInv'
<1> DEFINE q == [req[r] EXCEPT !.at = "renameWrite"]
<1>1. LocalOK(req[r], categories, made, feeds) /\ req[r].at = "clash"
  BY DEF RenameClash, At, IInv, LocalsOK
<1>2. CASE Like(req[r].user, req[r].name) \subseteq {req[r].cat}
  <2>1. req[r].user \in Users
    BY <1>1 DEF LocalOK, ArgsOK
  <2>2. Fold(req[r].name) = Fold(OtherName) => CatchAll(categories, req[r].cat)
    BY <1>2, <2>1, OtherIsOne DEF Like, CatchAll, IInv
  <2>3. req' = [req EXCEPT ![r] = q]
    BY <1>2 DEF RenameClash, GoOn, IInv, LocalsOK
  <2>4. LocalOK(q, categories, made, feeds)
    BY <1>1, <2>2 DEF LocalOK, ArgsOK, KnowsOK, Adding, Held
  <2> QED BY <2>3, <2>4, ReadKeeps DEF RenameClash
<1>3. CASE ~(Like(req[r].user, req[r].name) \subseteq {req[r].cat})
  BY <1>3, DoneReading DEF RenameClash
<1> QED BY <1>2, <1>3

LEMMA DeleteReadKeeps ==
  ASSUME IInv, NEW r \in Requests, NEW c \in Ids, DeleteRead(r, c)
  PROVE  IInv'
<1> DEFINE q == [req[r] EXCEPT !.at = "reassign", !.cat = c]
<1>1. LocalOK(req[r], categories, made, feeds) /\ req[r].at = "delete"
  BY DEF DeleteRead, At, IInv, LocalsOK
<1>2. CASE c \in Owned(req[r].user) /\ ~IsOther(categories[c].name)
  <2>1. /\ c \in 1..made /\ categories[c].user = req[r].user
        /\ ~CatchAll(categories, c)
    BY <1>2 DEF Owned, IInv, TablesOK, CatchAll, IsOther
  <2>2. req' = [req EXCEPT ![r] = q]
    BY <1>2 DEF DeleteRead, IInv, LocalsOK
  <2>3. LocalOK(q, categories, made, feeds)
    BY <1>1, <2>1 DEF LocalOK, ArgsOK, KnowsOK, Adding, Held
  <2> QED BY <2>2, <2>3, ReadKeeps DEF DeleteRead
<1>3. CASE ~(c \in Owned(req[r].user) /\ ~IsOther(categories[c].name))
  BY <1>3, DoneReading DEF DeleteRead
<1> QED BY <1>2, <1>3

LEMMA SubscribeCategoryKeeps ==
  ASSUME IInv, NEW r \in Requests, NEW c \in Ids, NEW url \in Urls, SubscribeCategory(r, c, url)
  PROVE  IInv'
<1> DEFINE q == [req[r] EXCEPT !.at = "existing", !.cat = c, !.url = url]
<1>1. LocalOK(req[r], categories, made, feeds) /\ req[r].at = "subscribe"
  BY DEF SubscribeCategory, At, IInv, LocalsOK
<1>2. CASE c \in Owned(req[r].user)
  <2>1. c \in 1..made /\ categories[c].user = req[r].user
    BY <1>2 DEF Owned, IInv, TablesOK
  <2>2. req' = [req EXCEPT ![r] = q]
    BY <1>2 DEF SubscribeCategory, IInv, LocalsOK
  <2>3. LocalOK(q, categories, made, feeds)
    BY <1>1, <2>1 DEF LocalOK, ArgsOK, KnowsOK, Adding, Held
  <2> QED BY <2>2, <2>3, ReadKeeps DEF SubscribeCategory
<1>3. CASE c \notin Owned(req[r].user)
  BY <1>3, DoneReading DEF SubscribeCategory
<1> QED BY <1>2, <1>3

LEMMA MoveCheckKeeps ==
  ASSUME IInv, NEW r \in Requests, NEW c \in Ids, NEW url \in Urls, MoveCheck(r, c, url)
  PROVE  IInv'
<1> DEFINE q == [req[r] EXCEPT !.at = "moveWrite", !.cat = c, !.url = url]
<1>1. LocalOK(req[r], categories, made, feeds) /\ req[r].at = "move"
  BY DEF MoveCheck, At, IInv, LocalsOK
<1>2. CASE <<req[r].user, url>> \in DOMAIN subscriptions /\ c \in Owned(req[r].user)
  <2>1. c \in 1..made /\ categories[c].user = req[r].user
    BY <1>2 DEF Owned, IInv, TablesOK
  <2>2. req' = [req EXCEPT ![r] = q]
    BY <1>2 DEF MoveCheck, IInv, LocalsOK
  <2>3. LocalOK(q, categories, made, feeds)
    BY <1>1, <2>1 DEF LocalOK, ArgsOK, KnowsOK, Adding, Held
  <2> QED BY <2>2, <2>3, ReadKeeps DEF MoveCheck
<1>3. CASE ~(<<req[r].user, url>> \in DOMAIN subscriptions /\ c \in Owned(req[r].user))
  BY <1>3, DoneReading DEF MoveCheck
<1> QED BY <1>2, <1>3

\* An entry of a loop, or the whole request, has been treated.
LEMMA TreatedKeeps ==
  ASSUME LocalsOK, TablesStep, NEW r \in Requests, ~At(r, "idle"), Treated(r)
  PROVE  LocalsOK'
<1> DEFINE q == [req[r] EXCEPT !.at = req[r].loop]
<1>1. CASE req[r].loop = "none"
  BY <1>1, DoneKeeps DEF Treated
<1>2. CASE req[r].loop # "none"
  <2>1. LocalOK(req[r], categories, made, feeds)
    BY DEF LocalsOK
  <2>2. LocalOK(req[r], categories', made', feeds')
    BY <2>1, KnowsStays DEF LocalOK
  <2>3. req' = [req EXCEPT ![r] = q]
    BY <1>2 DEF Treated, GoOn, LocalsOK
  <2>4. req[r].loop \in {"entry", "starter"} /\ req[r].user \in Users
    BY <1>2, <2>1 DEF LocalOK, ArgsOK, At
  <2>5. LocalOK(q, categories', made', feeds')
    BY <1>2, <2>2, <2>4 DEF LocalOK, ArgsOK, KnowsOK, Adding, Held
  <2> QED BY <2>3, <2>5, StepKeeps
<1> QED BY <1>1, <1>2

LEMMA ExistingKeeps ==
  ASSUME IInv, NEW r \in Requests, Existing(r)
  PROVE  IInv'
<1> DEFINE q == [req[r] EXCEPT !.at = "feed"]
<1>1. LocalOK(req[r], categories, made, feeds) /\ req[r].at = "existing"
  BY DEF Existing, At, IInv, LocalsOK
<1>2. CASE Subscribed(req[r].user, req[r].url)
  <2>1. LocalsOK'
    BY <1>1, <1>2, TreatedKeeps, StaysStep DEF Existing, At, IInv, tables
  <2>2. TablesOK'
    BY TablesStay DEF Existing, IInv, TablesOK, TypeOK, Lines
  <2> QED BY <2>1, <2>2 DEF IInv
<1>3. CASE ~Subscribed(req[r].user, req[r].url)
  <2>1. req' = [req EXCEPT ![r] = q]
    BY <1>3 DEF Existing, GoOn, IInv, LocalsOK
  <2>2. LocalOK(q, categories, made, feeds)
    BY <1>1 DEF LocalOK, ArgsOK, KnowsOK, Adding, Held
  <2> QED BY <2>1, <2>2, ReadKeeps DEF Existing
<1> QED BY <1>2, <1>3

LEMMA FindFeedKeeps ==
  ASSUME IInv, NEW r \in Requests, FindFeed(r)
  PROVE  IInv'
<1>1. LocalOK(req[r], categories, made, feeds) /\ req[r].at = "feed"
  BY DEF FindFeed, At, IInv, LocalsOK
<1>2. ASSUME NEW v \in Variants(req[r].url) \cap feeds,
             req' = [req EXCEPT ![r].at = "add", ![r].url = v]
      PROVE  IInv'
  <2> DEFINE q == [req[r] EXCEPT !.at = "add", !.url = v]
  <2>1. v \in feeds /\ v \in Urls
    BY DEF Variants
  <2>2. req' = [req EXCEPT ![r] = q]
    BY <1>2 DEF IInv, LocalsOK
  <2>3. LocalOK(q, categories, made, feeds)
    BY <1>1, <2>1 DEF LocalOK, ArgsOK, KnowsOK, Adding, Held
  <2> QED BY <2>2, <2>3, ReadKeeps DEF FindFeed
<1>3. CASE GoOn(r, "newFeed")
  <2> DEFINE q == [req[r] EXCEPT !.at = "newFeed"]
  <2>1. req' = [req EXCEPT ![r] = q]
    BY <1>3 DEF GoOn, IInv, LocalsOK
  <2>2. LocalOK(q, categories, made, feeds)
    BY <1>1 DEF LocalOK, ArgsOK, KnowsOK, Adding, Held
  <2> QED BY <2>1, <2>2, ReadKeeps DEF FindFeed
<1> QED BY <1>2, <1>3 DEF FindFeed

LEMMA ImportEntryKeeps ==
  ASSUME IInv, NEW r \in Requests, NEW e \in req[r].todo, ImportEntry(r, e)
  PROVE  IInv'
<1>1. LocalOK(req[r], categories, made, feeds) /\ req[r].at = "entry"
  BY DEF ImportEntry, At, IInv, LocalsOK
<1>2. e \in Lines /\ req[r].user \in Users
  BY <1>1 DEF LocalOK, ArgsOK
<1>3. e.url \in Urls /\ e.name \in Names
  BY <1>2 DEF Lines
<1> DEFINE next == [req[r] EXCEPT !.todo = @ \ {e}, !.url = e.url, !.name = e.name]
<1>4. ASSUME NEW c \in Like(req[r].user, e.name),
             req' = [req EXCEPT ![r] = [next EXCEPT !.at = "existing", !.cat = c]]
      PROVE  IInv'
  <2>1. c \in 1..made /\ categories[c].user = req[r].user
    BY DEF Like, Owned, IInv, TablesOK
  <2>2. LocalOK([next EXCEPT !.at = "existing", !.cat = c], categories, made, feeds)
    BY <1>1, <1>3, <2>1 DEF LocalOK, ArgsOK, KnowsOK, Adding, Held
  <2> QED BY <1>4, <2>2, ReadKeeps DEF ImportEntry
<1>5. ASSUME Like(req[r].user, e.name) = {},
             req' = [req EXCEPT ![r] = [next EXCEPT !.at = "resolve"]]
      PROVE  IInv'
  <2>1. Fold(e.name) # Fold(OtherName)
    BY <1>2, <1>5, OtherIsOne DEF Like, CatchAll, IInv
  <2>2. LocalOK([next EXCEPT !.at = "resolve"], categories, made, feeds)
    BY <1>1, <1>3, <2>1 DEF LocalOK, ArgsOK, KnowsOK, Adding, Held
  <2> QED BY <1>5, <2>2, ReadKeeps DEF ImportEntry
<1> QED BY <1>4, <1>5 DEF ImportEntry

LEMMA ImportEndsKeeps ==
  ASSUME IInv, NEW r \in Requests, ImportEnds(r)
  PROVE  IInv'
<1> DEFINE q == [req[r] EXCEPT !.at = "imported"]
<1>1. LocalOK(req[r], categories, made, feeds) /\ req[r].at = "entry"
  BY DEF ImportEnds, At, IInv, LocalsOK
<1>2. req' = [req EXCEPT ![r] = q]
  BY DEF ImportEnds, GoOn, IInv, LocalsOK
<1>3. LocalOK(q, categories, made, feeds)
  BY <1>1 DEF LocalOK, ArgsOK, KnowsOK, Adding, Held
<1> QED BY <1>2, <1>3, ReadKeeps DEF ImportEnds

LEMMA StarterIdKeeps ==
  ASSUME IInv, NEW r \in Requests, StarterId(r)
  PROVE  IInv'
<1>1. LocalOK(req[r], categories, made, feeds) /\ req[r].at = "starterId"
  BY DEF StarterId, At, IInv, LocalsOK
<1>2. ASSUME NEW c \in Exactly(req[r].user, req[r].name),
             req' = [req EXCEPT ![r].at = "existing", ![r].cat = c]
      PROVE  IInv'
  <2> DEFINE q == [req[r] EXCEPT !.at = "existing", !.cat = c]
  <2>1. c \in 1..made /\ categories[c].user = req[r].user
    BY DEF Exactly, Owned, IInv, TablesOK
  <2>2. req' = [req EXCEPT ![r] = q]
    BY <1>2 DEF IInv, LocalsOK
  <2>3. LocalOK(q, categories, made, feeds)
    BY <1>1, <2>1 DEF LocalOK, ArgsOK, KnowsOK, Adding, Held
  <2> QED BY <2>2, <2>3, ReadKeeps DEF StarterId
<1>3. CASE Done(r)
  BY <1>3, DoneReading DEF StarterId
<1> QED BY <1>2, <1>3 DEF StarterId

\* A request begins: the others only learn that they are not alone.
LEMMA AloneOrNot ==
  ASSUME NEW q, NEW cats, NEW n, NEW known, LocalOK(q, cats, n, known), NEW b
  PROVE  LocalOK([q EXCEPT !.alone = b], cats, n, known)
BY DEF LocalOK, ArgsOK, KnowsOK

LEMMA BeginKeeps ==
  ASSUME IInv, NEW r \in Requests, NEW u \in Users, NEW at, NEW all \in SUBSET Lines,
         at \in Handlers \cup {"entry", "starter"}, at = "starter" => all \subseteq Starter,
         all # {} => at \in {"entry", "starter"}, Begin(r, u, at, all)
  PROVE  IInv'
<1> DEFINE b == ~Busy(u) /\ Entries(u) = {}
           loop == IF all = {} THEN "none" ELSE at
           new == [Idle EXCEPT !.at = at, !.user = u, !.todo = all, !.all = all,
                               !.loop = loop, !.alone = b]
<1>1. /\ served' = served + 1 /\ served < MaxRequests /\ UNCHANGED <<tables, file>>
      /\ DOMAIN req' = Requests /\ req'[r] = new
      /\ \A q \in Requests \ {r} :
           req'[q] = [req[q] EXCEPT !.alone = req[q].alone /\ req[q].user # u]
  BY DEF Begin
<1>2. LocalOK(new, categories, made, feeds)
  <2>1. loop \in {"none", "entry", "starter"} /\ (loop = "starter" => all \subseteq Starter)
    OBVIOUS
  <2> HIDE DEF b, loop
  <2>2. /\ DOMAIN new = {"at", "user", "cat", "name", "url", "todo", "all", "loop", "alone"}
        /\ new.at = at /\ new.user = u /\ new.todo = all /\ new.loop = loop
    BY DEF Idle
  <2> QED BY <2>1, <2>2 DEF Handlers, LocalOK, ArgsOK, KnowsOK, Adding, Held
<1> HIDE DEF new
<1>3. LocalsOK'
  <2>1. \A q \in Requests \ {r} : LocalOK(req'[q], categories, made, feeds)
    BY <1>1, AloneOrNot DEF IInv, LocalsOK
  <2> QED BY <1>1, <1>2, <2>1 DEF LocalsOK, tables
<1>4. TablesOK'
  BY <1>1, TablesStay DEF IInv, TablesOK, TypeOK, Lines
<1> QED BY <1>3, <1>4 DEF IInv

LEMMA ExportKeeps ==
  ASSUME IInv, NEW u \in Users, Export(u)
  PROVE  IInv'
<1>1. ASSUME NEW e \in Entries(u)
      PROVE  e.url \in Urls /\ e.name \in Names
  <2>1. PICK k \in DOMAIN subscriptions :
          e = [url |-> k[2], name |-> categories[subscriptions[k]].name]
    BY DEF Entries
  <2>2. k[2] \in Urls /\ subscriptions[k] \in DOMAIN categories
    BY DEF IInv, TablesOK, TypeOK, Owned
  <2>3. categories[subscriptions[k]].name \in Names
    BY <2>2 DEF IInv, TablesOK, TypeOK
  <2> QED BY <2>1, <2>2, <2>3
<1>2. file' \subseteq Lines
  BY <1>1 DEF Export, Outlines, Lines
<1>3. LocalsOK'
  BY DEF Export, IInv, LocalsOK, tables
<1> QED BY <1>2, <1>3, TablesStay DEF Export, IInv, TablesOK, TypeOK

----------------------------------------------------------------------------
(* Steps that change a table.                                              *)

\* Categories may come, change their name or go, as long as those that
\* subscriptions are in stay, and the catch-alls.
LEMMA CategoriesChange ==
  ASSUME TablesOK, made' \in Ids, made <= made',
         DOMAIN categories' \subseteq 1..made',
         categories' \in [DOMAIN categories' -> [user : Users, name : Names]],
         \A c \in DOMAIN categories' : c <= made =>
           c \in DOMAIN categories /\ categories'[c].user = categories[c].user,
         \A c \in DOMAIN categories' :
           IF CatchAll(categories, c) THEN categories'[c] = categories[c]
           ELSE Fold(categories'[c].name) # Fold(OtherName),
         \A c \in DOMAIN categories : CatchAll(categories, c) => c \in DOMAIN categories'
  PROVE  OneOther' /\ (UNCHANGED feeds => TablesStep)
<1>1. OneOther'
  <2> SUFFICES ASSUME NEW u \in Users
               PROVE  \E c \in Exactly(u, OtherName)' : Like(u, OtherName)' = {c}
    BY DEF OneOther
  <2>1. PICK c \in Owned(u) :
          /\ CatchAll(categories, c)
          /\ \A d \in Owned(u) : Fold(categories[d].name) = Fold(OtherName) => d = c
    BY OtherIsOne
  <2>2. c \in Owned(u)' /\ CatchAll(categories', c)
    BY <2>1 DEF Owned, CatchAll
  <2>3. ASSUME NEW d \in Owned(u)', Fold(categories'[d].name) = Fold(OtherName)
        PROVE  d = c
    <3>1. d \in DOMAIN categories' /\ CatchAll(categories, d) /\ categories'[d] = categories[d]
      BY <2>3 DEF Owned
    <3> QED BY <2>1, <2>3, <3>1 DEF Owned, CatchAll
  <2> QED BY <2>2, <2>3 DEF Exactly, Like, Owned, CatchAll
<1>2. made \in Nat /\ made' \in Nat
  BY DEF TablesOK, TypeOK, Ids
<1>3. ASSUME NEW c \in 1..made
      PROVE  /\ CatchAll(categories', c) <=> CatchAll(categories, c)
             /\ c \in DOMAIN categories' =>
                  c \in DOMAIN categories /\ categories'[c].user = categories[c].user
  BY <1>2 DEF CatchAll
<1> QED BY <1>1, <1>2, <1>3 DEF TablesStep

LEMMA NewCategory ==
  ASSUME TablesOK, NEW u \in Users, NEW name \in Names, Fold(name) # Fold(OtherName),
         made < MaxCategories, made' = made + 1,
         categories' = With(categories, made + 1, [user |-> u, name |-> name]),
         UNCHANGED <<feeds, subscriptions, file, served>>
  PROVE  TablesOK' /\ TablesStep
<1>1. made \in 1..MaxCategories /\ DOMAIN categories \subseteq 1..made
  BY DEF TablesOK, TypeOK, Ids
<1>2. made' \in Ids /\ made <= made' /\ made + 1 \notin DOMAIN categories /\ 1..made \subseteq 1..made'
      /\ made' \in 1..made'
  BY <1>1 DEF Ids
<1>3. /\ DOMAIN categories' = DOMAIN categories \cup {made'}
      /\ categories'[made'] = [user |-> u, name |-> name]
      /\ \A c \in DOMAIN categories : categories'[c] = categories[c] /\ c # made'
  BY <1>2 DEF With
<1>4. DOMAIN categories' \subseteq 1..made'
  BY <1>1, <1>2, <1>3
<1>5. categories' \in [DOMAIN categories' -> [user : Users, name : Names]]
  BY <1>3 DEF With, TablesOK, TypeOK
<1>6. \A c \in DOMAIN categories' : c <= made => c \in DOMAIN categories
  BY <1>1, <1>3
<1>7. ASSUME NEW c \in DOMAIN categories
      PROVE  CatchAll(categories, c) \/ Fold(categories[c].name) # Fold(OtherName)
  <2>1. c \in Owned(categories[c].user) /\ categories[c].user \in Users
    BY DEF Owned, TablesOK, TypeOK
  <2> QED BY <2>1, OtherIsOne
<1>8. /\ ~CatchAll(categories, made')
      /\ \A c \in DOMAIN categories' :
           IF CatchAll(categories, c) THEN categories'[c] = categories[c]
           ELSE Fold(categories'[c].name) # Fold(OtherName)
  BY <1>2, <1>3, <1>7 DEF CatchAll
<1>9. OneOther' /\ TablesStep
  BY <1>2, <1>3, <1>4, <1>5, <1>6, <1>8, CategoriesChange
<1>10. \A k \in DOMAIN subscriptions' : subscriptions'[k] \in Owned(k[1])'
  BY <1>3 DEF TablesOK, TypeOK, Owned
<1>11. DOMAIN categories' \subseteq Ids
  BY <1>2, <1>4 DEF Ids
<1> QED BY <1>2, <1>4, <1>5, <1>9, <1>10, <1>11 DEF TablesOK, TypeOK

LEMMA StopKeeps ==
  ASSUME IInv, NEW r \in Requests, Stop(r)
  PROVE  IInv'
BY DoneReading DEF Stop

\* INSERT of a category that is not like the catch-all.
LEMMA InsertKeeps ==
  ASSUME IInv, NEW r \in Requests, NEW then \in {"idle", "existing"},
         req[r].at \in {"insert", "resolve"}, then = "existing" => req[r].at = "resolve",
         Insert(r, req[r].user, req[r].name, then), UNCHANGED <<feeds, subscriptions, file, served>>
  PROVE  IInv'
<1> DEFINE u == req[r].user  name == req[r].name
<1>1. LocalOK(req[r], categories, made, feeds)
  BY DEF IInv, LocalsOK
<1>2. u \in Users /\ name \in Names /\ Fold(name) # Fold(OtherName)
  BY <1>1 DEF LocalOK, ArgsOK
<1>3. CASE Exactly(u, name) = {}
  <2> DEFINE q == [req[r] EXCEPT !.at = "existing", !.cat = made + 1]
  <2>1. /\ made < MaxCategories /\ made' = made + 1
        /\ categories' = With(categories, made + 1, [user |-> u, name |-> name])
        /\ req' = [req EXCEPT ![r] = IF then = "idle" THEN Idle ELSE [@ EXCEPT !.at = then, !.cat = made + 1]]
    BY <1>3 DEF Insert
  <2>2. TablesOK' /\ TablesStep
    BY <1>2, <2>1, NewCategory DEF IInv
  <2>3. then = "idle" => LocalsOK'
    BY <2>1, <2>2, DoneKeeps DEF Done, IInv
  <2>4. ASSUME then = "existing"
        PROVE  LocalsOK'
    <3>1. req' = [req EXCEPT ![r] = q]
      BY <2>1, <2>4 DEF IInv, LocalsOK
    <3>2. made' \in 1..made' /\ categories'[made'].user = u
      BY <2>1 DEF With, IInv, TablesOK, TypeOK, Ids
    <3>3. LocalOK(q, categories', made', feeds')
      BY <1>1, <2>1, <2>4, <3>2 DEF LocalOK, ArgsOK, KnowsOK, Adding, Held
    <3> QED BY <2>2, <3>1, <3>3, StepKeeps DEF IInv
  <2> QED BY <2>2, <2>3, <2>4 DEF IInv
<1>4. CASE Exactly(u, name) # {}
  BY <1>4, DoneReading DEF Insert, tables
<1> QED BY <1>3, <1>4

LEMMA StarterEntryKeeps ==
  ASSUME IInv, NEW r \in Requests, NEW e \in req[r].todo, StarterEntry(r, e)
  PROVE  IInv'
<1> DEFINE u == req[r].user
           q == [req[r] EXCEPT !.at = "starterId", !.todo = @ \ {e}, !.url = e.url, !.name = e.name]
<1>1. LocalOK(req[r], categories, made, feeds) /\ req[r].at = "starter"
  BY DEF StarterEntry, At, IInv, LocalsOK
<1>2. e \in Lines /\ e \in Starter /\ u \in Users
  BY <1>1 DEF LocalOK, ArgsOK
<1>3. e.url \in Urls /\ e.name \in Names /\ (Fold(e.name) = Fold(OtherName) => e.name = OtherName)
  BY <1>2, StarterAssumption DEF Lines
<1>4. TablesOK' /\ TablesStep
  <2>1. CASE Exactly(u, e.name) # {}
    BY <2>1, TablesStay, StaysStep DEF StarterEntry, IInv, TablesOK, TypeOK, Lines, tables
  <2>2. CASE Exactly(u, e.name) = {}
    <3>1. e.name # OtherName
      BY <1>2, <2>2 DEF IInv, TablesOK, OneOther
    <3> QED BY <1>2, <1>3, <2>2, <3>1, NewCategory DEF StarterEntry, IInv
  <2> QED BY <2>1, <2>2
<1>5. req' = [req EXCEPT ![r] = q]
  BY DEF StarterEntry, IInv, LocalsOK
<1>6. LocalOK(q, categories', made', feeds')
  BY <1>1, <1>3 DEF LocalOK, ArgsOK, KnowsOK, Adding, Held
<1>7. LocalsOK'
  BY <1>4, <1>5, <1>6, StepKeeps DEF IInv
<1> QED BY <1>4, <1>7 DEF IInv

\* What update_category read of the names is true of its row still, or the
\* row is gone.
LEMMA RenameWriteKeeps ==
  ASSUME IInv, NEW r \in Requests, RenameWrite(r)
  PROVE  IInv'
<1> DEFINE u == req[r].user  c == req[r].cat  name == req[r].name
<1>1. LocalOK(req[r], categories, made, feeds) /\ req[r].at = "renameWrite"
  BY DEF RenameWrite, At, IInv, LocalsOK
<1>2. /\ u \in Users /\ name \in Names /\ c \in 1..made
      /\ (CatchAll(categories, c) => name = OtherName)
      /\ (Fold(name) = Fold(OtherName) => CatchAll(categories, c))
  BY <1>1 DEF LocalOK, ArgsOK, KnowsOK, Held
<1>3. UNCHANGED <<made, feeds, subscriptions, file, served>> /\ Done(r)
  BY DEF RenameWrite
<1>4. CASE categories' = categories
  BY <1>3, <1>4, DoneReading DEF tables
<1>5. CASE c \in DOMAIN categories /\ categories' = [categories EXCEPT ![c].name = name]
  <2>1. /\ DOMAIN categories' = DOMAIN categories
        /\ categories'[c].user = categories[c].user /\ categories'[c].name = name
        /\ \A d \in DOMAIN categories : d # c => categories'[d] = categories[d]
    BY <1>5 DEF IInv, TablesOK, TypeOK
  <2>2. categories' \in [DOMAIN categories' -> [user : Users, name : Names]]
    BY <1>2, <1>5 DEF IInv, TablesOK, TypeOK
  <2>3. CatchAll(categories, c) => categories'[c] = categories[c]
    BY <1>2, <1>5, <2>1 DEF CatchAll, IInv, TablesOK, TypeOK
  <2>4. ASSUME NEW d \in DOMAIN categories'
        PROVE  IF CatchAll(categories, d) THEN categories'[d] = categories[d]
               ELSE Fold(categories'[d].name) # Fold(OtherName)
    <3>1. d \in Owned(categories[d].user) /\ categories[d].user \in Users
      BY <2>1 DEF Owned, IInv, TablesOK, TypeOK
    <3>2. CatchAll(categories, d) \/ Fold(categories[d].name) # Fold(OtherName)
      BY <3>1, OtherIsOne DEF IInv
    <3> QED BY <1>2, <2>1, <2>3, <3>2
  <2>5. made' \in Ids /\ made <= made' /\ DOMAIN categories' \subseteq 1..made'
    BY <1>3, <2>1 DEF IInv, TablesOK, TypeOK, Ids
  <2>6. \A d \in DOMAIN categories' : categories'[d].user = categories[d].user
    BY <2>1
  <2>7. OneOther' /\ TablesStep
    BY <1>3, <2>1, <2>2, <2>4, <2>5, <2>6, CategoriesChange DEF IInv
  <2>8. \A k \in DOMAIN subscriptions' : subscriptions'[k] \in Owned(k[1])'
    BY <1>3, <2>1, <2>6 DEF Owned, IInv, TablesOK, TypeOK
  <2>9. TablesOK'
    BY <1>3, <2>1, <2>2, <2>5, <2>7, <2>8 DEF IInv, TablesOK, TypeOK
  <2> QED BY <1>3, <2>7, <2>9, DoneKeeps DEF IInv
<1> QED BY <1>4, <1>5 DEF RenameWrite

\* delete_category finds its user's Other, and puts there what the category
\* holds by then.
LEMMA DeleteCategoryKeeps ==
  ASSUME IInv, NEW r \in Requests, DeleteCategory(r)
  PROVE  IInv'
<1> DEFINE u == req[r].user  c == req[r].cat
<1>1. LocalOK(req[r], categories, made, feeds) /\ req[r].at = "reassign"
  BY DEF DeleteCategory, At, IInv, LocalsOK
<1>2. /\ u \in Users /\ ~CatchAll(categories, c)
      /\ (c \in DOMAIN categories => categories[c].user = u)
  BY <1>1 DEF LocalOK, ArgsOK, KnowsOK, Held
<1>3. /\ UNCHANGED <<made, feeds, file, served>> /\ Done(r)
      /\ DOMAIN categories' = DOMAIN categories \ {c}
      /\ \A d \in DOMAIN categories' : categories'[d] = categories[d]
  BY DEF DeleteCategory, Without
<1>4. categories' \in [DOMAIN categories' -> [user : Users, name : Names]]
  BY DEF DeleteCategory, Without, IInv, TablesOK, TypeOK
<1>5. ASSUME NEW d \in DOMAIN categories'
      PROVE  IF CatchAll(categories, d) THEN categories'[d] = categories[d]
             ELSE Fold(categories'[d].name) # Fold(OtherName)
  <2>1. d \in Owned(categories[d].user) /\ categories[d].user \in Users
    BY <1>3 DEF Owned, IInv, TablesOK, TypeOK
  <2> QED BY <1>3, <2>1, OtherIsOne DEF IInv
<1>6. made' \in Ids /\ made <= made' /\ DOMAIN categories' \subseteq 1..made'
  BY <1>3 DEF IInv, TablesOK, TypeOK, Ids
<1>7. \A d \in DOMAIN categories : CatchAll(categories, d) => d \in DOMAIN categories'
  BY <1>2, <1>3
<1>8. OneOther' /\ TablesStep
  BY <1>3, <1>4, <1>5, <1>6, <1>7, CategoriesChange DEF IInv
<1>9. PICK other \in Exactly(u, OtherName) :
        subscriptions' = [k \in DOMAIN subscriptions |->
                            IF k[1] = u /\ subscriptions[k] = c THEN other ELSE subscriptions[k]]
  BY DEF DeleteCategory, Reassign
<1>10. other \in DOMAIN categories' /\ categories'[other].user = u
  BY <1>2, <1>3 DEF Exactly, Owned, CatchAll
<1>11. ASSUME NEW k \in DOMAIN subscriptions'
       PROVE  subscriptions'[k] \in Owned(k[1])'
  <2>1. subscriptions[k] \in DOMAIN categories /\ categories[subscriptions[k]].user = k[1]
    BY <1>9 DEF IInv, TablesOK, TypeOK, Owned
  <2>2. CASE subscriptions[k] = c
    BY <1>2, <1>9, <1>10, <2>1, <2>2 DEF Owned
  <2>3. CASE subscriptions[k] # c
    BY <1>3, <1>9, <2>1, <2>3 DEF Owned
  <2> QED BY <2>2, <2>3
<1>12. DOMAIN subscriptions' \subseteq Users \X feeds'
  BY <1>3, <1>9 DEF IInv, TablesOK, TypeOK
<1>13. TablesOK'
  BY <1>3, <1>4, <1>6, <1>8, <1>11, <1>12 DEF IInv, TablesOK, TypeOK
<1> QED BY <1>3, <1>8, <1>13, DoneKeeps DEF IInv

\* Feeds come, and subscriptions change; the categories stay.
LEMMA SubscriptionsChange ==
  ASSUME IInv, UNCHANGED <<categories, made, file, served>>,
         feeds \subseteq feeds', feeds' \subseteq Urls,
         DOMAIN subscriptions' \subseteq Users \X feeds',
         \A k \in DOMAIN subscriptions' : subscriptions'[k] \in Owned(k[1])
  PROVE  TablesOK' /\ TablesStep
<1>1. TablesStep
  BY DEF TablesStep, IInv, TablesOK, TypeOK, Ids
<1>2. \A u : Owned(u)' = Owned(u)
  BY DEF Owned
<1>3. OneOther'
  BY DEF OneOther, Exactly, Like, Owned, IInv, TablesOK
<1> QED BY <1>1, <1>2, <1>3 DEF IInv, TablesOK, TypeOK

LEMMA InsertFeedKeeps ==
  ASSUME IInv, NEW r \in Requests, InsertFeed(r)
  PROVE  IInv'
<1> DEFINE q == [req[r] EXCEPT !.at = "add"]
<1>1. LocalOK(req[r], categories, made, feeds) /\ req[r].at = "newFeed"
  BY DEF InsertFeed, At, IInv, LocalsOK
<1>2. req[r].url \in Urls
  BY <1>1 DEF LocalOK, ArgsOK, Adding
<1>3. feeds' = feeds \cup {req[r].url} /\ UNCHANGED <<categories, made, subscriptions, file, served>>
  BY DEF InsertFeed
<1>4. DOMAIN subscriptions' \subseteq Users \X feeds'
  BY <1>3 DEF IInv, TablesOK, TypeOK
<1>5. TablesOK' /\ TablesStep
  BY <1>2, <1>3, <1>4, SubscriptionsChange DEF IInv, TablesOK, TypeOK
<1>6. CASE GoOn(r, "add")
  <2>1. req' = [req EXCEPT ![r] = q]
    BY <1>6 DEF GoOn, IInv, LocalsOK
  <2>2. LocalOK(q, categories', made', feeds')
    BY <1>1, <1>3 DEF LocalOK, ArgsOK, KnowsOK, Adding, Held
  <2>3. LocalsOK'
    BY <1>5, <2>1, <2>2, StepKeeps DEF IInv
  <2> QED BY <1>5, <2>3 DEF IInv
<1>7. CASE Done(r)
  BY <1>5, <1>7, DoneKeeps DEF IInv
<1> QED BY <1>6, <1>7 DEF InsertFeed

LEMMA AddSubscriptionKeeps ==
  ASSUME IInv, NEW r \in Requests, AddSubscription(r)
  PROVE  IInv'
<1> DEFINE u == req[r].user  key == <<u, req[r].url>>
<1>1. LocalOK(req[r], categories, made, feeds) /\ req[r].at = "add"
  BY DEF AddSubscription, At, IInv, LocalsOK
<1>2. /\ u \in Users /\ req[r].url \in feeds
      /\ (IsThere(req[r].cat) => req[r].cat \in Owned(u))
  BY <1>1 DEF LocalOK, ArgsOK, KnowsOK, Held, Adding, IsThere, Owned
<1>3. UNCHANGED <<categories, made, feeds, file, served>>
  BY DEF AddSubscription
<1>4. TablesOK' /\ TablesStep
  <2>1. CASE subscriptions' = subscriptions
    BY <1>3, <2>1, SubscriptionsChange DEF IInv, TablesOK, TypeOK
  <2>2. CASE subscriptions' = With(subscriptions, key, req[r].cat) /\ IsThere(req[r].cat)
    <3>1. /\ DOMAIN subscriptions' = DOMAIN subscriptions \cup {key}
          /\ \A k \in DOMAIN subscriptions' :
               subscriptions'[k] = IF k = key THEN req[r].cat ELSE subscriptions[k]
      BY <2>2 DEF With
    <3>2. DOMAIN subscriptions' \subseteq Users \X feeds'
      BY <1>2, <1>3, <3>1 DEF IInv, TablesOK, TypeOK
    <3>3. \A k \in DOMAIN subscriptions' : subscriptions'[k] \in Owned(k[1])
      BY <1>2, <2>2, <3>1 DEF IInv, TablesOK, TypeOK
    <3> QED BY <1>3, <3>2, <3>3, SubscriptionsChange DEF IInv, TablesOK, TypeOK
  <2> QED BY <2>1, <2>2 DEF AddSubscription
<1>5. Treated(r) \/ Done(r)
  BY DEF AddSubscription
<1>6. LocalsOK'
  BY <1>1, <1>4, <1>5, TreatedKeeps, DoneKeeps DEF IInv, At
<1> QED BY <1>4, <1>6 DEF IInv

LEMMA MoveWriteKeeps ==
  ASSUME IInv, NEW r \in Requests, MoveWrite(r)
  PROVE  IInv'
<1> DEFINE u == req[r].user  key == <<u, req[r].url>>
<1>1. LocalOK(req[r], categories, made, feeds) /\ req[r].at = "moveWrite"
  BY DEF MoveWrite, At, IInv, LocalsOK
<1>2. IsThere(req[r].cat) => req[r].cat \in Owned(u)
  BY <1>1 DEF LocalOK, KnowsOK, Held, IsThere, Owned
<1>3. UNCHANGED <<categories, made, feeds, file, served>> /\ Done(r)
  BY DEF MoveWrite
<1>4. TablesOK' /\ TablesStep
  <2>1. /\ DOMAIN subscriptions' = DOMAIN subscriptions
        /\ \A k \in DOMAIN subscriptions :
             \/ subscriptions'[k] = subscriptions[k]
             \/ k = key /\ IsThere(req[r].cat) /\ subscriptions'[k] = req[r].cat
    BY DEF MoveWrite
  <2>2. \A k \in DOMAIN subscriptions' : subscriptions'[k] \in Owned(k[1])
    BY <1>2, <2>1 DEF IInv, TablesOK, TypeOK
  <2> QED BY <1>3, <2>1, <2>2, SubscriptionsChange DEF IInv, TablesOK, TypeOK
<1> QED BY <1>3, <1>4, DoneKeeps DEF IInv

LEMMA UnsubscribeKeeps ==
  ASSUME IInv, NEW r \in Requests, NEW url \in Urls, Unsubscribe(r, url)
  PROVE  IInv'
<1>1. UNCHANGED <<categories, made, feeds, file, served>> /\ Done(r)
  BY DEF Unsubscribe
<1>2. /\ DOMAIN subscriptions' \subseteq DOMAIN subscriptions
      /\ \A k \in DOMAIN subscriptions' : subscriptions'[k] = subscriptions[k]
  BY DEF Unsubscribe, Without
<1>3. TablesOK' /\ TablesStep
  BY <1>1, <1>2, SubscriptionsChange DEF IInv, TablesOK, TypeOK
<1> QED BY <1>1, <1>3, DoneKeeps DEF IInv

----------------------------------------------------------------------------
(* The invariant.                                                          *)

\* Every user begins with a category of his own.
LEMMA UserSeqFacts ==
  /\ UserSeq \in [Users -> 1..Cardinality(Users)]
  /\ \A u, v \in Users : UserSeq[u] = UserSeq[v] => u = v
  /\ \A c \in 1..Cardinality(Users) : \E u \in Users : UserSeq[u] = c
<1> DEFINE n == Cardinality(Users)
           Numbers == {f \in [Users -> 1..n] : \A u, v \in Users : f[u] = f[v] => u = v}
<1>1. PICK g \in Bijection(1..n, Users) : TRUE
  BY FS_CardinalityType DEF ExistsBijection
<1>2. /\ g \in [1..n -> Users] /\ \A u \in Users : \E c \in 1..n : g[c] = u
      /\ \A c, d \in 1..n : g[c] = g[d] => c = d
  BY <1>1 DEF Bijection, Injection, Surjection, IsInjective
<1> DEFINE f == [u \in Users |-> CHOOSE c \in 1..n : g[c] = u]
<1>3. \A u \in Users : f[u] \in 1..n /\ g[f[u]] = u
  BY <1>2
<1> HIDE DEF n
<1>4. f \in Numbers
  <2>1. f \in [Users -> 1..n]
    BY <1>3
  <2>2. \A u, v \in Users : f[u] = f[v] => u = v
    BY <1>3
  <2> HIDE DEF f
  <2> QED BY <2>1, <2>2
<1> HIDE DEF f
<1>5. UserSeq \in Numbers
  BY <1>4 DEF UserSeq, n
<1>6. UserSeq \in Injection(Users, 1..n)
  BY <1>5 DEF Injection, IsInjective
<1>7. n \in Nat /\ IsFiniteSet(1..n) /\ Cardinality(1..n) = n
  BY FS_CardinalityType, FS_Interval DEF n
<1>8. UserSeq \in Surjection(Users, 1..n)
  BY <1>6, <1>7, FS_Injection DEF n
<1> QED BY <1>5, <1>8 DEF Surjection, n

LEMMA InitIInv == Init => IInv
<1> SUFFICES ASSUME Init PROVE IInv
  OBVIOUS
<1> DEFINE n == Cardinality(Users)
<1>1. /\ made = n /\ feeds = {} /\ subscriptions = <<>> /\ file = {} /\ served = 0
      /\ req = [r \in Requests |-> Idle] /\ DOMAIN categories = 1..n
  BY DEF Init
<1>2. \A u \in Users : \A c \in 1..n :
        categories[c].name = OtherName /\ (categories[c].user = u <=> UserSeq[u] = c)
  BY UserSeqFacts DEF Init
<1>3. categories \in [1..n -> [user : Users, name : Names]]
  BY UserSeqFacts DEF Init
<1>4. n \in 1..MaxCategories /\ 1..n \subseteq Ids
  BY DEF Ids
<1>5. OneOther
  BY <1>1, <1>2, UserSeqFacts DEF OneOther, Exactly, Like, Owned
<1>6. TypeOK
  BY <1>1, <1>3, <1>4 DEF TypeOK, Ids
<1>7. LocalsOK
  BY <1>1, IdleOK DEF LocalsOK
<1> QED BY <1>1, <1>5, <1>6, <1>7 DEF IInv, TablesOK

LEMMA NextKeeps == IInv /\ [Next]_vars => IInv'
<1> SUFFICES ASSUME IInv, [Next]_vars PROVE IInv'
  OBVIOUS
<1>1. CASE UNCHANGED vars
  <2>1. UNCHANGED <<tables, file, req, served>>
    BY <1>1 DEF vars
  <2>2. TablesOK'
    BY <2>1, TablesStay DEF IInv, TablesOK, TypeOK, Lines
  <2> QED BY <2>1, <2>2 DEF IInv, LocalsOK, tables
<1>2. ASSUME NEW u \in Users, Export(u)
      PROVE  IInv'
  BY <1>2, ExportKeeps
<1>3. ASSUME NEW r \in Requests, NEW u \in Users, NEW at \in Handlers, Begin(r, u, at, {})
      PROVE  IInv'
  BY <1>3, BeginKeeps
<1>4. ASSUME NEW r \in Requests, NEW u \in Users, Begin(r, u, "entry", file)
      PROVE  IInv'
  BY <1>4, BeginKeeps DEF IInv, TablesOK, TypeOK, Lines
<1>5. ASSUME NEW r \in Requests, NEW u \in Users, Begin(r, u, "starter", Starter)
      PROVE  IInv'
  BY <1>5, StarterAssumption, BeginKeeps DEF Lines
<1>6. ASSUME NEW r \in Requests, CreateInsert(r)
      PROVE  IInv'
  BY <1>6, InsertKeeps DEF CreateInsert, At
<1>7. ASSUME NEW r \in Requests, ResolveInsert(r)
      PROVE  IInv'
  BY <1>7, InsertKeeps DEF ResolveInsert, At
<1>8. ASSUME NEW r \in Requests, NEW name \in Names,
             CreateCheck(r, name) \/ \E c \in Ids : RenameRead(r, c, name)
      PROVE  IInv'
  BY <1>8, CreateCheckKeeps, RenameReadKeeps
<1>9. ASSUME NEW r \in Requests, RenameClash(r) \/ RenameWrite(r) \/ DeleteCategory(r)
      PROVE  IInv'
  BY <1>9, RenameClashKeeps, RenameWriteKeeps, DeleteCategoryKeeps
<1>10. ASSUME NEW r \in Requests, NEW c \in Ids,
              DeleteRead(r, c) \/ \E url \in Urls : SubscribeCategory(r, c, url) \/ MoveCheck(r, c, url)
       PROVE  IInv'
  BY <1>10, DeleteReadKeeps, SubscribeCategoryKeeps, MoveCheckKeeps
<1>11. ASSUME NEW r \in Requests,
              Existing(r) \/ FindFeed(r) \/ InsertFeed(r) \/ AddSubscription(r) \/ MoveWrite(r)
       PROVE  IInv'
  BY <1>11, ExistingKeeps, FindFeedKeeps, InsertFeedKeeps, AddSubscriptionKeeps, MoveWriteKeeps
<1>12. ASSUME NEW r \in Requests, NEW url \in Urls, Unsubscribe(r, url)
       PROVE  IInv'
  BY <1>12, UnsubscribeKeeps
<1>13. ASSUME NEW r \in Requests, NEW e \in req[r].todo, ImportEntry(r, e) \/ StarterEntry(r, e)
       PROVE  IInv'
  BY <1>13, ImportEntryKeeps, StarterEntryKeeps
<1>14. ASSUME NEW r \in Requests, StarterId(r) \/ ImportEnds(r) \/ Stop(r)
       PROVE  IInv'
  BY <1>14, StarterIdKeeps, ImportEndsKeeps, StopKeeps
<1> QED BY <1>1, <1>2, <1>3, <1>4, <1>5, <1>6, <1>7, <1>8, <1>9, <1>10, <1>11, <1>12, <1>13, <1>14
        DEF Next

\* What requests know stays true while others change the tables.
THEOREM Inductive == Spec => []IInv
<1> QED BY InitIInv, NextKeeps, PTL DEF Spec

\* The foreign keys hold at every moment: a subscription is in a category of
\* its user.
THEOREM Typed == Spec => []TypeOK
<1>1. IInv => TypeOK
  BY DEF IInv, TablesOK
<1> QED BY <1>1, Inductive, PTL

\* A user has one category Other and no second one that NOCASE takes for it,
\* however creations, renamings, deletions, imports and the onboarding overlap.
THEOREM OtherStays == Spec => []OneOther
<1>1. IInv => OneOther
  BY DEF IInv, TablesOK
<1> QED BY <1>1, Inductive, PTL

----------------------------------------------------------------------------
(* What removes a subscription.                                            *)

LEMMA RemovedOnDemand ==
  ASSUME Next, NEW k \in DOMAIN subscriptions \ DOMAIN subscriptions'
  PROVE  \E r \in Requests : At(r, "unsubscribe") /\ req[r].user = k[1]
<1>1. ASSUME NEW r \in Requests, NEW url \in Urls, Unsubscribe(r, url)
      PROVE  At(r, "unsubscribe") /\ req[r].user = k[1]
  BY <1>1 DEF Unsubscribe, Without
<1>2. \A r \in Requests : ~DeleteCategory(r) /\ ~MoveWrite(r) /\ ~RenameWrite(r)
  BY DEF DeleteCategory, Reassign, MoveWrite, RenameWrite
<1>3. \A r \in Requests : ~AddSubscription(r)
  BY DEF AddSubscription, With
<1>4. ~UNCHANGED subscriptions
  OBVIOUS
<1>5. ASSUME NEW r
      PROVE  /\ \A u, at, all : ~Begin(r, u, at, all)
             /\ \A name : ~CreateCheck(r, name)
             /\ ~CreateInsert(r) /\ ~ResolveInsert(r)
             /\ \A c, name : ~RenameRead(r, c, name)
             /\ ~RenameClash(r) /\ \A c : ~DeleteRead(r, c)
  BY <1>4, Zenon DEF Begin, CreateCheck, CreateInsert, ResolveInsert, RenameRead, RenameClash,
                     DeleteRead, tables
<1>6. ASSUME NEW r
      PROVE  /\ \A c, url : ~SubscribeCategory(r, c, url) /\ ~MoveCheck(r, c, url)
             /\ ~Existing(r) /\ ~FindFeed(r) /\ ~InsertFeed(r)
  BY <1>4, Zenon DEF SubscribeCategory, MoveCheck, Existing, FindFeed, InsertFeed, tables
<1>7. ASSUME NEW r
      PROVE  /\ \A e : ~ImportEntry(r, e) /\ ~StarterEntry(r, e)
             /\ ~ImportEnds(r) /\ ~StarterId(r) /\ ~Stop(r)
  BY <1>4, Zenon DEF ImportEntry, StarterEntry, ImportEnds, StarterId, Stop, tables
<1>8. \A u : ~Export(u)
  BY <1>4, Zenon DEF Export, tables
<1> QED BY <1>1, <1>2, <1>3, <1>5, <1>6, <1>7, <1>8, Zenon DEF Next

\* Deleting a category, renaming, moving, importing: none of it loses a
\* subscription.  Only a request of its user to unsubscribe does.
THEOREM Removes == Spec => OnlyUnsubscribeRemoves
<1>1. [Next]_vars => [\A k \in DOMAIN subscriptions \ DOMAIN subscriptions' :
                        \E r \in Requests : At(r, "unsubscribe") /\ req[r].user = k[1]]_vars
  BY RemovedOnDemand
<1> QED BY <1>1, PTL DEF Spec, OnlyUnsubscribeRemoves

----------------------------------------------------------------------------
(* Imports.                                                                *)

SubscriptionsOf(u) == {x \in DOMAIN subscriptions : x[1] = u}

\* A step leaves what belongs to u.
Untouched(u) ==
  /\ Entries(u)' = Entries(u)
  /\ \A c \in Owned(u) : c \in DOMAIN categories' /\ categories'[c] = categories[c]

LEMMA Untouching ==
  ASSUME TablesOK, NEW u, SubscriptionsOf(u)' = SubscriptionsOf(u),
         \A k \in SubscriptionsOf(u) : subscriptions'[k] = subscriptions[k],
         \A c \in Owned(u) : c \in DOMAIN categories' /\ categories'[c] = categories[c]
  PROVE  Untouched(u)
<1>1. \A k \in SubscriptionsOf(u) : subscriptions[k] \in Owned(u)
  BY DEF SubscriptionsOf, TablesOK, TypeOK
<1>2. \A k \in SubscriptionsOf(u) :
        categories'[subscriptions'[k]].name = categories[subscriptions[k]].name
  BY <1>1
<1>3. Entries(u) = {[url |-> k[2], name |-> categories[subscriptions[k]].name] : k \in SubscriptionsOf(u)}
  BY DEF Entries, SubscriptionsOf
<1>4. Entries(u)' = {[url |-> k[2], name |-> categories'[subscriptions'[k]].name] : k \in SubscriptionsOf(u)}
  BY DEF Entries, SubscriptionsOf
<1>5. Entries(u)' = Entries(u)
  BY <1>2, <1>3, <1>4
<1> QED BY <1>5 DEF Untouched

\* A step of request r, for its user.
ForItsUser(r) == \A u \in Users \ {req[r].user} : Untouched(u)

LEMMA ImportStays ==
  ASSUME IInv, NEW s \in Requests, NEW u, u = req[s].user, req[s].at # "idle",
         ImportOK(req[s], Entries(u), categories), Untouched(u)
  PROVE  ImportOK(req[s], Entries(u)', categories')
<1>1. LocalOK(req[s], categories, made, feeds)
  BY DEF IInv, LocalsOK
<1>2. req[s].at \in Adding =>
        /\ req[s].cat \in DOMAIN categories' /\ categories'[req[s].cat] = categories[req[s].cat]
  BY <1>1 DEF LocalOK, KnowsOK, Held, ImportOK, Untouched, Owned
<1>3. ImportOK(req[s], Entries(u)', categories)
  BY DEF Untouched
<1> QED BY <1>2, <1>3 DEF ImportOK

\* A request goes on: the imports of other users do not notice, and its own
\* import is what it was.
LEMMA ImportsStep ==
  ASSUME IInv, ImportsOK, NEW r \in Requests, NEW u, u = req[r].user,
         NEW q, req' = [req EXCEPT ![r] = q],
         ~At(r, "idle"), q.at # "idle" => q.user = u,
         LoopOK(q),
         ImportsAlone(q) => ImportsAlone(req[r]) /\ ImportOK(q, Entries(u)', categories'),
         ForItsUser(r), file' = file
  PROVE  ImportsOK'
<1>1. \A s \in Requests : req'[s] = IF s = r THEN q ELSE req[s]
  BY DEF IInv, LocalsOK
<1>2. \A s \in Requests : LoopOK(req'[s])
  BY <1>1 DEF ImportsOK
<1>3. ASSUME NEW s \in Requests, ImportsAlone(req'[s]), NEW v, v = req'[s].user
      PROVE  /\ ImportOK(req'[s], Entries(v)', categories')
             /\ \A t \in Requests \ {s} : req'[t].at = "idle" \/ req'[t].user # v
  <2>1. CASE s = r
    <3>1. q.at # "idle" /\ q.user = u /\ u = v
      BY <1>1, <1>3, <2>1 DEF ImportsAlone, LoopOK, ImportStages, Adding
    <3>2. ImportOK(q, Entries(u)', categories') /\ ImportsAlone(req[r])
      BY <1>1, <1>3, <2>1
    <3>3. \A t \in Requests \ {r} : req[t].at = "idle" \/ req[t].user # u
      BY <3>2 DEF ImportsOK, At
    <3> QED BY <1>1, <2>1, <3>1, <3>2, <3>3
  <2>2. CASE s # r
    <3>1. req'[s] = req[s] /\ ImportsAlone(req[s]) /\ req[s].at # "idle" /\ v = req[s].user
      BY <1>1, <1>3, <2>2 DEF ImportsOK, LoopOK, ImportsAlone, ImportStages, Adding
    <3>2. \A t \in Requests \ {s} : req[t].at = "idle" \/ req[t].user # v
      BY <3>1 DEF ImportsOK, At
    <3>3. v # u
      BY <2>2, <3>2 DEF At
    <3>4. v \in Users
      BY <3>1 DEF IInv, LocalsOK, LocalOK, ArgsOK
    <3>5. ImportOK(req[s], Entries(v), categories)
      BY <3>1 DEF ImportsOK
    <3>6. ImportOK(req[s], Entries(v)', categories')
      BY <3>1, <3>3, <3>4, <3>5, ImportStays DEF ForItsUser
    <3>7. \A t \in Requests \ {s} : req'[t].at = "idle" \/ req'[t].user # v
      BY <1>1, <3>2, <3>3
    <3> QED BY <3>1, <3>6, <3>7
  <2> QED BY <2>1, <2>2
<1>4. ASSUME NEW s \in Requests, ImportsAlone(req'[s])
      PROVE  /\ ImportOK(req[s], Entries(req[s].user), categories)'
             /\ \A t \in Requests \ {s} : At(t, "idle")' \/ req'[t].user # req'[s].user
  BY <1>3, <1>4 DEF At
<1> QED BY <1>2, <1>4 DEF ImportsOK

LEMMA ReadForItsUser ==
  ASSUME TablesOK, UNCHANGED <<categories, subscriptions>>, NEW r
  PROVE  ForItsUser(r) /\ \A u : Untouched(u)
BY Untouching DEF ForItsUser, SubscriptionsOf, Owned

LEMMA ImportsDone ==
  ASSUME IInv, ImportsOK, NEW r \in Requests, ~At(r, "idle"), Done(r), ForItsUser(r), file' = file
  PROVE  ImportsOK'
<1>1. Idle.loop = "none" /\ Idle.at = "idle"
  BY DEF Idle
<1> QED BY <1>1, ImportsStep DEF Done, ImportsAlone, LoopOK

\* The other handlers are no imports.
LEMMA NoImport ==
  ASSUME IInv, ImportsOK, NEW r \in Requests, NEW q, req' = [req EXCEPT ![r] = q],
         ~At(r, "idle"), q.user = req[r].user, q.loop = req[r].loop, req[r].loop # "entry",
         q.at \notin {"entry", "imported"}, ForItsUser(r), file' = file
  PROVE  ImportsOK'
BY ImportsStep DEF ImportsAlone, LoopOK

LEMMA CreateCheckImports ==
  ASSUME IInv, ImportsOK, NEW r \in Requests, NEW name, CreateCheck(r, name)
  PROVE  ImportsOK'
<1> DEFINE q == [req[r] EXCEPT !.at = "insert", !.name = name]
<1>1. req[r].at = "create" /\ ~At(r, "idle") /\ ForItsUser(r) /\ file' = file
  BY ReadForItsUser DEF CreateCheck, At, tables, IInv
<1>2. LocalOK(req[r], categories, made, feeds) /\ req[r].loop # "entry"
  BY <1>1 DEF IInv, LocalsOK, ImportsOK, LoopOK, ImportStages, Adding
<1>3. ASSUME req' = [req EXCEPT ![r].at = "insert", ![r].name = name]
      PROVE  ImportsOK'
  <2>1. req' = [req EXCEPT ![r] = q]
    BY <1>3 DEF IInv, LocalsOK
  <2>2. q.user = req[r].user /\ q.loop = req[r].loop /\ q.at \notin {"entry", "imported"}
    BY <1>2 DEF LocalOK, ArgsOK
  <2> HIDE DEF q
  <2> QED BY <1>1, <1>2, <2>1, <2>2, NoImport
<1> QED BY <1>1, <1>3, ImportsDone DEF CreateCheck

LEMMA RenameReadImports ==
  ASSUME IInv, ImportsOK, NEW r \in Requests, NEW c, NEW name, RenameRead(r, c, name)
  PROVE  ImportsOK'
<1> DEFINE q == [req[r] EXCEPT !.at = "clash", !.cat = c, !.name = name]
<1>1. req[r].at = "rename" /\ ~At(r, "idle") /\ ForItsUser(r) /\ file' = file
  BY ReadForItsUser DEF RenameRead, At, tables, IInv
<1>2. LocalOK(req[r], categories, made, feeds) /\ req[r].loop # "entry"
  BY <1>1 DEF IInv, LocalsOK, ImportsOK, LoopOK, ImportStages, Adding
<1>3. ASSUME req' = [req EXCEPT ![r].at = "clash", ![r].cat = c, ![r].name = name]
      PROVE  ImportsOK'
  <2>1. req' = [req EXCEPT ![r] = q]
    BY <1>3 DEF IInv, LocalsOK
  <2>2. q.user = req[r].user /\ q.loop = req[r].loop /\ q.at \notin {"entry", "imported"}
    BY <1>2 DEF LocalOK, ArgsOK
  <2> HIDE DEF q
  <2> QED BY <1>1, <1>2, <2>1, <2>2, NoImport
<1> QED BY <1>1, <1>3, ImportsDone DEF RenameRead

LEMMA RenameClashImports ==
  ASSUME IInv, ImportsOK, NEW r \in Requests, RenameClash(r)
  PROVE  ImportsOK'
<1> DEFINE q == [req[r] EXCEPT !.at = "renameWrite"]
<1>1. req[r].at = "clash" /\ ~At(r, "idle") /\ ForItsUser(r) /\ file' = file
  BY ReadForItsUser DEF RenameClash, At, tables, IInv
<1>2. LocalOK(req[r], categories, made, feeds) /\ req[r].loop # "entry"
  BY <1>1 DEF IInv, LocalsOK, ImportsOK, LoopOK, ImportStages, Adding
<1>3. ASSUME GoOn(r, "renameWrite")
      PROVE  ImportsOK'
  <2>1. req' = [req EXCEPT ![r] = q]
    BY <1>3 DEF GoOn, IInv, LocalsOK
  <2>2. q.user = req[r].user /\ q.loop = req[r].loop /\ q.at \notin {"entry", "imported"}
    BY <1>2 DEF LocalOK, ArgsOK
  <2> HIDE DEF q
  <2> QED BY <1>1, <1>2, <2>1, <2>2, NoImport
<1> QED BY <1>1, <1>3, ImportsDone DEF RenameClash

LEMMA DeleteReadImports ==
  ASSUME IInv, ImportsOK, NEW r \in Requests, NEW c, DeleteRead(r, c)
  PROVE  ImportsOK'
<1> DEFINE q == [req[r] EXCEPT !.at = "reassign", !.cat = c]
<1>1. req[r].at = "delete" /\ ~At(r, "idle") /\ ForItsUser(r) /\ file' = file
  BY ReadForItsUser DEF DeleteRead, At, tables, IInv
<1>2. LocalOK(req[r], categories, made, feeds) /\ req[r].loop # "entry"
  BY <1>1 DEF IInv, LocalsOK, ImportsOK, LoopOK, ImportStages, Adding
<1>3. ASSUME req' = [req EXCEPT ![r].at = "reassign", ![r].cat = c]
      PROVE  ImportsOK'
  <2>1. req' = [req EXCEPT ![r] = q]
    BY <1>3 DEF IInv, LocalsOK
  <2>2. q.user = req[r].user /\ q.loop = req[r].loop /\ q.at \notin {"entry", "imported"}
    BY <1>2 DEF LocalOK, ArgsOK
  <2> HIDE DEF q
  <2> QED BY <1>1, <1>2, <2>1, <2>2, NoImport
<1> QED BY <1>1, <1>3, ImportsDone DEF DeleteRead

LEMMA SubscribeCategoryImports ==
  ASSUME IInv, ImportsOK, NEW r \in Requests, NEW c, NEW url, SubscribeCategory(r, c, url)
  PROVE  ImportsOK'
<1> DEFINE q == [req[r] EXCEPT !.at = "existing", !.cat = c, !.url = url]
<1>1. req[r].at = "subscribe" /\ ~At(r, "idle") /\ ForItsUser(r) /\ file' = file
  BY ReadForItsUser DEF SubscribeCategory, At, tables, IInv
<1>2. LocalOK(req[r], categories, made, feeds) /\ req[r].loop # "entry"
  BY <1>1 DEF IInv, LocalsOK, ImportsOK, LoopOK, ImportStages, Adding
<1>3. ASSUME req' = [req EXCEPT ![r].at = "existing", ![r].cat = c, ![r].url = url]
      PROVE  ImportsOK'
  <2>1. req' = [req EXCEPT ![r] = q]
    BY <1>3 DEF IInv, LocalsOK
  <2>2. q.user = req[r].user /\ q.loop = req[r].loop /\ q.at \notin {"entry", "imported"}
    BY <1>2 DEF LocalOK, ArgsOK
  <2> HIDE DEF q
  <2> QED BY <1>1, <1>2, <2>1, <2>2, NoImport
<1> QED BY <1>1, <1>3, ImportsDone DEF SubscribeCategory

LEMMA MoveCheckImports ==
  ASSUME IInv, ImportsOK, NEW r \in Requests, NEW c, NEW url, MoveCheck(r, c, url)
  PROVE  ImportsOK'
<1> DEFINE q == [req[r] EXCEPT !.at = "moveWrite", !.cat = c, !.url = url]
<1>1. req[r].at = "move" /\ ~At(r, "idle") /\ ForItsUser(r) /\ file' = file
  BY ReadForItsUser DEF MoveCheck, At, tables, IInv
<1>2. LocalOK(req[r], categories, made, feeds) /\ req[r].loop # "entry"
  BY <1>1 DEF IInv, LocalsOK, ImportsOK, LoopOK, ImportStages, Adding
<1>3. ASSUME req' = [req EXCEPT ![r].at = "moveWrite", ![r].cat = c, ![r].url = url]
      PROVE  ImportsOK'
  <2>1. req' = [req EXCEPT ![r] = q]
    BY <1>3 DEF IInv, LocalsOK
  <2>2. q.user = req[r].user /\ q.loop = req[r].loop /\ q.at \notin {"entry", "imported"}
    BY <1>2 DEF LocalOK, ArgsOK
  <2> HIDE DEF q
  <2> QED BY <1>1, <1>2, <2>1, <2>2, NoImport
<1> QED BY <1>1, <1>3, ImportsDone DEF MoveCheck

LEMMA StarterIdImports ==
  ASSUME IInv, ImportsOK, NEW r \in Requests, StarterId(r)
  PROVE  ImportsOK'
<1>1. req[r].at = "starterId" /\ ~At(r, "idle") /\ ForItsUser(r) /\ file' = file
  BY ReadForItsUser DEF StarterId, At, tables, IInv
<1>2. LocalOK(req[r], categories, made, feeds) /\ req[r].loop # "entry"
  BY <1>1 DEF IInv, LocalsOK, ImportsOK, LoopOK, ImportStages, Adding
<1>3. ASSUME NEW c, req' = [req EXCEPT ![r].at = "existing", ![r].cat = c]
      PROVE  ImportsOK'
  <2> DEFINE q == [req[r] EXCEPT !.at = "existing", !.cat = c]
  <2>1. req' = [req EXCEPT ![r] = q]
    BY <1>3 DEF IInv, LocalsOK
  <2>2. q.user = req[r].user /\ q.loop = req[r].loop /\ q.at \notin {"entry", "imported"}
    BY <1>2 DEF LocalOK, ArgsOK
  <2> HIDE DEF q
  <2> QED BY <1>1, <1>2, <2>1, <2>2, NoImport
<1> QED BY <1>1, <1>3, ImportsDone DEF StarterId

\* A new category touches nobody's subscriptions.
LEMMA NewForItsUser ==
  ASSUME TablesOK, UNCHANGED subscriptions, NEW x, made < MaxCategories,
         categories' = With(categories, made + 1, x)
  PROVE  \A u : Untouched(u)
<1>1. made + 1 \notin DOMAIN categories
  BY DEF TablesOK, TypeOK, Ids
<1>2. \A c \in DOMAIN categories : c \in DOMAIN categories' /\ categories'[c] = categories[c]
  BY <1>1 DEF With
<1> QED BY <1>2, Untouching DEF SubscriptionsOf, Owned

LEMMA StarterEntryImports ==
  ASSUME IInv, ImportsOK, NEW r \in Requests, NEW e, StarterEntry(r, e)
  PROVE  ImportsOK'
<1> DEFINE q == [req[r] EXCEPT !.at = "starterId", !.todo = @ \ {e}, !.url = e.url, !.name = e.name]
<1>1. req[r].at = "starter" /\ ~At(r, "idle") /\ file' = file /\ UNCHANGED subscriptions
  BY DEF StarterEntry, At
<1>2. LocalOK(req[r], categories, made, feeds) /\ req[r].loop # "entry"
  BY <1>1 DEF IInv, LocalsOK, ImportsOK, LoopOK, ImportStages, Adding
<1>3. \A u : Untouched(u)
  BY <1>1, ReadForItsUser, NewForItsUser DEF StarterEntry, IInv
<1>4. req' = [req EXCEPT ![r] = q]
  BY DEF StarterEntry, IInv, LocalsOK
<1>5. q.user = req[r].user /\ q.loop = req[r].loop /\ q.at \notin {"entry", "imported"}
  BY <1>2 DEF LocalOK, ArgsOK
<1> HIDE DEF q
<1> QED BY <1>1, <1>2, <1>3, <1>4, <1>5, NoImport DEF ForItsUser

LEMMA CreateInsertImports ==
  ASSUME IInv, ImportsOK, NEW r \in Requests, CreateInsert(r)
  PROVE  ImportsOK'
<1>1. ~At(r, "idle") /\ file' = file /\ UNCHANGED subscriptions /\ Done(r)
  BY DEF CreateInsert, At, Insert, Done
<1>2. \A u : Untouched(u)
  BY <1>1, ReadForItsUser, NewForItsUser DEF CreateInsert, Insert, IInv
<1> QED BY <1>1, <1>2, ImportsDone DEF ForItsUser

\* resolve_or_create_category gives the entry a category of its name.
LEMMA ResolveInsertImports ==
  ASSUME IInv, ImportsOK, NEW r \in Requests, ResolveInsert(r)
  PROVE  ImportsOK'
<1> DEFINE q == [req[r] EXCEPT !.at = "existing", !.cat = made + 1]
<1>1. req[r].at = "resolve" /\ ~At(r, "idle") /\ file' = file /\ UNCHANGED subscriptions
  BY DEF ResolveInsert, At
<1>2. LocalOK(req[r], categories, made, feeds)
  BY DEF IInv, LocalsOK
<1>3. \A v : Untouched(v)
  BY <1>1, ReadForItsUser, NewForItsUser DEF ResolveInsert, Insert, IInv
<1> PICK u : u = req[r].user
  OBVIOUS
<1>4. CASE Exactly(u, req[r].name) = {}
  <2>1. /\ categories' = With(categories, made + 1, [user |-> u, name |-> req[r].name])
        /\ req' = [req EXCEPT ![r] = q]
    BY <1>4 DEF ResolveInsert, Insert, IInv, LocalsOK
  <2>2. made + 1 \in DOMAIN categories' /\ categories'[made + 1].name = req[r].name
    BY <2>1 DEF With
  <2>3. /\ q.at = "existing" /\ q.cat = made + 1 /\ q.user = u /\ q.loop = req[r].loop
        /\ q.name = req[r].name /\ q.url = req[r].url /\ q.todo = req[r].todo /\ q.all = req[r].all
        /\ q.alone = req[r].alone
    BY <1>2 DEF LocalOK, ArgsOK
  <2>4. ASSUME ImportsAlone(q)
        PROVE  ImportsAlone(req[r]) /\ ImportOK(q, Entries(u)', categories')
    <3>1. ImportsAlone(req[r]) /\ ImportOK(req[r], Entries(u), categories)
      BY <2>3, <2>4 DEF ImportsAlone, ImportsOK
    <3>2. ImportOK(req[r], Entries(u)', categories)
      BY <1>3, <3>1 DEF Untouched
    <3> HIDE DEF q
    <3>3. ImportOK(q, Entries(u)', categories')
      BY <1>1, <2>2, <2>3, <3>2 DEF ImportOK, Adding
    <3> QED BY <3>1, <3>3
  <2>5. LoopOK(q)
    BY <2>3 DEF LoopOK, ImportStages, Adding
  <2> HIDE DEF q
  <2> QED BY <1>1, <1>3, <2>1, <2>3, <2>4, <2>5, ImportsStep DEF ForItsUser
<1>5. CASE Exactly(u, req[r].name) # {}
  BY <1>1, <1>3, <1>5, ImportsDone DEF ResolveInsert, Insert, ForItsUser
<1> QED BY <1>4, <1>5

\* A stage of an import, or of a subscription by other means.
LEMMA StageImports ==
  ASSUME IInv, ImportsOK, NEW r \in Requests, NEW u, u = req[r].user,
         NEW q, req' = [req EXCEPT ![r] = q], ~At(r, "idle"),
         q.user = u, q.loop = req[r].loop, q.alone = req[r].alone, q.at \in ImportStages,
         q.at \in {"entry", "imported"} => req[r].loop = "entry",
         ImportOK(req[r], Entries(u), categories) => ImportOK(q, Entries(u)', categories'),
         ForItsUser(r), file' = file
  PROVE  ImportsOK'
<1>1. ImportsAlone(q) => ImportsAlone(req[r]) /\ ImportOK(q, Entries(u)', categories')
  BY DEF ImportsAlone, ImportsOK
<1> QED BY <1>1, ImportsStep DEF LoopOK

\* An import p has taken its entry e, and is q now.
Took(q, p, e) ==
  /\ q.user = p.user /\ q.loop = p.loop /\ q.alone = p.alone /\ q.all = p.all
  /\ q.todo = p.todo \ {e} /\ q.url = e.url /\ q.name = e.name

LEMMA TookImports ==
  ASSUME IInv, ImportsOK, NEW r \in Requests, NEW e \in req[r].todo, req[r].at = "entry",
         NEW q, req' = [req EXCEPT ![r] = q], Took(q, req[r], e),
         q.at = "resolve" \/ (q.at = "existing" /\ q.cat \in Like(q.user, e.name)),
         UNCHANGED <<categories, subscriptions, file>>
  PROVE  ImportsOK'
<1>1. ~At(r, "idle") /\ q.user = req[r].user /\ q.loop = req[r].loop /\ q.alone = req[r].alone
  BY DEF At, Took
<1>2. ForItsUser(r) /\ \A v : Untouched(v)
  BY ReadForItsUser DEF IInv
<1> PICK u : u = req[r].user
  OBVIOUS
<1>3. ASSUME ImportOK(req[r], Entries(u), categories)
      PROVE  ImportOK(q, Entries(u)', categories')
  <2>1. ImportOK(q, Entries(u), categories)
    BY <1>3 DEF Took, ImportOK, Adding, Like, Owned
  <2> QED BY <1>2, <2>1 DEF Untouched
<1>4. q.at \in ImportStages
  BY DEF ImportStages, Adding
<1> QED BY <1>1, <1>2, <1>3, <1>4, StageImports

LEMMA ImportEntryImports ==
  ASSUME IInv, ImportsOK, NEW r \in Requests, NEW e \in req[r].todo, ImportEntry(r, e)
  PROVE  ImportsOK'
<1>1. req[r].at = "entry" /\ UNCHANGED <<categories, subscriptions, file>>
  BY DEF ImportEntry, At, tables
<1>2. LocalOK(req[r], categories, made, feeds)
  BY DEF IInv, LocalsOK
<1> DEFINE next == [req[r] EXCEPT !.todo = @ \ {e}, !.url = e.url, !.name = e.name]
<1>3. ASSUME NEW c \in Like(req[r].user, e.name),
             req' = [req EXCEPT ![r] = [next EXCEPT !.at = "existing", !.cat = c]]
      PROVE  ImportsOK'
  <2> DEFINE q == [next EXCEPT !.at = "existing", !.cat = c]
  <2>1. q.at = "existing" /\ q.cat = c /\ q.user = req[r].user /\ Took(q, req[r], e)
    BY <1>2 DEF LocalOK, ArgsOK, Took
  <2>2. req' = [req EXCEPT ![r] = q]
    BY <1>3
  <2> HIDE DEF q
  <2> QED BY <1>1, <2>1, <2>2, TookImports
<1>4. ASSUME req' = [req EXCEPT ![r] = [next EXCEPT !.at = "resolve"]]
      PROVE  ImportsOK'
  <2> DEFINE q == [next EXCEPT !.at = "resolve"]
  <2>1. q.at = "resolve" /\ Took(q, req[r], e)
    BY <1>2 DEF LocalOK, ArgsOK, Took
  <2>2. req' = [req EXCEPT ![r] = q]
    BY <1>4
  <2> HIDE DEF q
  <2> QED BY <1>1, <2>1, <2>2, TookImports
<1> QED BY <1>3, <1>4 DEF ImportEntry

LEMMA ImportEndsImports ==
  ASSUME IInv, ImportsOK, NEW r \in Requests, ImportEnds(r)
  PROVE  ImportsOK'
<1> DEFINE q == [req[r] EXCEPT !.at = "imported"]
<1>1. /\ req[r].at = "entry" /\ ~At(r, "idle") /\ file' = file /\ UNCHANGED <<categories, subscriptions>>
      /\ req[r].todo = {}
  BY DEF ImportEnds, At, tables
<1>2. LocalOK(req[r], categories, made, feeds)
  BY DEF IInv, LocalsOK
<1>3. ForItsUser(r) /\ \A v : Untouched(v)
  BY <1>1, ReadForItsUser DEF IInv
<1> PICK u : u = req[r].user
  OBVIOUS
<1>4. /\ q.at = "imported" /\ q.user = u /\ q.loop = req[r].loop /\ q.alone = req[r].alone
      /\ q.all = req[r].all /\ q.todo = {}
  BY <1>1, <1>2 DEF LocalOK, ArgsOK
<1>5. req' = [req EXCEPT ![r] = q]
  BY DEF ImportEnds, GoOn, IInv, LocalsOK
<1> HIDE DEF q
<1>6. ASSUME ImportOK(req[r], Entries(u), categories)
      PROVE  ImportOK(q, Entries(u)', categories')
  <2>1. ImportOK(q, Entries(u), categories)
    BY <1>1, <1>4, <1>6 DEF ImportOK, Adding
  <2> QED BY <1>1, <1>3, <2>1 DEF Untouched
<1>7. q.at \in ImportStages /\ req[r].loop = "entry"
  BY <1>1, <1>4 DEF ImportStages, ImportsOK, LoopOK
<1> QED BY <1>1, <1>3, <1>4, <1>5, <1>6, <1>7, StageImports

\* After an entry, that of the import too.
LEMMA TreatedImports ==
  ASSUME IInv, ImportsOK, NEW r \in Requests, NEW u, u = req[r].user, req[r].at \in Adding,
         Treated(r), ForItsUser(r), file' = file,
         ImportOK(req[r], Entries(u), categories) =>
           ImportOK([req[r] EXCEPT !.at = "entry"], Entries(u)', categories')
  PROVE  ImportsOK'
<1> DEFINE q == [req[r] EXCEPT !.at = req[r].loop]
<1>1. LocalOK(req[r], categories, made, feeds) /\ ~At(r, "idle")
  BY DEF IInv, LocalsOK, At, Adding
<1>2. CASE req[r].loop = "none"
  BY <1>1, <1>2, ImportsDone DEF Treated
<1>3. CASE req[r].loop # "none"
  <2>1. req' = [req EXCEPT ![r] = q]
    BY <1>3 DEF Treated, GoOn, IInv, LocalsOK
  <2>2. q.at = req[r].loop /\ q.user = u /\ q.loop = req[r].loop /\ q.alone = req[r].alone
    BY <1>1 DEF LocalOK, ArgsOK
  <2>3. CASE req[r].loop = "entry"
    <3>1. ImportOK(req[r], Entries(u), categories) => ImportOK(q, Entries(u)', categories')
      BY <2>3
    <3>2. q.at \in ImportStages
      BY <2>2, <2>3 DEF ImportStages
    <3> HIDE DEF q
    <3> QED BY <1>1, <2>1, <2>2, <2>3, <3>1, <3>2, StageImports
  <2>4. CASE req[r].loop # "entry"
    <3>1. q.at \notin {"entry", "imported"}
      BY <1>1, <2>2, <2>4 DEF LocalOK, ArgsOK
    <3> HIDE DEF q
    <3> QED BY <3>1, <1>1, <2>1, <2>2, <2>4, NoImport
  <2> QED BY <2>3, <2>4
<1> QED BY <1>2, <1>3

LEMMA ExistingImports ==
  ASSUME IInv, ImportsOK, NEW r \in Requests, Existing(r)
  PROVE  ImportsOK'
<1>1. req[r].at = "existing" /\ ~At(r, "idle") /\ file' = file /\ UNCHANGED <<categories, subscriptions>>
  BY DEF Existing, At, tables
<1>2. LocalOK(req[r], categories, made, feeds)
  BY DEF IInv, LocalsOK
<1>3. ForItsUser(r) /\ \A v : Untouched(v)
  BY <1>1, ReadForItsUser DEF IInv
<1> PICK u : u = req[r].user
  OBVIOUS
<1>4. CASE Subscribed(u, req[r].url)
  <2> DEFINE q == [req[r] EXCEPT !.at = "entry"]
  <2>1. \E f \in Entries(u) : Source(f.url) = Source(req[r].url)
    <3>1. PICK v \in Variants(req[r].url) : <<u, v>> \in DOMAIN subscriptions
      BY <1>4 DEF Subscribed
    <3>2. [url |-> v, name |-> categories[subscriptions[<<u, v>>]].name] \in Entries(u)
      BY <3>1 DEF Entries
    <3> QED BY <3>1, <3>2 DEF Variants
  <2>2. q.at = "entry" /\ q.todo = req[r].todo /\ q.all = req[r].all
    BY <1>2 DEF LocalOK, ArgsOK
  <2>3. ASSUME ImportOK(req[r], Entries(u), categories)
        PROVE  ImportOK(q, Entries(u)', categories')
    <3> HIDE DEF q
    <3>1. ImportOK(q, Entries(u), categories)
      BY <1>1, <2>1, <2>2, <2>3 DEF ImportOK, Adding
    <3> QED BY <1>1, <1>3, <3>1 DEF Untouched
  <2>4. Treated(r)
    BY <1>4 DEF Existing
  <2> QED BY <1>1, <1>3, <2>3, <2>4, TreatedImports DEF Adding
<1>5. CASE ~Subscribed(u, req[r].url)
  <2> DEFINE q == [req[r] EXCEPT !.at = "feed"]
  <2>1. req' = [req EXCEPT ![r] = q]
    BY <1>5 DEF Existing, GoOn, IInv, LocalsOK
  <2>2. /\ q.at = "feed" /\ q.user = u /\ q.loop = req[r].loop /\ q.alone = req[r].alone
        /\ q.todo = req[r].todo /\ q.all = req[r].all /\ q.url = req[r].url /\ q.name = req[r].name
        /\ q.cat = req[r].cat
    BY <1>2 DEF LocalOK, ArgsOK
  <2> HIDE DEF q
  <2>3. ASSUME ImportOK(req[r], Entries(u), categories)
        PROVE  ImportOK(q, Entries(u)', categories')
    <3>1. ImportOK(q, Entries(u), categories)
      BY <1>1, <2>2, <2>3 DEF ImportOK, Adding
    <3> QED BY <1>1, <1>3, <3>1 DEF Untouched
  <2>4. q.at \in ImportStages
    BY <2>2 DEF ImportStages, Adding
  <2> QED BY <1>1, <1>3, <2>1, <2>2, <2>3, <2>4, StageImports
<1> QED BY <1>4, <1>5

\* The next stage of adding a feed, by a URL of the same source.
LEMMA AddingOn ==
  ASSUME IInv, ImportsOK, NEW r \in Requests, req[r].at \in Adding,
         NEW at \in Adding, NEW url, Source(url) = Source(req[r].url),
         req' = [req EXCEPT ![r] = [req[r] EXCEPT !.at = at, !.url = url]],
         UNCHANGED <<categories, subscriptions, file>>
  PROVE  ImportsOK'
<1> DEFINE q == [req[r] EXCEPT !.at = at, !.url = url]
<1>1. LocalOK(req[r], categories, made, feeds) /\ ~At(r, "idle")
  BY DEF IInv, LocalsOK, At, Adding
<1>2. ForItsUser(r) /\ \A v : Untouched(v)
  BY ReadForItsUser DEF IInv
<1> PICK u : u = req[r].user
  OBVIOUS
<1>3. /\ q.at = at /\ q.user = u /\ q.loop = req[r].loop /\ q.alone = req[r].alone
      /\ q.todo = req[r].todo /\ q.all = req[r].all /\ q.url = url /\ q.name = req[r].name
      /\ q.cat = req[r].cat
  BY <1>1 DEF LocalOK, ArgsOK
<1>4. req' = [req EXCEPT ![r] = q]
  OBVIOUS
<1> HIDE DEF q
<1>5. ASSUME ImportOK(req[r], Entries(u), categories)
      PROVE  ImportOK(q, Entries(u)', categories')
  <2>1. ImportOK(q, Entries(u), categories)
    BY <1>3, <1>5 DEF ImportOK, Adding
  <2> QED BY <1>2, <2>1 DEF Untouched
<1>6. q.at \in ImportStages /\ q.at \notin {"entry", "imported"}
  BY <1>3 DEF ImportStages, Adding
<1> QED BY <1>1, <1>2, <1>3, <1>4, <1>5, <1>6, StageImports

LEMMA FindFeedImports ==
  ASSUME IInv, ImportsOK, NEW r \in Requests, FindFeed(r)
  PROVE  ImportsOK'
<1>1. req[r].at = "feed" /\ UNCHANGED <<categories, subscriptions, file>>
  BY DEF FindFeed, At, tables
<1>2. ASSUME NEW v \in Variants(req[r].url), req' = [req EXCEPT ![r].at = "add", ![r].url = v]
      PROVE  ImportsOK'
  <2>1. Source(v) = Source(req[r].url)
    BY DEF Variants
  <2>2. req' = [req EXCEPT ![r] = [req[r] EXCEPT !.at = "add", !.url = v]]
    BY <1>2 DEF IInv, LocalsOK
  <2>3. req[r].at \in Adding /\ "add" \in Adding
    BY <1>1 DEF Adding
  <2> QED BY <1>1, <2>1, <2>2, <2>3, AddingOn
<1>3. ASSUME GoOn(r, "newFeed")
      PROVE  ImportsOK'
  <2>1. LocalOK(req[r], categories, made, feeds)
    BY DEF IInv, LocalsOK
  <2>2. [req[r] EXCEPT !.at = "newFeed"] = [req[r] EXCEPT !.at = "newFeed", !.url = req[r].url]
    BY <2>1 DEF LocalOK, ArgsOK
  <2>3. req' = [req EXCEPT ![r] = [req[r] EXCEPT !.at = "newFeed"]]
    BY <1>3 DEF GoOn, IInv, LocalsOK
  <2>4. req[r].at \in Adding /\ "newFeed" \in Adding
    BY <1>1 DEF Adding
  <2> QED BY <1>1, <2>2, <2>3, <2>4, AddingOn
<1> QED BY <1>2, <1>3 DEF FindFeed

LEMMA InsertFeedImports ==
  ASSUME IInv, ImportsOK, NEW r \in Requests, InsertFeed(r)
  PROVE  ImportsOK'
<1>1. req[r].at = "newFeed" /\ ~At(r, "idle") /\ UNCHANGED <<categories, subscriptions, file>>
  BY DEF InsertFeed, At, tables
<1>2. ASSUME GoOn(r, "add")
      PROVE  ImportsOK'
  <2>1. LocalOK(req[r], categories, made, feeds)
    BY DEF IInv, LocalsOK
  <2>2. [req[r] EXCEPT !.at = "add"] = [req[r] EXCEPT !.at = "add", !.url = req[r].url]
    BY <2>1 DEF LocalOK, ArgsOK
  <2>3. req' = [req EXCEPT ![r] = [req[r] EXCEPT !.at = "add"]]
    BY <1>2 DEF GoOn, IInv, LocalsOK
  <2>4. req[r].at \in Adding /\ "add" \in Adding
    BY <1>1 DEF Adding
  <2> QED BY <1>1, <2>2, <2>3, <2>4, AddingOn
<1>3. ForItsUser(r)
  BY <1>1, ReadForItsUser DEF IInv
<1> QED BY <1>1, <1>2, <1>3, ImportsDone DEF InsertFeed

\* The entry that is added has the source and the category that the file says.
LEMMA AddSubscriptionImports ==
  ASSUME IInv, ImportsOK, NEW r \in Requests, AddSubscription(r)
  PROVE  ImportsOK'
<1> PICK u : u = req[r].user
  OBVIOUS
<1> DEFINE key == <<u, req[r].url>>  c == req[r].cat
           f == [url |-> req[r].url, name |-> categories[c].name]
<1>1. req[r].at = "add" /\ ~At(r, "idle") /\ UNCHANGED <<categories, file>>
  BY DEF AddSubscription, At
<1>2. LocalOK(req[r], categories, made, feeds)
  BY DEF IInv, LocalsOK
<1>3. CASE subscriptions' = subscriptions /\ Done(r)
  <2>1. ForItsUser(r)
    BY <1>1, <1>3, ReadForItsUser DEF IInv
  <2> QED BY <1>1, <1>3, <2>1, ImportsDone
<1>4. CASE /\ key \notin DOMAIN subscriptions /\ IsThere(c)
           /\ subscriptions' = With(subscriptions, key, c) /\ Treated(r)
  <2>1. /\ DOMAIN subscriptions' = DOMAIN subscriptions \cup {key} /\ subscriptions'[key] = c
        /\ \A k \in DOMAIN subscriptions : subscriptions'[k] = subscriptions[k]
    BY <1>4 DEF With
  <2>2. ForItsUser(r)
    <3> SUFFICES ASSUME NEW v \in Users \ {u} PROVE Untouched(v)
      BY DEF ForItsUser
    <3>1. SubscriptionsOf(v)' = SubscriptionsOf(v)
      BY <2>1 DEF SubscriptionsOf
    <3>2. \A k \in SubscriptionsOf(v) : subscriptions'[k] = subscriptions[k]
      BY <2>1 DEF SubscriptionsOf
    <3> QED BY <1>1, <3>1, <3>2, Untouching DEF IInv, Owned
  <2>3. Entries(u)' = Entries(u) \cup {f}
    <3>1. SubscriptionsOf(u)' = SubscriptionsOf(u) \cup {key}
      BY <2>1 DEF SubscriptionsOf
    <3>2. Entries(u) = {[url |-> k[2], name |-> categories[subscriptions[k]].name] : k \in SubscriptionsOf(u)}
      BY DEF Entries, SubscriptionsOf
    <3>3. Entries(u)' = {[url |-> k[2], name |-> categories[subscriptions'[k]].name] : k \in SubscriptionsOf(u)'}
      BY <1>1 DEF Entries, SubscriptionsOf
    <3>4. \A k \in SubscriptionsOf(u) : subscriptions'[k] = subscriptions[k]
      BY <2>1 DEF SubscriptionsOf
    <3>5. [url |-> key[2], name |-> categories[subscriptions'[key]].name] = f
      BY <2>1
    <3> HIDE DEF key, f
    <3> QED BY <3>1, <3>2, <3>3, <3>4, <3>5
  <2> DEFINE q == [req[r] EXCEPT !.at = "entry"]
  <2>4. q.at = "entry" /\ q.todo = req[r].todo /\ q.all = req[r].all
    BY <1>2 DEF LocalOK, ArgsOK
  <2>5. ASSUME ImportOK(req[r], Entries(u), categories)
        PROVE  ImportOK(q, Entries(u)', categories')
    <3>1. f.url = req[r].url /\ f.name = categories[c].name
      OBVIOUS
    <3>2. \E g \in req[r].all : Source(g.url) = Source(f.url) /\ Fold(g.was) = Fold(f.name)
      <4>1. PICK g \in req[r].all : Source(g.url) = Source(req[r].url) /\ g.name = req[r].name
        BY <1>1, <2>5 DEF ImportOK, Adding
      <4>2. g.was = g.name /\ Fold(categories[c].name) = Fold(req[r].name)
        BY <1>1, <2>5 DEF ImportOK, Adding
      <4> QED BY <3>1, <4>1, <4>2
    <3> HIDE DEF q, f, key
    <3>3. /\ q.todo \subseteq q.all /\ \A e \in q.all : e.was = e.name
          /\ \A h \in Entries(u) \cup {f} : \E g \in q.all :
               Source(g.url) = Source(h.url) /\ Fold(g.was) = Fold(h.name)
      BY <2>4, <2>5, <3>2 DEF ImportOK
    <3>4. \A e \in q.all \ q.todo : \E h \in Entries(u) \cup {f} : Source(h.url) = Source(e.url)
      BY <2>4, <2>5, <3>1 DEF ImportOK
    <3> QED BY <2>3, <2>4, <3>3, <3>4 DEF ImportOK, Adding
  <2> QED BY <1>1, <1>4, <2>2, <2>5, TreatedImports DEF Adding
<1> QED BY <1>3, <1>4 DEF AddSubscription

LEMMA RenameWriteImports ==
  ASSUME IInv, ImportsOK, NEW r \in Requests, RenameWrite(r)
  PROVE  ImportsOK'
<1>1. ~At(r, "idle") /\ UNCHANGED <<subscriptions, file>> /\ Done(r)
  BY DEF RenameWrite, At
<1>2. ForItsUser(r)
  <2> SUFFICES ASSUME NEW v \in Users \ {req[r].user} PROVE Untouched(v)
    BY DEF ForItsUser
  <2>1. req[r].cat \notin Owned(v)
    BY DEF RenameWrite, At, Owned, IInv, LocalsOK, LocalOK, KnowsOK, Held
  <2>2. \A d \in Owned(v) : d \in DOMAIN categories' /\ categories'[d] = categories[d]
    BY <2>1 DEF RenameWrite, Owned, IInv, TablesOK, TypeOK
  <2> QED BY <1>1, <2>2, Untouching DEF SubscriptionsOf, IInv
<1> QED BY <1>1, <1>2, ImportsDone

LEMMA DeleteCategoryImports ==
  ASSUME IInv, ImportsOK, NEW r \in Requests, DeleteCategory(r)
  PROVE  ImportsOK'
<1>1. ~At(r, "idle") /\ file' = file /\ Done(r)
  BY DEF DeleteCategory, At
<1>2. ForItsUser(r)
  <2> SUFFICES ASSUME NEW v \in Users \ {req[r].user} PROVE Untouched(v)
    BY DEF ForItsUser
  <2>1. req[r].cat \notin Owned(v)
    BY DEF DeleteCategory, At, Owned, IInv, LocalsOK, LocalOK, KnowsOK, Held
  <2>2. \A d \in Owned(v) : d \in DOMAIN categories' /\ categories'[d] = categories[d]
    BY <2>1 DEF DeleteCategory, Without, Owned
  <2>3. /\ DOMAIN subscriptions' = DOMAIN subscriptions
        /\ \A k \in SubscriptionsOf(v) : subscriptions'[k] = subscriptions[k]
    BY DEF DeleteCategory, Reassign, SubscriptionsOf
  <2> QED BY <2>2, <2>3, Untouching DEF SubscriptionsOf, IInv
<1> QED BY <1>1, <1>2, ImportsDone

LEMMA MoveWriteImports ==
  ASSUME IInv, ImportsOK, NEW r \in Requests, MoveWrite(r)
  PROVE  ImportsOK'
<1>1. ~At(r, "idle") /\ UNCHANGED <<categories, file>> /\ Done(r)
  BY DEF MoveWrite, At
<1>2. ForItsUser(r)
  <2> SUFFICES ASSUME NEW v \in Users \ {req[r].user} PROVE Untouched(v)
    BY DEF ForItsUser
  <2>1. /\ DOMAIN subscriptions' = DOMAIN subscriptions
        /\ \A k \in SubscriptionsOf(v) : subscriptions'[k] = subscriptions[k]
    BY DEF MoveWrite, SubscriptionsOf
  <2> QED BY <1>1, <2>1, Untouching DEF SubscriptionsOf, Owned, IInv
<1> QED BY <1>1, <1>2, ImportsDone

LEMMA UnsubscribeImports ==
  ASSUME IInv, ImportsOK, NEW r \in Requests, NEW url, Unsubscribe(r, url)
  PROVE  ImportsOK'
<1>1. ~At(r, "idle") /\ UNCHANGED <<categories, file>> /\ Done(r)
  BY DEF Unsubscribe, At
<1>2. ForItsUser(r)
  <2> SUFFICES ASSUME NEW v \in Users \ {req[r].user} PROVE Untouched(v)
    BY DEF ForItsUser
  <2>1. /\ DOMAIN subscriptions' = DOMAIN subscriptions \ {<<req[r].user, url>>}
        /\ \A k \in DOMAIN subscriptions' : subscriptions'[k] = subscriptions[k]
    BY DEF Unsubscribe, Without
  <2>2. SubscriptionsOf(v)' = SubscriptionsOf(v)
    BY <2>1 DEF SubscriptionsOf
  <2>3. \A k \in SubscriptionsOf(v) : subscriptions'[k] = subscriptions[k]
    BY <2>1, <2>2 DEF SubscriptionsOf
  <2> QED BY <1>1, <2>2, <2>3, Untouching DEF Owned, IInv
<1> QED BY <1>1, <1>2, ImportsDone

LEMMA StopImports ==
  ASSUME IInv, ImportsOK, NEW r \in Requests, Stop(r)
  PROVE  ImportsOK'
<1>1. ForItsUser(r)
  BY ReadForItsUser DEF Stop, tables, IInv
<1> QED BY <1>1, ImportsDone DEF Stop

\* A request that begins ends that its user's other requests are alone.
LEMMA BeginImports ==
  ASSUME IInv, ImportsOK, NEW r \in Requests, NEW u \in Users, NEW at, NEW all,
         at # "idle", at # "imported", at \notin Adding \cup {"resolve"},
         at = "entry" => all # {} /\ \A e \in all : e.was = e.name,
         Begin(r, u, at, all)
  PROVE  ImportsOK'
<1> DEFINE b == ~Busy(u) /\ Entries(u) = {}
           loop == IF all = {} THEN "none" ELSE at
           new == [Idle EXCEPT !.at = at, !.user = u, !.todo = all, !.all = all,
                               !.loop = loop, !.alone = b]
<1>1. /\ UNCHANGED <<categories, subscriptions, file>> /\ req'[r] = new
      /\ \A q \in Requests \ {r} :
           req'[q] = [req[q] EXCEPT !.alone = req[q].alone /\ req[q].user # u]
  BY DEF Begin, tables
<1>2. /\ new.at = at /\ new.user = u /\ new.todo = all /\ new.all = all /\ new.loop = loop
      /\ new.alone = b
  BY DEF Idle
<1> HIDE DEF new
<1>3. ASSUME NEW q \in Requests \ {r}
      PROVE  /\ req'[q].at = req[q].at /\ req'[q].user = req[q].user /\ req'[q].loop = req[q].loop
             /\ req'[q].todo = req[q].todo /\ req'[q].all = req[q].all /\ req'[q].url = req[q].url
             /\ req'[q].name = req[q].name /\ req'[q].cat = req[q].cat
             /\ (req'[q].alone => req[q].alone /\ req[q].user # u)
  <2>1. LocalOK(req[q], categories, made, feeds)
    BY DEF IInv, LocalsOK
  <2> DEFINE c == req[q].alone /\ req[q].user # u
  <2>2. req'[q] = [req[q] EXCEPT !.alone = c]
    BY <1>1
  <2> HIDE DEF c
  <2>3. req'[q].alone = c
    BY <2>1, <2>2 DEF LocalOK, ArgsOK
  <2>4. req'[q].alone => req[q].alone /\ req[q].user # u
    BY <2>3 DEF c
  <2> QED BY <2>1, <2>2, <2>4 DEF LocalOK, ArgsOK
<1>4. \A v : Untouched(v)
  BY <1>1, ReadForItsUser DEF IInv
<1>5. \A s \in Requests : LoopOK(req'[s])
  BY <1>2, <1>1, <1>3 DEF ImportsOK, LoopOK, ImportStages
<1>6. ASSUME NEW s \in Requests, ImportsAlone(req'[s]), NEW v, v = req'[s].user
      PROVE  /\ ImportOK(req'[s], Entries(v)', categories')
             /\ \A t \in Requests \ {s} : req'[t].at = "idle" \/ req'[t].user # v
  <2>1. CASE s = r
    <3>1. loop = "entry" /\ b /\ v = u
      BY <1>1, <1>2, <1>6, <2>1 DEF ImportsAlone
    <3>2. at = "entry" /\ (\A e \in all : e.was = e.name) /\ ~Busy(u) /\ Entries(u) = {}
      BY <3>1
    <3>3. Entries(u)' = {}
      BY <1>4, <3>2 DEF Untouched
    <3>4. ImportOK(new, Entries(u)', categories')
      BY <1>2, <3>2, <3>3 DEF ImportOK, Adding
    <3>5. \A t \in Requests \ {r} : req'[t].at = "idle" \/ req'[t].user # u
      BY <1>3, <3>2 DEF Busy, At
    <3> QED BY <1>1, <2>1, <3>1, <3>4, <3>5
  <2>2. CASE s # r
    <3>1. ImportsAlone(req[s]) /\ v = req[s].user /\ v # u /\ req[s].at # "idle"
      BY <1>3, <1>6, <2>2 DEF ImportsAlone, ImportsOK, LoopOK, ImportStages, Adding
    <3>2. ImportOK(req[s], Entries(v), categories)
      BY <3>1 DEF ImportsOK
    <3>3. ImportOK(req[s], Entries(v)', categories')
      BY <1>4, <3>1, <3>2, ImportStays
    <3>4. ImportOK(req'[s], Entries(v)', categories')
      BY <1>3, <2>2, <3>3 DEF ImportOK
    <3>5. \A t \in Requests \ {s} : req[t].at = "idle" \/ req[t].user # v
      BY <3>1 DEF ImportsOK, At
    <3>6. \A t \in Requests \ {s} : req'[t].at = "idle" \/ req'[t].user # v
      BY <1>1, <1>2, <1>3, <3>1, <3>5
    <3> QED BY <3>4, <3>6
  <2> QED BY <2>1, <2>2
<1>7. ASSUME NEW s \in Requests, ImportsAlone(req'[s])
      PROVE  /\ ImportOK(req[s], Entries(req[s].user), categories)'
             /\ \A t \in Requests \ {s} : At(t, "idle")' \/ req'[t].user # req'[s].user
  BY <1>6, <1>7 DEF At
<1> QED BY <1>1, <1>5, <1>7 DEF ImportsOK

LEMMA ExportImports ==
  ASSUME IInv, ImportsOK, NEW u \in Users, Export(u)
  PROVE  ImportsOK'
<1>1. \A e \in file' : e.was = e.name
  BY DEF Export, Outlines
<1>2. UNCHANGED <<categories, subscriptions, req>>
  BY DEF Export, tables
<1>3. \A v : Entries(v)' = Entries(v)
  BY <1>2 DEF Entries
<1>4. ASSUME NEW s \in Requests, ImportsAlone(req'[s]), NEW v, v = req[s].user
      PROVE  ImportOK(req[s], Entries(v)', categories')
  <2>1. ImportOK(req[s], Entries(v), categories)
    BY <1>2, <1>4 DEF ImportsOK
  <2> QED BY <1>2, <1>3, <2>1
<1>5. \A s \in Requests : ImportsAlone(req'[s]) => ImportOK(req[s], Entries(req[s].user), categories)'
  BY <1>2, <1>4
<1> QED BY <1>1, <1>2, <1>5 DEF ImportsOK, At

LEMMA InitImports == Init => ImportsOK
BY DEF Init, ImportsOK, LoopOK, ImportsAlone, Idle

LEMMA NextImports == IInv /\ ImportsOK /\ [Next]_vars => ImportsOK'
<1> SUFFICES ASSUME IInv, ImportsOK, [Next]_vars PROVE ImportsOK'
  OBVIOUS
<1>1. CASE UNCHANGED vars
  <2>1. UNCHANGED <<categories, subscriptions, file, req>>
    BY <1>1 DEF vars, tables
  <2>2. \A v : Entries(v)' = Entries(v)
    BY <2>1 DEF Entries
  <2>3. ASSUME NEW s \in Requests, ImportsAlone(req[s]), NEW v, v = req[s].user
        PROVE  ImportOK(req[s], Entries(v)', categories')
    <3>1. ImportOK(req[s], Entries(v), categories)
      BY <2>3 DEF ImportsOK
    <3> QED BY <2>1, <2>2, <3>1
  <2>4. \A s \in Requests : ImportsAlone(req[s]) => ImportOK(req[s], Entries(req[s].user), categories)'
    BY <2>1, <2>3
  <2> QED BY <2>1, <2>4 DEF ImportsOK, At
<1>2. ASSUME NEW u \in Users, Export(u)
      PROVE  ImportsOK'
  BY <1>2, ExportImports
<1>3. ASSUME NEW r \in Requests, NEW u \in Users, NEW at \in Handlers, Begin(r, u, at, {})
      PROVE  ImportsOK'
  BY <1>3, BeginImports DEF Handlers, Adding
<1>4. ASSUME NEW r \in Requests, NEW u \in Users, file # {}, Begin(r, u, "entry", file)
      PROVE  ImportsOK'
  BY <1>4, BeginImports DEF ImportsOK, Adding
<1>5. ASSUME NEW r \in Requests, NEW u \in Users, Begin(r, u, "starter", Starter)
      PROVE  ImportsOK'
  BY <1>5, BeginImports DEF Adding
<1>6. ASSUME NEW r \in Requests, CreateInsert(r) \/ ResolveInsert(r)
      PROVE  ImportsOK'
  BY <1>6, CreateInsertImports, ResolveInsertImports
<1>7. ASSUME NEW r \in Requests, NEW name \in Names,
             CreateCheck(r, name) \/ \E c \in Ids : RenameRead(r, c, name)
      PROVE  ImportsOK'
  BY <1>7, CreateCheckImports, RenameReadImports
<1>8. ASSUME NEW r \in Requests, RenameClash(r) \/ RenameWrite(r) \/ DeleteCategory(r)
      PROVE  ImportsOK'
  BY <1>8, RenameClashImports, RenameWriteImports, DeleteCategoryImports
<1>9. ASSUME NEW r \in Requests, NEW c \in Ids,
             DeleteRead(r, c) \/ \E url \in Urls : SubscribeCategory(r, c, url) \/ MoveCheck(r, c, url)
      PROVE  ImportsOK'
  BY <1>9, DeleteReadImports, SubscribeCategoryImports, MoveCheckImports
<1>10. ASSUME NEW r \in Requests,
              Existing(r) \/ FindFeed(r) \/ InsertFeed(r) \/ AddSubscription(r) \/ MoveWrite(r)
       PROVE  ImportsOK'
  BY <1>10, ExistingImports, FindFeedImports, InsertFeedImports, AddSubscriptionImports,
     MoveWriteImports
<1>11. ASSUME NEW r \in Requests, NEW url \in Urls, Unsubscribe(r, url)
       PROVE  ImportsOK'
  BY <1>11, UnsubscribeImports
<1>12. ASSUME NEW r \in Requests, NEW e \in req[r].todo, ImportEntry(r, e) \/ StarterEntry(r, e)
       PROVE  ImportsOK'
  BY <1>12, ImportEntryImports, StarterEntryImports
<1>13. ASSUME NEW r \in Requests, StarterId(r) \/ ImportEnds(r) \/ Stop(r)
       PROVE  ImportsOK'
  BY <1>13, StarterIdImports, ImportEndsImports, StopImports
<1> QED BY <1>1, <1>2, <1>3, <1>4, <1>5, <1>6, <1>7, <1>8, <1>9, <1>10, <1>11, <1>12, <1>13
        DEF Next

LEMMA ImportsLossless == ImportsOK => Lossless
<1> SUFFICES ASSUME ImportsOK, NEW r \in Requests, At(r, "imported"), req[r].alone,
                    NEW e \in req[r].all
             PROVE  \E f \in Entries(req[r].user), g \in req[r].all :
                      /\ Source(e.url) = Source(f.url) /\ Source(e.url) = Source(g.url)
                      /\ Fold(g.was) = Fold(f.name)
  BY DEF Lossless
<1>1. ImportOK(req[r], Entries(req[r].user), categories) /\ req[r].at = "imported"
  BY DEF ImportsOK, LoopOK, ImportsAlone, At
<1>2. PICK f \in Entries(req[r].user) : Source(f.url) = Source(e.url)
  BY <1>1 DEF ImportOK, Adding
<1>3. PICK g \in req[r].all : Source(g.url) = Source(f.url) /\ Fold(g.was) = Fold(f.name)
  BY <1>1, <1>2 DEF ImportOK
<1> QED BY <1>2, <1>3

\* A backup of subscriptions that is imported into an empty account is there
\* in full, each feed in a category of its name, whatever others do meanwhile.
THEOREM RoundTrip == Spec => []Lossless
<1> QED BY InitImports, NextImports, ImportsLossless, Inductive, PTL DEF Spec
=============================================================================
