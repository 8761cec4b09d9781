-------------------------------- MODULE OAuth --------------------------------
(***************************************************************************)
(* Connected accounts (oauth/mod.rs, routes/oauth.rs): linking an account  *)
(* of a provider, and syncing its subscriptions into feeds beside users    *)
(* who add feeds by hand (routes/feeds.rs).                                *)
(*                                                                         *)
(* A flow is its opaque `state' value, numbered as issued; the refresh     *)
(* token that a provider gives for a flow is named by the flow.  What the  *)
(* providers answer is left open.  Left out: labels and scopes, titles,    *)
(* the variants of a feed's URL and the making of categories (Categories), *)
(* the deletion of accounts (Accounts), whether a provider is configured,  *)
(* and the scheduler's use of a Reddit connection.                         *)
(***************************************************************************)
EXTENDS Naturals, Sequences

CONSTANTS
  Users,
  Providers,     \* youtube and reddit
  Feeds,         \* feed URLs
  ProviderOf(_), \* the provider whose subscriptions map to a URL
  Requests,      \* requests that may be served together
  MaxFlows,      \* bound: flows begun
  MaxRequests    \* bound: requests served, authorize and disconnect aside

ASSUME LimitsAssumption == MaxFlows \in Nat /\ MaxRequests \in Nat
ASSUME SomeAssumption == Providers # {} /\ Feeds # {}

VARIABLES
  begun,          \* user and provider of each flow ever begun
  states,         \* OAuthStates: the pending flows, none past STATE_TTL
  user_oauth,     \* token of each connection, by user and provider, and if synced
  dropped,        \* flows whose connection was replaced or disconnected
  categories,     \* categories by user and name, "Other" or one of his own
  next_fetch_at,  \* of each row of feeds: "now" or "later"
  byHand,         \* URLs that somebody has set out to add by hand
  subscriptions,  \* category of each subscription, by user and URL
  req,            \* locals of each request
  served          \* requests served

links == <<begun, states, user_oauth, dropped>>
content == <<categories, next_fetch_at, byHand, subscriptions>>
vars == <<links, content, req, served>>

Flows == 1..Len(begun)
CategoryNames == {"Other", "Own"}

\* `todo' of `all' that was fetched; `left' were unsubscribed meanwhile; `polled'
\* tells that the feed added by hand was polled meanwhile.
Idle == [at |-> "idle", user |-> 0, provider |-> CHOOSE p \in Providers : TRUE,
         flow |-> 0, cat |-> "Other", url |-> CHOOSE f \in Feeds : TRUE,
         all |-> {}, todo |-> {}, left |-> {}, polled |-> FALSE, hand |-> FALSE]

With(f, x, y) == [z \in DOMAIN f \cup {x} |-> IF z = x THEN y ELSE f[z]]
Without(f, x) == [z \in DOMAIN f \ {x} |-> f[z]]

At(r, at) == req[r].at = at
Done(r) == req' = [req EXCEPT ![r] = Idle]
GoOn(r, at) == req' = [req EXCEPT ![r].at = at]
Key(r) == <<req[r].user, req[r].provider>>

Subscribed(r, f) == <<req[r].user, f>> \in DOMAIN subscriptions

\* A request is accepted; it goes on as `local' says.
Begin(r, local) ==
  /\ At(r, "idle") /\ served < MaxRequests
  /\ served' = served + 1
  /\ req' = [req EXCEPT ![r] = local]

----------------------------------------------------------------------------
(* Linking an account.                                                     *)

\* issue, and authorize.
Issued == states \cup {Len(begun) + 1}

Authorize(u, p) ==
  /\ Len(begun) < MaxFlows
  /\ begun' = Append(begun, [user |-> u, provider |-> p])
  /\ states' = Issued
  /\ UNCHANGED <<user_oauth, dropped, content, req, served>>

\* STATE_TTL passes: take refuses the state, and the next issue forgets it.
Expire(f) ==
  /\ f \in states
  /\ states' = states \ {f}
  /\ UNCHANGED <<begun, user_oauth, dropped, content, req, served>>

\* take.  Fault: the state stays until it is too old.
TakenByTTL(f) == states
Taken(f) == states \ {f}

\* callback: it has no session, and is loaded as often as the browser likes.
CallbackTake(r, f, p) ==
  LET ours == f \in states /\ begun[f].provider = p IN
  /\ Begin(r, IF ours THEN [Idle EXCEPT !.at = "exchange", !.user = begun[f].user,
                                        !.provider = p, !.flow = f]
              ELSE Idle)
  /\ states' = Taken(f)
  /\ UNCHANGED <<begun, user_oauth, dropped, content>>

\* What is there for the key of a request, and save_connection: the time of
\* the last sync stays that of the old connection.
Exchanged(r) == req[r].flow  \* exchange_code
Old(r) == {user_oauth[k] : k \in DOMAIN user_oauth \cap {Key(r)}}
Connected(r) ==
  With(user_oauth, Key(r), [token |-> Exchanged(r), synced |-> \E c \in Old(r) : c.synced])

\* callback when the provider has answered exchange_code.
CallbackSave(r) ==
  /\ At(r, "exchange")
  /\ user_oauth' = Connected(r)
  /\ dropped' = dropped \cup {c.token : c \in Old(r)}
  /\ Done(r)
  /\ UNCHANGED <<begun, states, content, served>>

\* disconnect
Disconnect(u, p) ==
  /\ <<u, p>> \in DOMAIN user_oauth
  /\ dropped' = dropped \cup {user_oauth[<<u, p>>].token}
  /\ user_oauth' = Without(user_oauth, <<u, p>>)
  /\ UNCHANGED <<begun, states, content, req, served>>

----------------------------------------------------------------------------
(* Syncing, and adding a feed by hand.                                     *)

\* load_refresh_token
Linked(u, p) == <<u, p>> \in DOMAIN user_oauth

SyncLoad(r, u, p) ==
  /\ Begin(r, IF Linked(u, p)
              THEN [Idle EXCEPT !.at = "category", !.user = u, !.provider = p]
              ELSE Idle)
  /\ UNCHANGED <<links, content>>

\* resolve_category
SyncCategory(r, c) ==
  /\ At(r, "category")
  /\ IF <<req[r].user, c>> \in categories
     THEN req' = [req EXCEPT ![r].at = "fetch", ![r].cat = c] ELSE Done(r)
  /\ UNCHANGED <<links, content, served>>

\* fetch_subscriptions: every page, or the sync fails.
Listed(p) == {f \in Feeds : ProviderOf(f) = p}

SyncFetch(r) ==
  /\ At(r, "fetch")
  /\ \E S \in SUBSET Listed(req[r].provider) :
       req' = [req EXCEPT ![r].at = "entry", ![r].all = S, ![r].todo = S]
  /\ UNCHANGED <<links, content, served>>

\* reconcile: the next subscription, skipped by subscribe_url if it is there.
SyncNext(r, f) ==
  /\ At(r, "entry") /\ f \in req[r].todo
  /\ req' = [req EXCEPT ![r].at = IF Subscribed(r, f) THEN "entry" ELSE "feed",
                        ![r].todo = @ \ {f}, ![r].url = f]
  /\ UNCHANGED <<links, content, served>>

\* touch_synced: of no row when the account was disconnected meanwhile.
SyncTouch(r) ==
  /\ At(r, "entry") /\ req[r].todo = {}
  /\ user_oauth' = [k \in DOMAIN user_oauth |->
                      [user_oauth[k] EXCEPT !.synced = @ \/ k = Key(r)]]
  /\ GoOn(r, "answered")
  /\ UNCHANGED <<begun, states, dropped, content, served>>

\* subscribe: require_category
ByHand(r, u, f, c) ==
  /\ Begin(r, IF <<u, c>> \in categories
              THEN [Idle EXCEPT !.at = "existing", !.user = u, !.cat = c, !.url = f, !.hand = TRUE]
              ELSE Idle)
  /\ byHand' = byHand \cup {f}
  /\ UNCHANGED <<links, categories, next_fetch_at, subscriptions>>

Existing(r) ==
  /\ At(r, "existing")
  /\ IF Subscribed(r, req[r].url) THEN Done(r) ELSE GoOn(r, "feed")
  /\ UNCHANGED <<links, content, served>>

\* upsert_feed: the lookup, then the INSERT, which UNIQUE may refuse.
FindFeed(r) ==
  /\ At(r, "feed")
  /\ GoOn(r, IF req[r].url \in DOMAIN next_fetch_at THEN "add" ELSE "newFeed")
  /\ UNCHANGED <<links, content, served>>

\* default_next_fetch_at lies in the future.
FirstFetch(r) == IF req[r].hand THEN "now" ELSE "later"

InsertFeed(r) ==
  /\ At(r, "newFeed")
  /\ IF req[r].url \in DOMAIN next_fetch_at
     THEN next_fetch_at' = next_fetch_at /\ Done(r)
     ELSE next_fetch_at' = With(next_fetch_at, req[r].url, FirstFetch(r)) /\ GoOn(r, "add")
  /\ UNCHANGED <<links, categories, byHand, subscriptions, served>>

\* The INSERT is refused: subscribe fails, and reconcile ends where it is.
\* Fault: reconcile takes it for a subscription that is there.
RefusedIsThere(r) == IF req[r].hand THEN Done(r) ELSE GoOn(r, "entry")
Refused(r) == Done(r)

AddSubscription(r) ==
  LET key == <<req[r].user, req[r].url>> IN
  /\ At(r, "add")
  /\ IF key \notin DOMAIN subscriptions /\ <<req[r].user, req[r].cat>> \in categories
     THEN /\ subscriptions' = With(subscriptions, key, req[r].cat)
          /\ GoOn(r, IF req[r].hand THEN "markDue" ELSE "entry")
     ELSE subscriptions' = subscriptions /\ Refused(r)
  /\ UNCHANGED <<links, categories, next_fetch_at, byHand, served>>

\* mark_due.  Fault: a new row of feeds is due anyhow.
DueAsCreated(f) == next_fetch_at
MarkedDue(f) == [next_fetch_at EXCEPT ![f] = "now"]

MarkDue(r) ==
  /\ At(r, "markDue")
  /\ next_fetch_at' = MarkedDue(req[r].url)
  /\ GoOn(r, "answered")
  /\ UNCHANGED <<links, categories, byHand, subscriptions, served>>

\* unsubscribe, and delete_category with its transaction.
Unsubscribe(u, f) ==
  /\ <<u, f>> \in DOMAIN subscriptions
  /\ subscriptions' = Without(subscriptions, <<u, f>>)
  /\ req' = [r \in Requests |-> IF req[r].user = u /\ f \in req[r].all
                                THEN [req[r] EXCEPT !.left = @ \cup {f}] ELSE req[r]]
  /\ UNCHANGED <<links, categories, next_fetch_at, byHand, served>>

DeleteCategory(u) ==
  /\ <<u, "Own">> \in categories
  /\ categories' = categories \ {<<u, "Own">>}
  /\ subscriptions' = [k \in DOMAIN subscriptions |->
                         IF k[1] = u THEN "Other" ELSE subscriptions[k]]
  /\ UNCHANGED <<links, next_fetch_at, byHand, req, served>>

\* The scheduler claims a feed whose time has come, and polls it.
PollClaim(f) ==
  /\ f \in DOMAIN next_fetch_at
  /\ next_fetch_at' = [next_fetch_at EXCEPT ![f] = "later"]
  /\ req' = [r \in Requests |-> IF req[r].hand /\ req[r].url = f
                                THEN [req[r] EXCEPT !.polled = TRUE] ELSE req[r]]
  /\ UNCHANGED <<links, categories, byHand, subscriptions, served>>

----------------------------------------------------------------------------
(* The specification.                                                      *)

\* The answer is sent, or a call to a provider or a statement has failed.
Stop(r) ==
  /\ ~At(r, "idle") /\ Done(r)
  /\ UNCHANGED <<links, content, served>>

\* The pending states are held in memory.
Restart ==
  /\ states' = {} /\ req' = [r \in Requests |-> Idle]
  /\ UNCHANGED <<begun, user_oauth, dropped, content, served>>

Init ==
  /\ begun = <<>> /\ states = {} /\ user_oauth = <<>> /\ dropped = {}
  /\ categories = Users \X CategoryNames
  /\ next_fetch_at = <<>> /\ byHand = {} /\ subscriptions = <<>>
  /\ req = [r \in Requests |-> Idle] /\ served = 0

Next ==
  \/ \E u \in Users, p \in Providers : Authorize(u, p) \/ Disconnect(u, p)
  \/ \E f \in Flows : Expire(f)
  \/ \E r \in Requests :
       \/ \E f \in Flows, p \in Providers : CallbackTake(r, f, p)
       \/ CallbackSave(r)
       \/ \E u \in Users, p \in Providers : SyncLoad(r, u, p)
       \/ \E c \in CategoryNames : SyncCategory(r, c)
       \/ SyncFetch(r) \/ SyncTouch(r)
       \/ \E f \in Feeds : SyncNext(r, f)
       \/ \E u \in Users, f \in Feeds, c \in CategoryNames : ByHand(r, u, f, c)
       \/ Existing(r) \/ FindFeed(r) \/ InsertFeed(r) \/ AddSubscription(r) \/ MarkDue(r)
       \/ Stop(r)
  \/ \E u \in Users : DeleteCategory(u) \/ \E f \in Feeds : Unsubscribe(u, f)
  \/ \E f \in Feeds : PollClaim(f)
  \/ Restart

Spec == Init /\ [][Next]_vars

----------------------------------------------------------------------------
(* Properties.                                                             *)

\* A connection is its user's wish: its token comes from a flow that he began
\* for that provider, and a flow never links again once he has disconnected or
\* replaced what it linked, however often its callback is loaded and whatever
\* was forgotten by a restart.
ConnectionsAreWanted ==
  \A k \in DOMAIN user_oauth :
    LET t == user_oauth[k].token IN
    /\ begun[t] = [user |-> k[1], provider |-> k[2]]
    /\ t \notin dropped

\* A sync that answers has the user subscribed to everything the provider
\* listed, except what he unsubscribed meanwhile: a category that was deleted
\* or another request that was faster ends it with an error instead.
SyncKeepsItsWord ==
  \A r \in Requests : At(r, "answered") /\ ~req[r].hand =>
    \A f \in req[r].all \ req[r].left : Subscribed(r, f)

\* Only a feed that somebody adds by hand is due at once; it is, or was polled
\* meanwhile, even when a sync created it between the request's statements.
HandAddedIsDue ==
  /\ \A f \in DOMAIN next_fetch_at : next_fetch_at[f] = "now" => f \in byHand
  /\ \A r \in Requests : At(r, "answered") /\ req[r].hand =>
       next_fetch_at[req[r].url] = "now" \/ req[r].polled
=============================================================================
