---------------------------- MODULE OAuth_proofs ----------------------------
(***************************************************************************)
(* For all users, providers, feeds and requests: a connection is the wish  *)
(* of its user, and an answer of a sync, or of a request that adds a feed  *)
(* by hand, is true.                                                       *)
(*                                                                         *)
(* Connections.  The argument follows a flow.  It is pending, then held by *)
(* one callback, then the token of one connection, then dropped, and never *)
(* goes back: take hands it to a single callback, which keeps the user and *)
(* provider that began it, so what the callback saves is neither another   *)
(* user's nor something that was dropped before.                           *)
(*                                                                         *)
(* Answers.  AnswersOK follows a request through its statements, with what *)
(* others do to the same rows between them.                                *)
(***************************************************************************)
EXTENDS OAuth, TLAPS

Stages ==
  {"idle", "exchange", "category", "fetch", "entry", "existing", "feed", "newFeed",
   "add", "markDue", "answered"}

Locals ==
  [at : Stages, user : Users \cup {0}, provider : Providers, flow : Nat,
   cat : CategoryNames, url : Feeds, all : SUBSET Feeds, todo : SUBSET Feeds,
   left : SUBSET Feeds, polled : BOOLEAN, hand : BOOLEAN]

Connections == [token : Nat, synced : BOOLEAN]

Held(r) == At(r, "exchange")
Began(f, u, p) == f \in Flows /\ begun[f] = [user |-> u, provider |-> p]

BegunOK == begun \in Seq([user : Users, provider : Providers])
LocalsOK == req \in [Requests -> Locals]

\* A flow is in one place: pending, with a callback, connected or dropped.
PendingApart ==
  /\ states \subseteq Flows /\ dropped \subseteq Flows
  /\ states \cap dropped = {}
HeldApart ==
  \A r \in Requests : Held(r) =>
    /\ Began(req[r].flow, req[r].user, req[r].provider)
    /\ req[r].flow \notin states \cup dropped
    /\ \A s \in Requests : Held(s) /\ req[s].flow = req[r].flow => s = r
    /\ \A k \in DOMAIN user_oauth : user_oauth[k].token # req[r].flow
ConnectedApart ==
  \A k \in DOMAIN user_oauth :
    /\ k = <<k[1], k[2]>> /\ user_oauth[k] \in Connections
    /\ Began(user_oauth[k].token, k[1], k[2])
    /\ user_oauth[k].token \notin states \cup dropped

IInv == BegunOK /\ LocalsOK /\ PendingApart /\ HeldApart /\ ConnectedApart

\* A step that moves no flow; a sync may note that it is done.
FlowsStay ==
  /\ UNCHANGED <<begun, states, dropped>> /\ DOMAIN user_oauth' = DOMAIN user_oauth
  /\ \A k \in DOMAIN user_oauth :
       user_oauth'[k] \in Connections /\ user_oauth'[k].token = user_oauth[k].token

----------------------------------------------------------------------------
\* The locals of a request that waits are of their type.
LEMMA IdleIsLocals == Idle \in Locals
<1>1. (CHOOSE p \in Providers : TRUE) \in Providers
  BY SomeAssumption DEF SomeAssumption
<1>2. (CHOOSE f \in Feeds : TRUE) \in Feeds
  BY SomeAssumption DEF SomeAssumption
<1> DEFINE p == CHOOSE x \in Providers : TRUE
           f == CHOOSE x \in Feeds : TRUE
<1>3. /\ p \in Providers /\ f \in Feeds
      /\ Idle = [at |-> "idle", user |-> 0, provider |-> p, flow |-> 0, cat |-> "Other",
                 url |-> f, all |-> {}, todo |-> {}, left |-> {},
                 polled |-> FALSE, hand |-> FALSE]
  BY <1>1, <1>2, Zenon DEF Idle
<1> HIDE DEF p, f
<1> QED BY <1>3 DEF Locals, Stages, CategoryNames

LEMMA InitIInv == Init => IInv
<1> SUFFICES ASSUME Init PROVE IInv
  OBVIOUS
<1>1. BegunOK /\ PendingApart /\ ConnectedApart
  BY DEF Init, BegunOK, PendingApart, ConnectedApart, Flows
<1>2. LocalsOK
  BY IdleIsLocals DEF Init, LocalsOK
<1>3. HeldApart
  BY DEF Init, HeldApart, Held, At, Idle
<1> QED BY <1>1, <1>2, <1>3 DEF IInv

LEMMA LinksStay ==
  ASSUME IInv, UNCHANGED links
  PROVE  FlowsStay
BY DEF IInv, ConnectedApart, FlowsStay, links

\* A step that leaves the flows alone, and in which no callback takes one,
\* keeps every flow where it is.
LEMMA Elsewhere ==
  ASSUME IInv, FlowsStay, LocalsOK',
         \A r \in Requests : Held(r)' => Held(r) /\ req'[r].flow = req[r].flow
                               /\ req'[r].user = req[r].user
                               /\ req'[r].provider = req[r].provider
  PROVE  IInv'
<1>1. BegunOK' /\ PendingApart'
  BY DEF IInv, BegunOK, PendingApart, Flows, FlowsStay
<1>2. HeldApart'
  BY DEF IInv, HeldApart, Began, Flows, FlowsStay
<1>3. ConnectedApart'
  BY DEF IInv, ConnectedApart, Began, Flows, FlowsStay
<1> QED BY <1>1, <1>2, <1>3 DEF IInv

\* One request moves on, to wherever but the exchange; flows stay.
LEMMA MovesOn ==
  ASSUME IInv, FlowsStay,
         NEW r \in Requests, NEW local \in Locals, local.at # "exchange",
         req' = [req EXCEPT ![r] = local]
  PROVE  IInv'
<1>1. LocalsOK'
  BY DEF IInv, LocalsOK
<1>2. ASSUME NEW s \in Requests, Held(s)'
      PROVE  s # r /\ req'[s] = req[s] /\ Held(s)
  BY <1>2 DEF IInv, LocalsOK, Held, At
<1> QED BY <1>1, <1>2, Elsewhere

\* The same for the three ways the handlers write it.
LEMMA DoneMovesOn ==
  ASSUME IInv, FlowsStay,
         NEW r \in Requests, Done(r)
  PROVE  IInv'
<1>1. Idle.at # "exchange"
  BY DEF Idle
<1> QED BY <1>1, IdleIsLocals, MovesOn DEF Done

LEMMA GoOnMovesOn ==
  ASSUME IInv, FlowsStay,
         NEW r \in Requests, NEW at \in Stages, at # "exchange", GoOn(r, at)
  PROVE  IInv'
<1> DEFINE local == [req[r] EXCEPT !.at = at]
<1>1. local \in Locals /\ local.at # "exchange"
  BY DEF IInv, LocalsOK, Locals
<1>2. req' = [req EXCEPT ![r] = local]
  BY DEF GoOn
<1> HIDE DEF local
<1> QED BY <1>1, <1>2, MovesOn

LEMMA BeginMovesOn ==
  ASSUME IInv, FlowsStay,
         NEW r \in Requests, NEW local \in Locals, local.at # "exchange", Begin(r, local)
  PROVE  IInv'
BY MovesOn DEF Begin

----------------------------------------------------------------------------
(* The steps that move a flow.                                             *)

\* A new flow is where no other one is.
LEMMA AuthorizeKeeps ==
  ASSUME IInv, NEW u \in Users, NEW p \in Providers, Authorize(u, p)
  PROVE  IInv'
<1> USE DEF IInv
<1>1. /\ BegunOK'
      /\ Len(begun') = Len(begun) + 1 /\ Len(begun) \in Nat
      /\ \A f \in Flows : begun'[f] = begun[f]
  BY DEF Authorize, BegunOK, Flows
<1>2. UNCHANGED <<user_oauth, dropped, req>> /\ states' = states \cup {Len(begun) + 1}
  BY DEF Authorize, Issued
<1>3. Flows \subseteq Flows' /\ Len(begun) + 1 \in Flows' /\ Len(begun) + 1 \notin Flows
  BY <1>1 DEF Flows
<1>4. PendingApart'
  BY <1>2, <1>3 DEF PendingApart
<1>5. ASSUME NEW f, NEW v, NEW q, Began(f, v, q)
      PROVE  Began(f, v, q)' /\ f # Len(begun) + 1
  BY <1>1, <1>3, <1>5 DEF Began
<1>6. HeldApart'
  BY <1>2, <1>5 DEF HeldApart, Held, At
<1>7. ConnectedApart'
  BY <1>2, <1>5 DEF ConnectedApart
<1> QED BY <1>1, <1>2, <1>4, <1>6, <1>7 DEF LocalsOK

\* A flow that is forgotten is nowhere.
LEMMA ExpireKeeps ==
  ASSUME IInv, NEW f \in Flows, Expire(f)
  PROVE  IInv'
BY DEF IInv, Expire, BegunOK, LocalsOK, PendingApart, HeldApart, ConnectedApart,
       Held, At, Began, Flows

\* take hands a flow to the one callback that found it pending.
LEMMA CallbackTakeKeeps ==
  ASSUME IInv, NEW r \in Requests, NEW f \in Flows, NEW p \in Providers,
         CallbackTake(r, f, p)
  PROVE  IInv'
<1>2. begun[f] \in [user : Users, provider : Providers] /\ f \in Nat
  <2> DEFINE S == [user : Users, provider : Providers]
  <2>1. begun \in Seq(S) /\ f \in 1..Len(begun)
    BY DEF IInv, BegunOK, Flows
  <2> HIDE DEF S
  <2>2. begun[f] \in S /\ f \in Nat
    BY <2>1
  <2> QED BY <2>2 DEF S
<1> DEFINE ours == f \in states /\ begun[f].provider = p
           local == [Idle EXCEPT !.at = "exchange", !.user = begun[f].user,
                                 !.provider = p, !.flow = f]
<1>1. UNCHANGED <<begun, user_oauth, dropped>> /\ states' = states \ {f}
  BY DEF CallbackTake, Taken
<1>3. CASE ~ours
  <2>1. req' = [req EXCEPT ![r] = Idle]
    BY <1>3 DEF CallbackTake, Begin
  <2>2. Idle \in Locals /\ Idle.at = "idle"
    BY IdleIsLocals DEF Idle
  <2>3. LocalsOK' /\ \A s \in Requests : Held(s)' => Held(s) /\ req'[s] = req[s]
    BY <2>1, <2>2 DEF IInv, LocalsOK, Held, At
  <2> QED
    BY <1>1, <2>3 DEF IInv, BegunOK, PendingApart, HeldApart, ConnectedApart, Began, Flows
<1>4. CASE ours
  <2>1. req' = [req EXCEPT ![r] = local]
    BY <1>4 DEF CallbackTake, Begin
  <2>2. /\ local \in Locals /\ local.at = "exchange" /\ local.flow = f
        /\ Began(f, local.user, local.provider)
    <3>1. begun[f].user \in Users
      BY <1>2
    <3>2. begun[f] = [user |-> begun[f].user, provider |-> p]
      BY <1>2, <1>4
    <3> QED BY <1>2, <1>4, <3>1, <3>2, IdleIsLocals DEF Locals, Stages, Began
  <2> HIDE DEF local
  <2>3. /\ LocalsOK' /\ req'[r] = local
        /\ \A s \in Requests \ {r} : req'[s] = req[s]
    BY <2>1, <2>2 DEF IInv, LocalsOK
  <2>4. \A s \in Requests : Held(s) => req[s].flow # f
    BY <1>4 DEF IInv, HeldApart
  <2>5. (\A k \in DOMAIN user_oauth : user_oauth[k].token # f) /\ f \notin dropped
    BY <1>4 DEF IInv, PendingApart, ConnectedApart
  <2>6. HeldApart'
    BY <1>1, <2>2, <2>3, <2>4, <2>5 DEF IInv, HeldApart, Held, At, Began, Flows
  <2> QED
    BY <1>1, <2>3, <2>6 DEF IInv, BegunOK, PendingApart, ConnectedApart, Began, Flows
<1> QED BY <1>3, <1>4

\* What a callback saves is its own flow; what was there is dropped.
LEMMA CallbackSaveKeeps ==
  ASSUME IInv, NEW r \in Requests, CallbackSave(r)
  PROVE  IInv'
<1> DEFINE key == Key(r)  flow == req[r].flow
<1>1. /\ Held(r) /\ UNCHANGED <<begun, states>> /\ req' = [req EXCEPT ![r] = Idle]
      /\ dropped' = dropped \cup {c.token : c \in Old(r)}
      /\ user_oauth' = Connected(r)
  BY DEF CallbackSave, Held, Done
<1>2. /\ DOMAIN user_oauth' = DOMAIN user_oauth \cup {key}
      /\ user_oauth'[key] = [token |-> flow, synced |-> \E c \in Old(r) : c.synced]
      /\ \A k \in DOMAIN user_oauth \ {key} : user_oauth'[k] = user_oauth[k]
  BY <1>1 DEF Connected, With, Exchanged
<1>3. /\ Began(flow, key[1], key[2]) /\ key = <<key[1], key[2]>>
      /\ flow \notin states \cup dropped
      /\ \A k \in DOMAIN user_oauth : user_oauth[k].token # flow
      /\ \A s \in Requests : Held(s) /\ req[s].flow = flow => s = r
  BY <1>1 DEF IInv, HeldApart, Key
<1>4. \A f \in dropped' : f \in dropped \/ \E k \in DOMAIN user_oauth :
                                             k = key /\ f = user_oauth[k].token
  BY <1>1 DEF Old
<1>5. Idle \in Locals /\ Idle.at = "idle"
  BY IdleIsLocals DEF Idle
<1>6. LocalsOK' /\ \A s \in Requests : Held(s)' => s # r /\ Held(s) /\ req'[s] = req[s]
  BY <1>1, <1>5 DEF IInv, LocalsOK, Held, At
<1> HIDE DEF key, flow
<1>7. PendingApart'
  <2>1. Flows' = Flows /\ states' = states
    BY <1>1 DEF Flows
  <2>2. \A f \in dropped' : f \in Flows /\ f \notin states
    BY <1>4 DEF IInv, PendingApart, ConnectedApart, Began
  <2> QED BY <2>1, <2>2 DEF IInv, PendingApart
<1>8. HeldApart'
  BY <1>1, <1>2, <1>3, <1>4, <1>6 DEF IInv, HeldApart, Began, Flows
<1>9. ConnectedApart'
  <2> SUFFICES ASSUME NEW k \in DOMAIN user_oauth'
               PROVE  /\ k = <<k[1], k[2]>> /\ user_oauth'[k] \in Connections
                      /\ Began(user_oauth'[k].token, k[1], k[2])
                      /\ user_oauth'[k].token \notin states \cup dropped'
    BY <1>1 DEF ConnectedApart, Began, Flows
  <2>1. CASE k = key
    <3>1. user_oauth'[k] \in Connections /\ user_oauth'[k].token = flow
      <4> DEFINE synced == \E c \in Old(r) : c.synced
      <4>1. synced \in BOOLEAN /\ flow \in Nat
        BY <1>3 DEF Began, Flows
      <4>2. user_oauth'[k] = [token |-> flow, synced |-> synced]
        BY <1>2, <2>1
      <4> HIDE DEF synced
      <4> QED BY <4>1, <4>2 DEF Connections
    <3> QED BY <1>3, <1>4, <2>1, <3>1
  <2>2. CASE k # key
    <3>1. /\ k \in DOMAIN user_oauth /\ user_oauth'[k] = user_oauth[k]
          /\ k = <<k[1], k[2]>> /\ Began(user_oauth[k].token, k[1], k[2])
          /\ user_oauth[k] \in Connections
          /\ user_oauth[k].token \notin states \cup dropped
      BY <1>2, <2>2 DEF IInv, ConnectedApart
    <3>2. ASSUME key \in DOMAIN user_oauth, user_oauth[key].token = user_oauth[k].token
          PROVE  FALSE
      BY <2>2, <3>1, <3>2, <1>3 DEF IInv, ConnectedApart, Began
    <3> QED BY <1>4, <3>1, <3>2
  <2> QED BY <2>1, <2>2
<1> QED BY <1>1, <1>6, <1>7, <1>8, <1>9 DEF IInv, BegunOK

\* disconnect
LEMMA DisconnectKeeps ==
  ASSUME IInv, NEW u \in Users, NEW p \in Providers, Disconnect(u, p)
  PROVE  IInv'
<1> DEFINE key == <<u, p>>
<1>1. /\ UNCHANGED <<begun, states, req>> /\ key \in DOMAIN user_oauth
      /\ dropped' = dropped \cup {user_oauth[key].token}
      /\ DOMAIN user_oauth' = DOMAIN user_oauth \ {key}
      /\ \A k \in DOMAIN user_oauth' : user_oauth'[k] = user_oauth[k]
  BY DEF Disconnect, Without
<1> HIDE DEF key
<1>2. PendingApart'
  BY <1>1 DEF IInv, PendingApart, ConnectedApart, Began, Flows
<1>3. HeldApart'
  BY <1>1 DEF IInv, HeldApart, Held, At, Began, Flows
<1>4. ASSUME NEW k \in DOMAIN user_oauth', user_oauth[k].token = user_oauth[key].token
      PROVE  FALSE
  <2>1. /\ k = <<k[1], k[2]>> /\ Began(user_oauth[k].token, k[1], k[2])
        /\ key = <<key[1], key[2]>> /\ Began(user_oauth[key].token, key[1], key[2])
    BY <1>1 DEF IInv, ConnectedApart
  <2> QED BY <1>1, <1>4, <2>1 DEF Began
<1>5. ConnectedApart'
  BY <1>1, <1>4 DEF IInv, ConnectedApart, Began, Flows
<1> QED BY <1>1, <1>2, <1>3, <1>5 DEF IInv, BegunOK, LocalsOK

----------------------------------------------------------------------------
(* The other steps.                                                        *)

\* The list that a sync fetches is its work.
LEMMA FetchedList ==
  ASSUME LocalsOK, NEW r \in Requests, SyncFetch(r)
  PROVE  \E S \in SUBSET Feeds :
           req' = [req EXCEPT ![r] = [req[r] EXCEPT !.at = "entry", !.all = S, !.todo = S]]
<1>1. PICK S \in SUBSET Listed(req[r].provider) :
        req' = [req EXCEPT ![r].at = "entry", ![r].all = S, ![r].todo = S]
  BY DEF SyncFetch
<1>2. S \in SUBSET Feeds
  BY DEF Listed
<1>3. DOMAIN req = Requests
  BY DEF LocalsOK
<1>4. req' = [req EXCEPT ![r] = [req[r] EXCEPT !.at = "entry", !.all = S, !.todo = S]]
  BY <1>1, <1>3
<1> QED BY <1>2, <1>4

LEMMA SyncKeeps ==
  ASSUME IInv, NEW r \in Requests,
         \/ \E u \in Users, p \in Providers : SyncLoad(r, u, p)
         \/ \E c \in CategoryNames : SyncCategory(r, c)
         \/ SyncFetch(r)
         \/ \E f \in Feeds : SyncNext(r, f)
         \/ SyncTouch(r)
  PROVE  IInv'
<1>0. req[r] \in Locals
  BY DEF IInv, LocalsOK
<1>1. ASSUME NEW u \in Users, NEW p \in Providers, SyncLoad(r, u, p)
      PROVE  IInv'
  <2> DEFINE local == [Idle EXCEPT !.at = "category", !.user = u, !.provider = p]
  <2>1. local \in Locals /\ local.at = "category" /\ Idle.at = "idle"
    BY IdleIsLocals DEF Locals, Stages, Idle
  <2>2. UNCHANGED links /\ (Begin(r, local) \/ Begin(r, Idle))
    BY <1>1 DEF SyncLoad
  <2> HIDE DEF local
  <2> QED BY <2>1, <2>2, IdleIsLocals, BeginMovesOn, LinksStay
<1>2. ASSUME NEW c \in CategoryNames, SyncCategory(r, c)
      PROVE  IInv'
  <2> DEFINE local == [req[r] EXCEPT !.at = "fetch", !.cat = c]
  <2>1. local \in Locals /\ local.at = "fetch"
    BY <1>0 DEF Locals, Stages
  <2>2. /\ UNCHANGED links
        /\ req' = [req EXCEPT ![r] = local] \/ Done(r)
    BY <1>2 DEF SyncCategory
  <2> HIDE DEF local
  <2> QED BY <2>1, <2>2, MovesOn, DoneMovesOn, LinksStay
<1>3. ASSUME SyncFetch(r) PROVE IInv'
  <2>1. PICK S \in SUBSET Feeds :
          req' = [req EXCEPT ![r] = [req[r] EXCEPT !.at = "entry", !.all = S, !.todo = S]]
    BY <1>3, FetchedList DEF IInv
  <2> DEFINE local == [req[r] EXCEPT !.at = "entry", !.all = S, !.todo = S]
  <2>2. local \in Locals /\ local.at = "entry"
    BY <1>0 DEF Locals, Stages
  <2>3. UNCHANGED links /\ req' = [req EXCEPT ![r] = local]
    BY <1>3, <2>1 DEF SyncFetch
  <2> HIDE DEF local
  <2> QED BY <2>2, <2>3, MovesOn, LinksStay
<1>4. ASSUME NEW f \in Feeds, SyncNext(r, f) PROVE IInv'
  <2> DEFINE at == IF Subscribed(r, f) THEN "entry" ELSE "feed"
             local == [req[r] EXCEPT !.at = at, !.todo = @ \ {f}, !.url = f]
  <2>1. local \in Locals /\ local.at # "exchange"
    BY <1>0 DEF Locals, Stages
  <2>2. UNCHANGED links /\ req' = [req EXCEPT ![r] = local]
    BY <1>4 DEF SyncNext
  <2> HIDE DEF local
  <2> QED BY <2>1, <2>2, MovesOn, LinksStay
<1>5. ASSUME SyncTouch(r) PROVE IInv'
  <2>1. /\ UNCHANGED <<begun, states, dropped>> /\ GoOn(r, "answered")
        /\ DOMAIN user_oauth' = DOMAIN user_oauth
        /\ \A k \in DOMAIN user_oauth :
             user_oauth'[k] = [user_oauth[k] EXCEPT !.synced = @ \/ k = Key(r)]
    BY <1>5 DEF SyncTouch
  <2>2. FlowsStay
    <3>1. \A k \in DOMAIN user_oauth : user_oauth[k] \in Connections
      BY DEF IInv, ConnectedApart
    <3> QED BY <2>1, <3>1 DEF FlowsStay, Connections
  <2>3. "answered" \in Stages
    BY DEF Stages
  <2> QED BY <2>1, <2>2, <2>3, GoOnMovesOn
<1> QED BY <1>1, <1>2, <1>3, <1>4, <1>5

LEMMA HandKeeps ==
  ASSUME IInv, NEW r \in Requests,
         \/ \E u \in Users, f \in Feeds, c \in CategoryNames : ByHand(r, u, f, c)
         \/ Existing(r) \/ FindFeed(r) \/ InsertFeed(r) \/ AddSubscription(r) \/ MarkDue(r)
         \/ Stop(r)
  PROVE  IInv'
<1>1. ASSUME NEW u \in Users, NEW f \in Feeds, NEW c \in CategoryNames, ByHand(r, u, f, c)
      PROVE  IInv'
  <2> DEFINE local == [Idle EXCEPT !.at = "existing", !.user = u, !.cat = c,
                                   !.url = f, !.hand = TRUE]
  <2>1. local \in Locals /\ local.at = "existing" /\ Idle.at = "idle"
    BY IdleIsLocals DEF Locals, Stages, Idle
  <2>2. UNCHANGED links /\ (Begin(r, local) \/ Begin(r, Idle))
    BY <1>1 DEF ByHand
  <2> HIDE DEF local
  <2> QED BY <2>1, <2>2, IdleIsLocals, BeginMovesOn, LinksStay
<1>2. ASSUME UNCHANGED links, NEW at \in Stages \ {"exchange"}, GoOn(r, at) \/ Done(r)
      PROVE  IInv'
  BY <1>2, LinksStay, GoOnMovesOn, DoneMovesOn
<1>3. {"feed", "add", "newFeed", "entry", "markDue", "answered"} \subseteq Stages \ {"exchange"}
  BY DEF Stages
<1>4. CASE Existing(r)
  BY <1>2, <1>3, <1>4 DEF Existing
<1>5. CASE FindFeed(r)
  BY <1>2, <1>3, <1>5 DEF FindFeed
<1>6. CASE InsertFeed(r)
  BY <1>2, <1>3, <1>6 DEF InsertFeed
<1>7. CASE AddSubscription(r)
  BY <1>2, <1>3, <1>7 DEF AddSubscription, Refused
<1>8. CASE MarkDue(r)
  BY <1>2, <1>3, <1>8 DEF MarkDue
<1>9. CASE Stop(r)
  BY LinksStay, DoneMovesOn, <1>9 DEF Stop
<1> QED BY <1>1, <1>4, <1>5, <1>6, <1>7, <1>8, <1>9

LEMMA OthersKeep ==
  ASSUME IInv,
         \/ \E u \in Users : DeleteCategory(u) \/ \E f \in Feeds : Unsubscribe(u, f)
         \/ \E f \in Feeds : PollClaim(f)
  PROVE  IInv'
<1>0. \A r \in Requests : req[r] \in Locals
  BY DEF IInv, LocalsOK
<1>1. ASSUME NEW u \in Users, DeleteCategory(u) PROVE IInv'
  <2>1. UNCHANGED <<links, req>>
    BY <1>1 DEF DeleteCategory
  <2>2. LocalsOK' /\ \A r \in Requests : Held(r)' => Held(r)
    BY <2>1 DEF IInv, LocalsOK, Held, At
  <2> QED BY <2>1, <2>2, LinksStay, Elsewhere
<1>2. ASSUME NEW u \in Users, NEW f \in Feeds, Unsubscribe(u, f) PROVE IInv'
  <2>1. \A r \in Requests : /\ req[r] \in Locals
                            /\ [req[r] EXCEPT !.left = @ \cup {f}] \in Locals
    BY <1>0 DEF Locals
  <2>2. /\ UNCHANGED links
        /\ req' = [r \in Requests |-> IF req[r].user = u /\ f \in req[r].all
                                      THEN [req[r] EXCEPT !.left = @ \cup {f}] ELSE req[r]]
    BY <1>2 DEF Unsubscribe
  <2>3. LocalsOK'
    BY <2>1, <2>2 DEF LocalsOK
  <2>4. \A r \in Requests : Held(r)' => Held(r) /\ req'[r].flow = req[r].flow
                              /\ req'[r].user = req[r].user
                              /\ req'[r].provider = req[r].provider
    BY <1>0, <2>2 DEF Held, At, Locals
  <2> QED BY <2>2, <2>3, <2>4, LinksStay, Elsewhere
<1>3. ASSUME NEW f \in Feeds, PollClaim(f) PROVE IInv'
  <2>1. \A r \in Requests : [req[r] EXCEPT !.polled = TRUE] \in Locals
    BY <1>0 DEF Locals
  <2>2. /\ UNCHANGED links
        /\ req' = [r \in Requests |-> IF req[r].hand /\ req[r].url = f
                                      THEN [req[r] EXCEPT !.polled = TRUE] ELSE req[r]]
    BY <1>3 DEF PollClaim
  <2>3. LocalsOK'
    BY <1>0, <2>1, <2>2 DEF LocalsOK
  <2>4. \A r \in Requests : Held(r)' => Held(r) /\ req'[r].flow = req[r].flow
                              /\ req'[r].user = req[r].user
                              /\ req'[r].provider = req[r].provider
    BY <1>0, <2>2 DEF Held, At, Locals
  <2> QED BY <2>2, <2>3, <2>4, LinksStay, Elsewhere
<1> QED BY <1>1, <1>2, <1>3

\* What a restart forgets, no callback holds and no state names.
LEMMA RestartKeeps == IInv /\ Restart => IInv'
<1> SUFFICES ASSUME IInv, Restart PROVE IInv'
  OBVIOUS
<1>1. LocalsOK' /\ \A r \in Requests : ~Held(r)'
  <2>1. Idle \in Locals /\ Idle.at = "idle" /\ req' = [r \in Requests |-> Idle]
    BY IdleIsLocals DEF Restart, Idle
  <2> QED BY <2>1 DEF LocalsOK, Held, At
<1>2. states' = {} /\ UNCHANGED <<begun, user_oauth, dropped>>
  BY DEF Restart
<1>3. BegunOK' /\ PendingApart' /\ HeldApart' /\ ConnectedApart'
  BY <1>1, <1>2 DEF IInv, BegunOK, PendingApart, HeldApart, ConnectedApart, Began, Flows
<1> QED BY <1>1, <1>3 DEF IInv

----------------------------------------------------------------------------
(* The theorems.                                                           *)

\* Whatever the requests, providers and restarts do in whichever order, every
\* flow is in one place (OAuthStates.take, callback, save_connection).
THEOREM Inductive == Spec => []IInv
<1>1. IInv /\ [Next]_vars => IInv'
  <2> SUFFICES ASSUME IInv, [Next]_vars PROVE IInv'
    OBVIOUS
  <2>1. CASE UNCHANGED vars
    BY <2>1 DEF vars, links, IInv, BegunOK, LocalsOK, PendingApart, HeldApart,
                ConnectedApart, Held, At, Began, Flows
  <2>2. CASE \E u \in Users, p \in Providers : Authorize(u, p) \/ Disconnect(u, p)
    BY <2>2, AuthorizeKeeps, DisconnectKeeps
  <2>3. CASE \E f \in Flows : Expire(f)
    BY <2>3, ExpireKeeps
  <2>4. CASE \E r \in Requests, f \in Flows, p \in Providers : CallbackTake(r, f, p)
    BY <2>4, CallbackTakeKeeps
  <2>5. CASE \E r \in Requests : CallbackSave(r)
    BY <2>5, CallbackSaveKeeps
  <2>6. CASE \E r \in Requests :
               \/ \E u \in Users, p \in Providers : SyncLoad(r, u, p)
               \/ \E c \in CategoryNames : SyncCategory(r, c)
               \/ SyncFetch(r)
               \/ \E f \in Feeds : SyncNext(r, f)
               \/ SyncTouch(r)
    BY <2>6, SyncKeeps
  <2>7. CASE \E r \in Requests :
               \/ \E u \in Users, f \in Feeds, c \in CategoryNames : ByHand(r, u, f, c)
               \/ Existing(r) \/ FindFeed(r) \/ InsertFeed(r) \/ AddSubscription(r)
               \/ MarkDue(r) \/ Stop(r)
    BY <2>7, HandKeeps
  <2>8. CASE \/ \E u \in Users : DeleteCategory(u) \/ \E f \in Feeds : Unsubscribe(u, f)
             \/ \E f \in Feeds : PollClaim(f)
    BY <2>8, OthersKeep
  <2>9. CASE Restart
    BY <2>9, RestartKeeps
  <2> QED
    BY <2>1, <2>2, <2>3, <2>4, <2>5, <2>6, <2>7, <2>8, <2>9 DEF Next
<1> QED BY InitIInv, <1>1, PTL DEF Spec

\* A connection is its user's wish: it comes from a flow that he began for that
\* provider and that was neither replaced nor disconnected (oauth/mod.rs).
THEOREM ConnectionsWanted == Spec => []ConnectionsAreWanted
<1>1. IInv => ConnectionsAreWanted
  BY DEF IInv, ConnectedApart, Began, ConnectionsAreWanted
<1> QED BY Inductive, <1>1, PTL

----------------------------------------------------------------------------
(* Syncing, and adding by hand.  What a request answers in its last step   *)
(* it has seen to statement by statement: SyncOK says of every entry that  *)
(* a sync has behind it that the user is subscribed or has unsubscribed    *)
(* since, HandOK that the row which a request by hand makes due is there.  *)

SyncStages == {"exchange", "category", "fetch", "entry"}
HandStages == {"existing", "markDue"}

\* Both kinds of request save a subscription by the same three statements.
Saving(r) == req[r].at \in {"feed", "newFeed", "add"}
InHand(r) == IF Saving(r) THEN {req[r].url} ELSE {}
DoneByHand(r) == At(r, "answered") /\ req[r].hand

StageOK(r) ==
  /\ req[r].at \in SyncStages => ~req[r].hand
  /\ req[r].at \in HandStages => req[r].hand
  /\ At(r, "answered") /\ ~req[r].hand => req[r].todo = {}
SyncOK(r) ==
  ~req[r].hand =>
    \A f \in req[r].all \ (req[r].left \cup req[r].todo \cup InHand(r)) : Subscribed(r, f)
HandOK(r) ==
  /\ req[r].hand => req[r].url \in byHand
  /\ req[r].at \in {"add", "markDue"} \/ DoneByHand(r) => req[r].url \in DOMAIN next_fetch_at
  /\ DoneByHand(r) => next_fetch_at[req[r].url] = "now" \/ req[r].polled
RequestOK(r) == StageOK(r) /\ SyncOK(r) /\ HandOK(r)

\* A feed is due at once only if somebody adds it by hand.
FeedsOK ==
  \A f \in DOMAIN next_fetch_at : next_fetch_at[f] = "now" => f \in byHand

AnswersOK == FeedsOK /\ \A r \in Requests : RequestOK(r)

\* Nobody unsubscribes and no feed is polled.
ContentGrows ==
  /\ DOMAIN subscriptions \subseteq DOMAIN subscriptions'
  /\ byHand \subseteq byHand'
  /\ DOMAIN next_fetch_at \subseteq DOMAIN next_fetch_at'
  /\ \A f \in DOMAIN next_fetch_at : next_fetch_at'[f] \in {next_fetch_at[f], "now"}

\* Idle as a record whose provider and URL do not matter.
LEMMA IdleFields ==
  /\ Idle.at = "idle" /\ Idle.all = {} /\ Idle.left = {} /\ Idle.todo = {}
  /\ Idle.hand = FALSE /\ Idle.polled = FALSE
BY DEF Idle

LEMMA InitAnswersOK == Init => AnswersOK
<1> SUFFICES ASSUME Init PROVE AnswersOK
  OBVIOUS
<1>1. FeedsOK
  BY DEF Init, FeedsOK
<1>2. ASSUME NEW r \in Requests PROVE RequestOK(r)
  <2>1. req[r] = Idle
    BY DEF Init
  <2> QED BY <2>1, IdleFields DEF RequestOK, StageOK, SyncOK, HandOK, DoneByHand,
                                  SyncStages, HandStages, At
<1> QED BY <1>1, <1>2 DEF AnswersOK

\* While the tables only grow, what holds of a request that waits goes on to hold.
LEMMA WaitingStays ==
  ASSUME NEW r, RequestOK(r), ContentGrows, req'[r] = req[r]
  PROVE  RequestOK(r)'
<1>1. StageOK(r)' /\ SyncOK(r)'
  BY DEF RequestOK, StageOK, SyncOK, Subscribed, ContentGrows, At, InHand, Saving
<1>2. HandOK(r)'
  BY DEF RequestOK, HandOK, ContentGrows, DoneByHand, At
<1> QED BY <1>1, <1>2 DEF RequestOK

\* One request moves on, and the others wait.
LEMMA OneAnswersOK ==
  ASSUME LocalsOK, AnswersOK, ContentGrows, FeedsOK', NEW r \in Requests, NEW local,
         req' = [req EXCEPT ![r] = local], RequestOK(r)'
  PROVE  AnswersOK'
<1>1. ASSUME NEW s \in Requests \ {r} PROVE RequestOK(s)'
  <2>1. req'[s] = req[s]
    BY DEF LocalsOK
  <2> QED BY <2>1, WaitingStays DEF AnswersOK
<1> QED BY <1>1 DEF AnswersOK

\* What a request has as its locals after it moved on.
LEMMA Moved ==
  ASSUME LocalsOK, NEW r \in Requests, NEW local, req' = [req EXCEPT ![r] = local]
  PROVE  req'[r] = local
BY DEF LocalsOK

\* A request that ends, or is refused at its beginning, answers nothing.
LEMMA EndsOK ==
  ASSUME LocalsOK, AnswersOK, ContentGrows, FeedsOK', NEW r \in Requests, Done(r)
  PROVE  AnswersOK'
<1>1. req' = [req EXCEPT ![r] = Idle] /\ req'[r] = Idle
  BY Moved DEF Done
<1>2. RequestOK(r)'
  BY <1>1, IdleFields DEF RequestOK, StageOK, SyncOK, HandOK, DoneByHand,
                          SyncStages, HandStages, At
<1> QED BY <1>1, <1>2, OneAnswersOK

\* A step that leaves the tables alone, or only the links move.
LEMMA ContentStays ==
  ASSUME AnswersOK, UNCHANGED <<next_fetch_at, byHand, subscriptions>>
  PROVE  ContentGrows /\ FeedsOK'
BY DEF AnswersOK, FeedsOK, ContentGrows

\* A step in which no request moves.
LEMMA NoneMoves ==
  ASSUME AnswersOK, UNCHANGED <<content, req>>
  PROVE  AnswersOK'
<1>1. ContentGrows /\ FeedsOK'
  BY ContentStays DEF content
<1>2. \A r \in Requests : RequestOK(r)'
  BY <1>1, WaitingStays DEF AnswersOK
<1> QED BY <1>1, <1>2 DEF AnswersOK

\* The accounts' steps, of which only the callback is a request.
LEMMA LinkingAnswersOK ==
  ASSUME LocalsOK, AnswersOK,
         \/ \E u \in Users, p \in Providers : Authorize(u, p) \/ Disconnect(u, p)
         \/ \E f \in Flows : Expire(f)
         \/ \E r \in Requests, f \in Flows, p \in Providers : CallbackTake(r, f, p)
         \/ \E r \in Requests : CallbackSave(r)
  PROVE  AnswersOK'
<1>1. CASE \/ \E u \in Users, p \in Providers : Authorize(u, p) \/ Disconnect(u, p)
           \/ \E f \in Flows : Expire(f)
  <2>1. UNCHANGED <<content, req>>
    BY <1>1 DEF Authorize, Disconnect, Expire
  <2> QED BY <2>1, NoneMoves
<1>2. ASSUME NEW r \in Requests, NEW f \in Flows, NEW p \in Providers, CallbackTake(r, f, p)
      PROVE  AnswersOK'
  <2> DEFINE local == [Idle EXCEPT !.at = "exchange", !.user = begun[f].user,
                                   !.provider = p, !.flow = f]
  <2>1. ContentGrows /\ FeedsOK'
    BY <1>2, ContentStays DEF CallbackTake, content
  <2>2. Done(r) \/ req' = [req EXCEPT ![r] = local]
    BY <1>2 DEF CallbackTake, Begin, Done
  <2>3. ASSUME req' = [req EXCEPT ![r] = local] PROVE RequestOK(r)'
    <3>1. local.at = "exchange" /\ local.all = {} /\ local.hand = FALSE
      BY IdleFields DEF Idle
    <3> HIDE DEF local
    <3>2. req'[r] = local
      BY <2>3, Moved
    <3> QED BY <3>1, <3>2 DEF RequestOK, StageOK, SyncOK, HandOK, DoneByHand,
                              SyncStages, HandStages, At
  <2> HIDE DEF local
  <2> QED BY <2>1, <2>2, <2>3, EndsOK, OneAnswersOK
<1>3. ASSUME NEW r \in Requests, CallbackSave(r) PROVE AnswersOK'
  <2>1. ContentGrows /\ FeedsOK' /\ Done(r)
    BY <1>3, ContentStays DEF CallbackSave, content
  <2> QED BY <2>1, EndsOK
<1> QED BY <1>1, <1>2, <1>3

\* The steps of a sync before it saves: an entry that it takes up is in hand, or
\* was skipped because the user is subscribed.
LEMMA SyncAnswersOK ==
  ASSUME LocalsOK, AnswersOK, NEW r \in Requests,
         \/ \E u \in Users, p \in Providers : SyncLoad(r, u, p)
         \/ \E c \in CategoryNames : SyncCategory(r, c)
         \/ SyncFetch(r)
         \/ \E f \in Feeds : SyncNext(r, f)
         \/ SyncTouch(r)
  PROVE  AnswersOK'
<1>0. /\ req[r] \in Locals /\ RequestOK(r)
      /\ ContentGrows /\ FeedsOK' /\ UNCHANGED subscriptions
  BY ContentStays DEF LocalsOK, AnswersOK, SyncLoad, SyncCategory, SyncFetch, SyncNext,
                      SyncTouch, content
<1> USE DEF RequestOK, StageOK, SyncOK, HandOK, DoneByHand, SyncStages, HandStages, At
<1>1. ASSUME NEW u \in Users, NEW p \in Providers, SyncLoad(r, u, p) PROVE AnswersOK'
  <2> DEFINE local == [Idle EXCEPT !.at = "category", !.user = u, !.provider = p]
  <2>1. local.at = "category" /\ local.all = {} /\ local.hand = FALSE
    BY IdleFields DEF Idle
  <2>2. Done(r) \/ req' = [req EXCEPT ![r] = local]
    BY <1>1 DEF SyncLoad, Begin, Done
  <2> HIDE DEF local
  <2>3. req' = [req EXCEPT ![r] = local] => RequestOK(r)'
    BY <2>1, Moved
  <2> QED BY <1>0, <2>2, <2>3, EndsOK, OneAnswersOK
<1>2. ASSUME NEW c \in CategoryNames, SyncCategory(r, c) PROVE AnswersOK'
  <2> DEFINE local == [req[r] EXCEPT !.at = "fetch", !.cat = c]
  <2>1. /\ local.at = "fetch" /\ local.hand = FALSE /\ local.all = req[r].all
        /\ local.left = req[r].left /\ local.todo = req[r].todo /\ local.user = req[r].user
    BY <1>0, <1>2 DEF SyncCategory, Locals
  <2>2. Done(r) \/ req' = [req EXCEPT ![r] = local]
    BY <1>2 DEF SyncCategory
  <2> HIDE DEF local
  <2>3. req' = [req EXCEPT ![r] = local] => RequestOK(r)'
    <3>1. At(r, "category") /\ ~Saving(r)
      BY <1>2 DEF SyncCategory, Saving
    <3> QED BY <1>0, <2>1, <3>1, Moved DEF InHand, Subscribed
  <2> QED BY <1>0, <2>2, <2>3, EndsOK, OneAnswersOK
<1>3. ASSUME SyncFetch(r) PROVE AnswersOK'
  <2>1. PICK S \in SUBSET Feeds :
          req' = [req EXCEPT ![r] = [req[r] EXCEPT !.at = "entry", !.all = S, !.todo = S]]
    BY <1>3, FetchedList
  <2> DEFINE local == [req[r] EXCEPT !.at = "entry", !.all = S, !.todo = S]
  <2>2. local.at = "entry" /\ local.hand = FALSE /\ local.all = S /\ local.todo = S
    BY <1>0, <1>3 DEF SyncFetch, Locals
  <2> HIDE DEF local
  <2>3. RequestOK(r)'
    BY <2>1, <2>2, Moved DEF local
  <2> QED BY <1>0, <2>1, <2>3, OneAnswersOK DEF local
<1>4. ASSUME NEW f \in Feeds, SyncNext(r, f) PROVE AnswersOK'
  <2> DEFINE at == IF Subscribed(r, f) THEN "entry" ELSE "feed"
             local == [req[r] EXCEPT !.at = at, !.todo = @ \ {f}, !.url = f]
  <2>1. /\ local.at = at /\ local.hand = FALSE /\ local.all = req[r].all /\ local.url = f
        /\ local.left = req[r].left /\ local.todo = req[r].todo \ {f}
        /\ local.user = req[r].user
    BY <1>0, <1>4 DEF SyncNext, Locals
  <2>2. req' = [req EXCEPT ![r] = local] /\ At(r, "entry")
    BY <1>4 DEF SyncNext
  <2> HIDE DEF local
  <2>3. req'[r] = local
    BY <2>2, Moved
  <2>4. StageOK(r)' /\ HandOK(r)'
    BY <2>1, <2>3
  <2>5. SyncOK(r)'
    <3> SUFFICES ASSUME NEW g \in req'[r].all \ (req'[r].left \cup req'[r].todo \cup InHand(r)')
                 PROVE  Subscribed(r, g)'
      BY <2>1, <2>3
    <3>1. InHand(r) = {}
      BY <2>2 DEF InHand, Saving
    <3>2. CASE g = f
      <4>1. Subscribed(r, f)
        BY <2>1, <2>3, <3>2 DEF InHand, Saving
      <4> QED BY <1>0, <2>1, <2>3, <3>2, <4>1 DEF Subscribed
    <3>3. CASE g # f
      <4>1. Subscribed(r, g)
        BY <1>0, <1>4, <2>1, <2>3, <3>1, <3>3 DEF SyncNext
      <4> QED BY <1>0, <2>1, <2>3, <4>1 DEF Subscribed
    <3> QED BY <3>2, <3>3
  <2> QED BY <1>0, <2>2, <2>4, <2>5, OneAnswersOK
<1>5. ASSUME SyncTouch(r) PROVE AnswersOK'
  <2> DEFINE local == [req[r] EXCEPT !.at = "answered"]
  <2>1. /\ local.at = "answered" /\ local.hand = FALSE /\ local.all = req[r].all
        /\ local.left = req[r].left /\ local.todo = {} /\ local.user = req[r].user
    BY <1>0, <1>5 DEF SyncTouch, Locals
  <2>2. req' = [req EXCEPT ![r] = local] /\ At(r, "entry")
    BY <1>5 DEF SyncTouch, GoOn
  <2> HIDE DEF local
  <2>3. RequestOK(r)'
    <3>1. req'[r] = local /\ InHand(r) = {}
      BY <2>2, Moved DEF InHand, Saving
    <3> QED BY <1>0, <1>5, <2>1, <3>1 DEF SyncTouch, Subscribed
  <2> QED BY <1>0, <2>2, <2>3, OneAnswersOK
<1> QED BY <1>1, <1>2, <1>3, <1>4, <1>5

\* A request goes on: but for its stage its locals stay.
LEMMA GoneOn ==
  ASSUME LocalsOK, NEW r \in Requests, NEW at, GoOn(r, at)
  PROVE  /\ req' = [req EXCEPT ![r] = req'[r]]
         /\ req'[r].at = at /\ req'[r].hand = req[r].hand /\ req'[r].user = req[r].user
         /\ req'[r].url = req[r].url /\ req'[r].all = req[r].all
         /\ req'[r].left = req[r].left /\ req'[r].todo = req[r].todo
         /\ req'[r].polled = req[r].polled
<1> DEFINE local == [req[r] EXCEPT !.at = at]
<1>1. req[r] \in Locals
  BY DEF LocalsOK
<1>2. /\ local.at = at /\ local.hand = req[r].hand /\ local.user = req[r].user
      /\ local.url = req[r].url /\ local.all = req[r].all
      /\ local.left = req[r].left /\ local.todo = req[r].todo
      /\ local.polled = req[r].polled
  BY <1>1 DEF Locals
<1>3. req' = [req EXCEPT ![r] = local]
  BY DEF GoOn
<1> HIDE DEF local
<1>4. req'[r] = local
  BY <1>3, Moved
<1> QED BY <1>2, <1>3, <1>4

\* The three statements that save a subscription. When the row is made due, it is
\* there, and when a sync goes on to its next entry, the user is subscribed to this one.
LEMMA SavingAnswersOK ==
  ASSUME LocalsOK, AnswersOK, NEW r \in Requests,
         FindFeed(r) \/ InsertFeed(r) \/ AddSubscription(r)
  PROVE  AnswersOK'
<1>0. req[r] \in Locals /\ RequestOK(r) /\ FeedsOK
  BY DEF LocalsOK, AnswersOK
<1> USE DEF RequestOK, StageOK, SyncOK, HandOK, DoneByHand, SyncStages, HandStages, At
<1>1. CASE FindFeed(r)
  <2> DEFINE at == IF req[r].url \in DOMAIN next_fetch_at THEN "add" ELSE "newFeed"
  <2>1. GoOn(r, at) /\ At(r, "feed") /\ UNCHANGED content
    BY <1>1 DEF FindFeed
  <2>2. ContentGrows /\ FeedsOK' /\ UNCHANGED <<next_fetch_at, byHand, subscriptions>>
    BY <2>1, ContentStays DEF content
  <2>3. at \in {"add", "newFeed"} /\ (at = "add" => req[r].url \in DOMAIN next_fetch_at)
    OBVIOUS
  <2> HIDE DEF at
  <2>4. RequestOK(r)'
    BY <1>0, <2>1, <2>2, <2>3, GoneOn DEF InHand, Saving, Subscribed
  <2> QED BY <2>1, <2>2, <2>4, GoneOn, OneAnswersOK
<1>2. CASE InsertFeed(r)
  <2>1. At(r, "newFeed") /\ UNCHANGED <<byHand, subscriptions>>
    BY <1>2 DEF InsertFeed
  <2>2. CASE req[r].url \in DOMAIN next_fetch_at
    <3>1. next_fetch_at' = next_fetch_at /\ Done(r)
      BY <1>2, <2>2 DEF InsertFeed
    <3> QED BY <2>1, <3>1, ContentStays, EndsOK
  <2>3. CASE req[r].url \notin DOMAIN next_fetch_at
    <3>1. next_fetch_at' = With(next_fetch_at, req[r].url, FirstFetch(r)) /\ GoOn(r, "add")
      BY <1>2, <2>3 DEF InsertFeed
    <3>2. /\ DOMAIN next_fetch_at' = DOMAIN next_fetch_at \cup {req[r].url}
          /\ next_fetch_at'[req[r].url] = FirstFetch(r)
          /\ \A f \in DOMAIN next_fetch_at : next_fetch_at'[f] = next_fetch_at[f]
      BY <2>3, <3>1 DEF With
    <3>3. ContentGrows
      BY <2>1, <3>2 DEF ContentGrows
    <3>4. FirstFetch(r) = "now" => req[r].url \in byHand
      BY <1>0 DEF FirstFetch
    <3>5. FeedsOK'
      BY <1>0, <2>1, <3>2, <3>4 DEF FeedsOK
    <3>6. RequestOK(r)'
      BY <1>0, <2>1, <3>1, <3>2, GoneOn DEF InHand, Saving, Subscribed
    <3> QED BY <3>1, <3>3, <3>5, <3>6, GoneOn, OneAnswersOK
  <2> QED BY <2>2, <2>3
<1>3. CASE AddSubscription(r)
  <2> DEFINE key == <<req[r].user, req[r].url>>
             saved == key \notin DOMAIN subscriptions /\ <<req[r].user, req[r].cat>> \in categories
             at == IF req[r].hand THEN "markDue" ELSE "entry"
  <2>1. At(r, "add") /\ UNCHANGED <<byHand, next_fetch_at>>
    BY <1>3 DEF AddSubscription
  <2>2. CASE ~saved
    <3>1. subscriptions' = subscriptions /\ Done(r)
      BY <1>3, <2>2 DEF AddSubscription, Refused
    <3> QED BY <2>1, <3>1, ContentStays, EndsOK
  <2>3. CASE saved
    <3>1. subscriptions' = With(subscriptions, key, req[r].cat) /\ GoOn(r, at)
      BY <1>3, <2>3 DEF AddSubscription
    <3>2. DOMAIN subscriptions' = DOMAIN subscriptions \cup {key}
      BY <3>1 DEF With
    <3>3. ContentGrows /\ FeedsOK'
      BY <1>0, <2>1, <3>2 DEF ContentGrows, FeedsOK
    <3>4. /\ at \in {"markDue", "entry"} /\ (at = "markDue" <=> req[r].hand)
          /\ req[r].hand \in BOOLEAN
      BY <1>0 DEF Locals
    <3> HIDE DEF at
    <3>5. StageOK(r)' /\ HandOK(r)'
      BY <1>0, <2>1, <3>1, <3>4, GoneOn
    <3>6. SyncOK(r)'
      BY <1>0, <2>1, <3>1, <3>2, <3>4, GoneOn DEF InHand, Saving, Subscribed
    <3> QED BY <3>1, <3>3, <3>5, <3>6, GoneOn, OneAnswersOK
  <2> QED BY <2>2, <2>3
<1> QED BY <1>1, <1>2, <1>3

\* The steps of a request by hand around them, and the end of any request.
LEMMA ByHandAnswersOK ==
  ASSUME LocalsOK, AnswersOK, NEW r \in Requests,
         \/ \E u \in Users, f \in Feeds, c \in CategoryNames : ByHand(r, u, f, c)
         \/ Existing(r) \/ MarkDue(r) \/ Stop(r)
  PROVE  AnswersOK'
<1>0. req[r] \in Locals /\ RequestOK(r) /\ FeedsOK
  BY DEF LocalsOK, AnswersOK
<1> USE DEF RequestOK, StageOK, SyncOK, HandOK, DoneByHand, SyncStages, HandStages, At
<1>1. ASSUME NEW u \in Users, NEW f \in Feeds, NEW c \in CategoryNames, ByHand(r, u, f, c)
      PROVE  AnswersOK'
  <2> DEFINE local == [Idle EXCEPT !.at = "existing", !.user = u, !.cat = c,
                                   !.url = f, !.hand = TRUE]
  <2>1. local.at = "existing" /\ local.hand = TRUE /\ local.url = f
    BY IdleFields DEF Idle
  <2>2. /\ Done(r) \/ req' = [req EXCEPT ![r] = local]
        /\ byHand' = byHand \cup {f} /\ UNCHANGED <<next_fetch_at, subscriptions>>
    BY <1>1 DEF ByHand, Begin, Done
  <2> HIDE DEF local
  <2>3. ContentGrows /\ FeedsOK'
    BY <1>0, <2>2 DEF ContentGrows, FeedsOK
  <2>4. req' = [req EXCEPT ![r] = local] => RequestOK(r)'
    BY <2>1, <2>2, Moved
  <2> QED BY <2>2, <2>3, <2>4, EndsOK, OneAnswersOK
<1>2. CASE Existing(r)
  <2>1. /\ At(r, "existing") /\ (Done(r) \/ GoOn(r, "feed"))
        /\ UNCHANGED <<next_fetch_at, byHand, subscriptions>>
    BY <1>2 DEF Existing, content
  <2>2. GoOn(r, "feed") => RequestOK(r)'
    BY <1>0, <2>1, GoneOn
  <2> QED BY <2>1, <2>2, ContentStays, GoneOn, EndsOK, OneAnswersOK
<1>3. CASE MarkDue(r)
  <2>1. /\ At(r, "markDue") /\ GoOn(r, "answered") /\ UNCHANGED <<byHand, subscriptions>>
        /\ next_fetch_at' = [next_fetch_at EXCEPT ![req[r].url] = "now"]
    BY <1>3 DEF MarkDue, MarkedDue
  <2>2. req[r].hand /\ req[r].url \in DOMAIN next_fetch_at /\ req[r].url \in byHand
    BY <1>0, <2>1
  <2>3. ContentGrows /\ FeedsOK'
    BY <1>0, <2>1, <2>2 DEF ContentGrows, FeedsOK
  <2>4. RequestOK(r)'
    BY <1>0, <2>1, <2>2, GoneOn
  <2> QED BY <2>1, <2>3, <2>4, GoneOn, OneAnswersOK
<1>4. CASE Stop(r)
  BY <1>4, ContentStays, EndsOK DEF Stop, content
<1> QED BY <1>1, <1>2, <1>3, <1>4

\* What others do meanwhile: an unsubscription is noted in the requests that it
\* concerns, and so is a poll.
LEMMA MeanwhileAnswersOK ==
  ASSUME LocalsOK, AnswersOK,
         \/ \E u \in Users : DeleteCategory(u) \/ \E f \in Feeds : Unsubscribe(u, f)
         \/ \E f \in Feeds : PollClaim(f)
  PROVE  AnswersOK'
<1>0. \A r \in Requests : req[r] \in Locals /\ RequestOK(r)
  BY DEF LocalsOK, AnswersOK
<1>1. ASSUME NEW u \in Users, DeleteCategory(u) PROVE AnswersOK'
  <2>1. /\ DOMAIN subscriptions' = DOMAIN subscriptions
        /\ UNCHANGED <<next_fetch_at, byHand, req>>
    BY <1>1 DEF DeleteCategory
  <2>2. ContentGrows /\ FeedsOK'
    BY <2>1 DEF ContentGrows, FeedsOK, AnswersOK
  <2>3. \A r \in Requests : RequestOK(r)'
    BY <1>0, <2>1, <2>2, WaitingStays
  <2> QED BY <2>2, <2>3 DEF AnswersOK
<1>2. ASSUME NEW u \in Users, NEW f \in Feeds, Unsubscribe(u, f) PROVE AnswersOK'
  <2>1. /\ DOMAIN subscriptions' = DOMAIN subscriptions \ {<<u, f>>}
        /\ UNCHANGED <<next_fetch_at, byHand>>
        /\ req' = [r \in Requests |-> IF req[r].user = u /\ f \in req[r].all
                                      THEN [req[r] EXCEPT !.left = @ \cup {f}] ELSE req[r]]
    BY <1>2 DEF Unsubscribe, Without
  <2>2. FeedsOK'
    BY <2>1 DEF FeedsOK, AnswersOK
  <2>3. ASSUME NEW r \in Requests PROVE RequestOK(r)'
    <3>1. /\ req'[r].at = req[r].at /\ req'[r].hand = req[r].hand
          /\ req'[r].user = req[r].user /\ req'[r].url = req[r].url
          /\ req'[r].all = req[r].all /\ req'[r].todo = req[r].todo
          /\ req'[r].polled = req[r].polled /\ req[r].left \subseteq req'[r].left
          /\ req[r].user = u /\ f \in req[r].all => f \in req'[r].left
      BY <1>0, <2>1 DEF Locals
    <3>2. StageOK(r)' /\ HandOK(r)'
      BY <1>0, <2>1, <3>1 DEF RequestOK, StageOK, HandOK, DoneByHand, At
    <3>3. SyncOK(r)'
      BY <1>0, <2>1, <3>1 DEF RequestOK, SyncOK, InHand, Saving, Subscribed
    <3> QED BY <3>2, <3>3 DEF RequestOK
  <2> QED BY <2>2, <2>3 DEF AnswersOK
<1>3. ASSUME NEW f \in Feeds, PollClaim(f) PROVE AnswersOK'
  <2>1. /\ UNCHANGED <<subscriptions, byHand>>
        /\ next_fetch_at' = [next_fetch_at EXCEPT ![f] = "later"]
        /\ req' = [r \in Requests |-> IF req[r].hand /\ req[r].url = f
                                      THEN [req[r] EXCEPT !.polled = TRUE] ELSE req[r]]
    BY <1>3 DEF PollClaim
  <2>2. FeedsOK'
    BY <2>1 DEF FeedsOK, AnswersOK
  <2>3. ASSUME NEW r \in Requests PROVE RequestOK(r)'
    <3>1. /\ req'[r].at = req[r].at /\ req'[r].hand = req[r].hand
          /\ req'[r].user = req[r].user /\ req'[r].url = req[r].url
          /\ req'[r].all = req[r].all /\ req'[r].todo = req[r].todo
          /\ req'[r].left = req[r].left /\ (req[r].polled => req'[r].polled)
          /\ req[r].hand /\ req[r].url = f => req'[r].polled
      BY <1>0, <2>1 DEF Locals
    <3>2. StageOK(r)' /\ SyncOK(r)'
      BY <1>0, <2>1, <3>1 DEF RequestOK, StageOK, SyncOK, At, InHand, Saving, Subscribed
    <3>3. HandOK(r)'
      BY <1>0, <2>1, <3>1 DEF RequestOK, HandOK, DoneByHand, At
    <3> QED BY <3>2, <3>3 DEF RequestOK
  <2> QED BY <2>2, <2>3 DEF AnswersOK
<1> QED BY <1>1, <1>2, <1>3

LEMMA RestartAnswersOK == LocalsOK /\ AnswersOK /\ Restart => AnswersOK'
<1> SUFFICES ASSUME LocalsOK, AnswersOK, Restart PROVE AnswersOK'
  OBVIOUS
<1>1. FeedsOK'
  BY ContentStays DEF Restart, content
<1>2. ASSUME NEW r \in Requests PROVE RequestOK(r)'
  <2>1. req'[r] = Idle
    BY DEF Restart
  <2> QED BY <2>1, IdleFields DEF RequestOK, StageOK, SyncOK, HandOK, DoneByHand,
                                  SyncStages, HandStages, At
<1> QED BY <1>1, <1>2 DEF AnswersOK

\* Every request keeps what its answer will say, whichever others work beside it.
THEOREM Answers == Spec => []AnswersOK
<1>1. LocalsOK /\ AnswersOK /\ [Next]_vars => AnswersOK'
  <2> SUFFICES ASSUME LocalsOK, AnswersOK, [Next]_vars PROVE AnswersOK'
    OBVIOUS
  <2>1. CASE UNCHANGED vars
    BY <2>1, NoneMoves DEF vars
  <2>2. CASE \/ \E u \in Users, p \in Providers : Authorize(u, p) \/ Disconnect(u, p)
             \/ \E f \in Flows : Expire(f)
             \/ \E r \in Requests, f \in Flows, p \in Providers : CallbackTake(r, f, p)
             \/ \E r \in Requests : CallbackSave(r)
    BY <2>2, LinkingAnswersOK
  <2>3. CASE \E r \in Requests :
               \/ \E u \in Users, p \in Providers : SyncLoad(r, u, p)
               \/ \E c \in CategoryNames : SyncCategory(r, c)
               \/ SyncFetch(r)
               \/ \E f \in Feeds : SyncNext(r, f)
               \/ SyncTouch(r)
    BY <2>3, SyncAnswersOK
  <2>4. CASE \E r \in Requests : FindFeed(r) \/ InsertFeed(r) \/ AddSubscription(r)
    BY <2>4, SavingAnswersOK
  <2>5. CASE \E r \in Requests :
               \/ \E u \in Users, f \in Feeds, c \in CategoryNames : ByHand(r, u, f, c)
               \/ Existing(r) \/ MarkDue(r) \/ Stop(r)
    BY <2>5, ByHandAnswersOK
  <2>6. CASE \/ \E u \in Users : DeleteCategory(u) \/ \E f \in Feeds : Unsubscribe(u, f)
             \/ \E f \in Feeds : PollClaim(f)
    BY <2>6, MeanwhileAnswersOK
  <2>7. CASE Restart
    BY <2>7, RestartAnswersOK
  <2> QED
    BY <2>1, <2>2, <2>3, <2>4, <2>5, <2>6, <2>7 DEF Next
<1>2. IInv => LocalsOK
  BY DEF IInv
<1> QED BY InitAnswersOK, Inductive, <1>1, <1>2, PTL DEF Spec

\* A sync that answers has the user subscribed to all that the provider listed but
\* for what he has unsubscribed meanwhile (reconcile and subscribe_url).
THEOREM SyncsKeepTheirWord == Spec => []SyncKeepsItsWord
<1>1. AnswersOK => SyncKeepsItsWord
  BY DEF AnswersOK, RequestOK, StageOK, SyncOK, InHand, Saving, At, SyncKeepsItsWord
<1> QED BY Answers, <1>1, PTL

\* Only a feed that somebody adds by hand is due at once, and when that request
\* answers it is due or was polled, however the statements of requests and syncs
\* interleave (upsert_feed and mark_due).
THEOREM AddedByHandIsDue == Spec => []HandAddedIsDue
<1>1. AnswersOK => HandAddedIsDue
  BY DEF AnswersOK, FeedsOK, RequestOK, HandOK, DoneByHand, At, HandAddedIsDue
<1> QED BY Answers, <1>1, PTL
=============================================================================
