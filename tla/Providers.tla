----------------------------- MODULE Providers ------------------------------
(***************************************************************************)
(* The AI providers of the instance and the two routes of summaries        *)
(* (ai/provider.rs, routes/ai.rs): a text route and a route of Gemini      *)
(* providers that watch videos themselves.                                 *)
(*                                                                         *)
(* A settings request reads and then writes in one transaction: it fails   *)
(* at its first write when anything was committed since its first read.    *)
(* Names, keys, addresses and the other parameters are left out.           *)
(***************************************************************************)
EXTENDS Integers, FiniteSets, SequencesExt

CONSTANTS
  Models,
  Admins,         \* requests of admins that may be served together
  Puts,           \* bodies of settings requests: the fields that are given
  Creations,      \* kind and model of the providers that are added
  FirstProviders, \* providers and routing at the start
  FirstRouting,
  MaxProviders,   \* bound: ids ever given
  MaxAdmin        \* bound: requests of admins

ASSUME CreationsAssumption == Creations \subseteq [gemini : BOOLEAN, model : Models]
ASSUME AdminBoundsAssumption == {MaxProviders, MaxAdmin} \subseteq Nat

Unset == <<0>>   \* the setting has no row
Modes == {"single", "ordered"}
Settings == [textMode : Modes, textIds : Seq(Int), videoMode : Modes, videoIds : Seq(Int)]

ASSUME PutsAssumption == \A put \in Puts :
  /\ \A key \in {"textMode", "videoMode"} \cap DOMAIN put : put[key] \in Modes
  /\ \A key \in {"textIds", "videoIds"} \cap DOMAIN put : put[key] \in Seq(Int)
\* The start is one that requests have led to.
ASSUME FirstAssumption ==
  /\ DOMAIN FirstProviders \subseteq 1..MaxProviders
  /\ \A id \in DOMAIN FirstProviders :
       FirstProviders[id] \in [gemini : BOOLEAN, model : Models, active : BOOLEAN]
  /\ FirstRouting \in Settings
  /\ \/ FirstRouting.textIds = Unset
     \/ /\ IsInjective(FirstRouting.textIds)
        /\ ToSet(FirstRouting.textIds) \subseteq DOMAIN FirstProviders
  /\ IsInjective(FirstRouting.videoIds)
  /\ \A id \in ToSet(FirstRouting.videoIds) :
       id \in DOMAIN FirstProviders /\ FirstProviders[id].gemini

VARIABLES
  providers, \* rows of ai_providers, by id
  made,      \* the last id that AUTOINCREMENT has given
  routing,   \* the four settings of the routes
  admin,     \* locals of each request
  handled    \* requests of admins so far

config == <<providers, made, routing, admin, handled>>

Existing == DOMAIN providers
Active == {id \in Existing : providers[id].active}
IdleAdmin == [at |-> "idle", id |-> 0, first |-> FALSE, put |-> <<>>, stale |-> FALSE]

\* Another connection commits.
Staled == [a \in Admins |-> [admin[a] EXCEPT !.stale = @ \/ admin[a].at = "put"]]

----------------------------------------------------------------------------
(* The routes.                                                             *)

\* The ids in S, in their order.
Kept(ids, S) ==
  LET places == {n \in DOMAIN ids : ids[n] \in S} IN
  [n \in 1..Cardinality(places) |->
     ids[CHOOSE m \in places : Cardinality({l \in places : l <= m}) = n]]

Selected(mode, ids) == IF mode = "ordered" THEN ids ELSE SubSeq(ids, 1, Min({1, Len(ids)}))

\* selected_video_provider_ids
VideoIds == Selected(routing.videoMode, routing.videoIds)

\* text_provider_ids: without a selection, the active provider.
TextIds ==
  IF routing.textIds # Unset THEN Selected(routing.textMode, routing.textIds)
  ELSE IF routing.textMode = "ordered" \/ Active = {} THEN <<>> ELSE <<Min(Active)>>

Resolved(ids) == [n \in DOMAIN ids |-> [id |-> ids[n], model |-> providers[ids[n]].model]]

\* load_video_route
VideoRoute == Resolved(Kept(VideoIds, {id \in Existing : providers[id].gemini}))

\* load_text_route
TextRoute == Resolved(Kept(TextIds, Existing \ ToSet(VideoIds)))

----------------------------------------------------------------------------
(* Requests.                                                               *)

Serve(a) == admin[a].at = "idle" /\ handled < MaxAdmin /\ handled' = handled + 1

\* create: the first provider of all is made active ...
CreateCount(a) ==
  /\ Serve(a)
  /\ admin' = [admin EXCEPT ![a] = [IdleAdmin EXCEPT !.at = "create", !.first = Active = {}]]
  /\ UNCHANGED <<providers, made, routing>>

\* ... in a second statement.
CreateInsert(a, new) ==
  /\ admin[a].at = "create" /\ made < MaxProviders
  /\ made' = made + 1
  /\ providers' = [id \in Existing \cup {made'} |->
       IF id \in Existing THEN providers[id]
       ELSE [gemini |-> new.gemini, model |-> new.model, active |-> admin[a].first]]
  /\ admin' = [Staled EXCEPT ![a] = IdleAdmin]
  /\ UNCHANGED <<routing, handled>>

\* patch
Patch(a, id, model) ==
  /\ Serve(a) /\ id \in Existing
  /\ providers' = [providers EXCEPT ![id].model = model]
  /\ admin' = Staled
  /\ UNCHANGED <<made, routing>>

\* activate: exists ...
ActivateCheck(a, id) ==
  /\ Serve(a) /\ id \in Existing
  /\ admin' = [admin EXCEPT ![a] = [IdleAdmin EXCEPT !.at = "activate", !.id = id]]
  /\ UNCHANGED <<providers, made, routing>>

\* ... then both updates in one transaction, which starts with a write.
ActivateCommit(a) ==
  /\ admin[a].at = "activate"
  /\ providers' = [id \in Existing |-> [providers[id] EXCEPT !.active = id = admin[a].id]]
  /\ admin' = [Staled EXCEPT ![a] = IdleAdmin]
  /\ UNCHANGED <<made, routing, handled>>

\* remove_from_route
Removed(id, mode, ids, empty) ==
  LET left == Kept(ids, ToSet(ids) \ {id}) IN
  IF left = <<>> /\ ids # <<>> /\ mode = "single" THEN empty ELSE left

\* Fault: only the text route is cleaned.
RemovedFromText(id) ==
  [routing EXCEPT !.textIds = Removed(id, routing.textMode, @, Unset)]

RemovedFromRoutes(id) ==
  [routing EXCEPT !.textIds = Removed(id, routing.textMode, @, Unset),
                  !.videoIds = Removed(id, routing.videoMode, @, <<>>)]

\* delete, a transaction that starts with a write.
Delete(a, id) ==
  /\ Serve(a) /\ id \in Existing
  /\ providers' = [other \in Existing \ {id} |-> providers[other]]
  /\ routing' = RemovedFromRoutes(id)
  /\ admin' = Staled
  /\ UNCHANGED made

Names(ids) == IsInjective(ids) /\ ToSet(ids) \subseteq Existing

\* put_ai_settings: what is checked before the first write.
Acceptable(put) ==
  LET video == IF "videoIds" \in DOMAIN put THEN put.videoIds ELSE VideoIds IN
  /\ "textIds" \in DOMAIN put =>
       Names(put.textIds) /\ ToSet(put.textIds) \cap ToSet(video) = {}
  /\ "videoIds" \in DOMAIN put =>
       Names(put.videoIds) /\ \A id \in ToSet(put.videoIds) : providers[id].gemini

PutRead(a, put) ==
  /\ Serve(a) /\ Acceptable(put)
  /\ admin' = [admin EXCEPT ![a] = [IdleAdmin EXCEPT !.at = "put", !.put = put]]
  /\ UNCHANGED <<providers, made, routing>>

\* put_ai_settings: the writes and the commit.
PutWrite(a) ==
  /\ admin[a].at = "put"
  /\ IF admin[a].stale
     THEN routing' = routing /\ admin' = [admin EXCEPT ![a] = IdleAdmin]
     ELSE /\ routing' = [key \in DOMAIN routing |->
               IF key \in DOMAIN admin[a].put THEN admin[a].put[key] ELSE routing[key]]
          /\ admin' = [Staled EXCEPT ![a] = IdleAdmin]
  /\ UNCHANGED <<providers, made, handled>>

ProvidersInit ==
  /\ providers = FirstProviders /\ made = Max(DOMAIN FirstProviders \cup {0})
  /\ routing = FirstRouting
  /\ admin = [a \in Admins |-> IdleAdmin] /\ handled = 0

ProvidersNext == \E a \in Admins :
  \/ CreateCount(a) \/ ActivateCommit(a) \/ PutWrite(a)
  \/ \E new \in Creations : CreateInsert(a, new)
  \/ \E id \in Existing :
       \/ \E model \in Models : Patch(a, id, model)
       \/ ActivateCheck(a, id) \/ Delete(a, id)
  \/ \E put \in Puts : PutRead(a, put)

ProvidersSpec == ProvidersInit /\ [][ProvidersNext]_config

----------------------------------------------------------------------------
(* Properties.                                                             *)

ProvidersTypeOK ==
  /\ made \in 0..MaxProviders /\ Existing \subseteq 1..made
  /\ \A id \in Existing :
       providers[id] \in [gemini : BOOLEAN, model : Models, active : BOOLEAN]
  /\ routing \in Settings
  /\ \A a \in Admins : admin[a].at \in {"idle", "create", "activate", "put"}
  /\ handled \in 0..MaxAdmin

\* The settings of the routes name providers that exist, each once, and the
\* video route only Gemini ones, although providers are deleted while a
\* settings request that has already looked them up is still open.
RoutesResolve ==
  /\ routing.textIds = Unset \/ Names(routing.textIds)
  /\ Names(routing.videoIds)
  /\ \A id \in ToSet(routing.videoIds) : providers[id].gemini
=============================================================================
