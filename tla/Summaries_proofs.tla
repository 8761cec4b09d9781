-------------------------- MODULE Summaries_proofs --------------------------
(***************************************************************************)
(* Proofs about providers and summaries: the routes name what exists, an   *)
(* automatic summary is paid once, and the budget is overrun by no more    *)
(* than the calls let through before.                                      *)
(***************************************************************************)
EXTENDS Summaries, FiniteSetTheorems, TLAPS

----------------------------------------------------------------------------
(* Invariants.                                                             *)

Provider == [gemini : BOOLEAN, model : Models, active : BOOLEAN]

Handling == [at : {"idle", "create", "activate", "put"}, id : Nat, first : BOOLEAN,
             put : Puts \cup {<<>>}, stale : BOOLEAN]

\* ProvidersTypeOK, and the types of what it leaves out.
ProvidersTypes ==
  /\ ProvidersTypeOK
  /\ admin \in [Admins -> Handling]

\* What an open settings request has looked up stays as it is until its
\* snapshot is stale.
PutsOK == \A a \in Admins : admin[a].at = "put" =>
  /\ admin[a].put \in Puts
  /\ ~admin[a].stale => Acceptable(admin[a].put)

ProvidersInv == ProvidersTypes /\ RoutesResolve /\ PutsOK

Route == Seq([id : Nat, model : Models])
Stages == {"idle", "native", "transcript", "text", "call", "failed", "read", "write", "store"}
Job == [at : Stages, item : Items \cup {0}, text : Route, native : Route,
        via : {"native", "text"}, left : Route, status : {"none", "fetched", "unavailable"},
        day : Nat, count : Nat]

\* A call under way asks the first of the providers that are left of a route.
RouteOf(q) == IF q.via = "native" THEN q.native ELSE q.text
LeftOK(q) ==
  /\ q.at = "native" => ToSet(q.left) \subseteq ToSet(q.native)
  /\ q.at \in {"call", "read", "write", "store"} =>
       q.left # <<>> /\ ToSet(q.left) \subseteq ToSet(RouteOf(q))

\* TypeOK, and the types of what it leaves out.
SummariesTypes ==
  /\ TypeOK
  /\ job \in [Jobs -> Job] /\ \A j \in Jobs : LeftOK(job[j])
  /\ usage \in [day : Nat, count : Nat]
  /\ day \in Nat /\ spent \in Nat /\ blurred \in BOOLEAN

\* What was summarized for the present configuration is in the cache, so that
\* the worker has nothing to ask for it.
PaidInv ==
  /\ \A i \in settled : HasSummary(i)
  /\ job[Worker].at # "idle" => job[Worker].item \notin settled

Calling == {j \in Jobs : job[j].at = "call"}

\* The worker has a call only while it attempts a summary.
WorkerInv == job[Worker].at # "idle" => worker = "attempt"

\* Tokens are counted for a day that has come.
DatesOK ==
  /\ usage.day <= day
  /\ \A j \in Jobs : Recording(j) => job[j].day <= day
  /\ \A j \in Jobs : job[j].at = "read" => job[j].count \in Tokens

\* One call at most is being counted, for today; its tokens and the counter
\* are all that was spent.
CountOK ==
  /\ \A j, k \in Jobs : Recording(j) /\ Recording(k) => j = k
  /\ \A j \in Jobs : Recording(j) => job[j].day = day
  /\ \A j \in Jobs : job[j].at = "read" => spent = Counted(day) + job[j].count
  /\ \A j \in Jobs : job[j].at = "write" =>
       spent = job[j].count /\ spent <= Counted(day) + Max(Tokens)
  /\ (\A j \in Jobs : ~Recording(j)) => spent = Counted(day)

\* Whatever the calls under way still spend, the bound holds: who calls was
\* let through when the counter was below the budget.
Within ==
  spent + Cardinality(Calling) * Max(Tokens) <= Budget - 1 + Cardinality(Jobs) * Max(Tokens)

BudgetInv == DatesOK /\ (~blurred => CountOK /\ Within)

IInv == ProvidersInv /\ SummariesTypes /\ PaidInv /\ WorkerInv /\ BudgetInv

----------------------------------------------------------------------------
(* Positions, and what is kept of a sequence.                              *)

Rank(P, m) == Cardinality({l \in P : l <= m})

LEMMA RankType ==
  ASSUME NEW P, IsFiniteSet(P), P \subseteq Int, NEW m \in P
  PROVE  Rank(P, m) \in 1..Cardinality(P) /\ Cardinality(P) \in Nat
<1> DEFINE below == {l \in P : l <= m}
<1>1. IsFiniteSet(below) /\ Cardinality(below) <= Cardinality(P)
  BY FS_Subset
<1>2. m \in below
  OBVIOUS
<1>3. Cardinality(below) # 0
  BY <1>1, <1>2, FS_EmptySet
<1>4. Cardinality(below) \in Nat /\ Cardinality(P) \in Nat
  BY <1>1, FS_CardinalityType
<1> HIDE DEF below
<1>5. Cardinality(below) \in 1..Cardinality(P)
  BY <1>1, <1>3, <1>4
<1> QED BY <1>4, <1>5 DEF Rank, below

LEMMA RankGrows ==
  ASSUME NEW P, IsFiniteSet(P), P \subseteq Int, NEW m \in P, NEW l \in P, m < l
  PROVE  Rank(P, m) < Rank(P, l)
<1> DEFINE belowM == {k \in P : k <= m}
           belowL == {k \in P : k <= l}
<1>1. belowM \subseteq belowL /\ belowM # belowL
  <2>1. l \in belowL /\ l \notin belowM
    OBVIOUS
  <2>2. belowM \subseteq belowL
    <3> SUFFICES ASSUME NEW k \in P, k <= m PROVE k <= l
      OBVIOUS
    <3>1. k \in Int /\ m \in Int /\ l \in Int
      OBVIOUS
    <3> QED BY <3>1
  <2> HIDE DEF belowM, belowL
  <2> QED BY <2>1, <2>2
<1>2. IsFiniteSet(belowL) /\ IsFiniteSet(belowM)
  BY FS_Subset
<1> HIDE DEF belowM, belowL
<1>3. Cardinality(belowM) < Cardinality(belowL)
  <2>1. Cardinality(belowM) <= Cardinality(belowL) /\ Cardinality(belowM) # Cardinality(belowL)
    BY <1>1, <1>2, FS_Subset
  <2>2. Cardinality(belowM) \in Nat /\ Cardinality(belowL) \in Nat
    BY <1>2, FS_CardinalityType
  <2> QED BY <2>1, <2>2
<1> QED BY <1>3 DEF Rank, belowM, belowL

\* Every position up to their number is that of one of them.
LEMMA Ranks ==
  ASSUME NEW P, IsFiniteSet(P), P \subseteq Int, NEW n \in 1..Cardinality(P)
  PROVE  \E m \in P : Rank(P, m) = n
<1> DEFINE T == 1..Cardinality(P)
           rank == [m \in P |-> Rank(P, m)]
<1>1. rank \in [P -> T]
  BY RankType
<1>2. \A m, l \in P : rank[m] = rank[l] => m = l
  <2> SUFFICES ASSUME NEW m \in P, NEW l \in P, m # l
               PROVE  Rank(P, m) # Rank(P, l)
    OBVIOUS
  <2>1. m \in Int /\ l \in Int
    OBVIOUS
  <2>2. Rank(P, m) \in 1..Cardinality(P) /\ Rank(P, l) \in 1..Cardinality(P)
        /\ Cardinality(P) \in Nat
    BY RankType
  <2>3. CASE m < l
    <3>1. Rank(P, m) < Rank(P, l)
      BY <2>3, RankGrows
    <3> QED BY <2>2, <3>1
  <2>4. CASE l < m
    <3>1. Rank(P, l) < Rank(P, m)
      BY <2>4, RankGrows
    <3> QED BY <2>2, <3>1
  <2> QED BY <2>1, <2>3, <2>4
<1>3. Cardinality(P) \in Nat
  BY FS_CardinalityType
<1>4. IsFiniteSet(T) /\ Cardinality(T) = Cardinality(P)
  BY <1>3, FS_Interval
<1> HIDE DEF rank, T
<1>5. rank \in Injection(P, T)
  BY <1>1, <1>2 DEF Injection, IsInjective
<1>6. rank \in Surjection(P, T)
  BY <1>4, <1>5, FS_Injection
<1>7. PICK m \in P : rank[m] = n
  BY <1>6 DEF Surjection, T
<1> QED BY <1>7 DEF rank

LEMMA Greatest ==
  ASSUME NEW P, IsFiniteSet(P), P \subseteq Int, P # {}
  PROVE  Max(P) \in P /\ \A m \in P : m <= Max(P)
<1>1. Cardinality(P) \in Nat \ {0}
  BY FS_CardinalityType, FS_EmptySet
<1>2. PICK m \in P : Rank(P, m) = Cardinality(P)
  <2>1. Cardinality(P) \in 1..Cardinality(P)
    BY <1>1
  <2> QED BY <2>1, Ranks
<1>3. {l \in P : l <= m} = P
  <2> DEFINE below == {l \in P : l <= m}
  <2>1. below \subseteq P /\ Cardinality(below) = Cardinality(P)
    BY <1>2 DEF Rank
  <2> HIDE DEF below
  <2>2. below = P
    BY <2>1, FS_Subset
  <2> QED BY <2>2 DEF below
<1>4. \A l \in P : l <= m
  BY <1>3
<1>5. \E x \in P : \A y \in P : x >= y
  BY <1>4
<1> QED BY <1>5 DEF Max

\* What is kept has the entries that are in S, and repeats none that was
\* not repeated.
LEMMA KeptEntries ==
  ASSUME NEW k \in Nat, NEW ids, DOMAIN ids = 1..k, NEW S
  PROVE  /\ Kept(ids, S) \in Seq(S)
         /\ ToSet(Kept(ids, S)) = ToSet(ids) \cap S
         /\ IsInjective(ids) => IsInjective(Kept(ids, S))
<1> DEFINE P == {n \in DOMAIN ids : ids[n] \in S}
           at(n) == CHOOSE m \in P : Cardinality({l \in P : l <= m}) = n
<1>1. IsFiniteSet(P) /\ P \subseteq Int
  <2>1. IsFiniteSet(1..k)
    BY FS_Interval
  <2> QED BY <2>1, FS_Subset
<1>2. Cardinality(P) \in Nat
  BY <1>1, FS_CardinalityType
<1>3. Kept(ids, S) = [n \in 1..Cardinality(P) |-> ids[at(n)]]
  BY DEF Kept
<1>4. ASSUME NEW n \in 1..Cardinality(P)
      PROVE  at(n) \in P /\ Rank(P, at(n)) = n
  <2> HIDE DEF P
  <2>1. \E m \in P : Cardinality({l \in P : l <= m}) = n
    BY <1>1, Ranks DEF Rank
  <2> QED BY <2>1 DEF Rank
<1>5. ASSUME NEW m \in P
      PROVE  Rank(P, m) \in 1..Cardinality(P) /\ at(Rank(P, m)) = m
  <2> DEFINE n == Rank(P, m)
  <2>1. n \in 1..Cardinality(P)
    BY <1>1, RankType
  <2>2. at(n) \in P /\ Rank(P, at(n)) = n
    BY <1>4, <2>1
  <2> HIDE DEF at, P
  <2>3. at(n) \in Int /\ m \in Int
    BY <1>1, <2>2
  <2> PICK other : other = at(n)
    OBVIOUS
  <2>4. n \in Int /\ other \in P /\ Rank(P, other) = n
    BY <2>1, <2>2
  <2>5. ~(other < m)
    <3> SUFFICES ASSUME other < m PROVE FALSE
      OBVIOUS
    <3>1. Rank(P, other) < Rank(P, m)
      BY <1>1, <2>4, RankGrows
    <3> QED BY <2>4, <3>1
  <2>6. ~(m < other)
    <3> SUFFICES ASSUME m < other PROVE FALSE
      OBVIOUS
    <3>1. Rank(P, m) < Rank(P, other)
      BY <1>1, <2>4, RankGrows
    <3> QED BY <2>4, <3>1
  <2> QED BY <2>1, <2>3, <2>5, <2>6
<1> HIDE DEF at
<1>6. Kept(ids, S) \in Seq(S)
  <2>1. \A n \in 1..Cardinality(P) : ids[at(n)] \in S
    BY <1>4
  <2> QED BY <1>2, <1>3, <2>1
<1>7. ToSet(Kept(ids, S)) = ToSet(ids) \cap S
  <2>1. ASSUME NEW n \in DOMAIN Kept(ids, S)
        PROVE  Kept(ids, S)[n] \in ToSet(ids) \cap S
    BY <1>3, <1>4, <2>1 DEF ToSet
  <2>2. ASSUME NEW m \in P
        PROVE  ids[m] \in ToSet(Kept(ids, S))
    BY <1>3, <1>5, <2>2 DEF ToSet
  <2> QED BY <2>1, <2>2 DEF ToSet
<1>8. ASSUME IsInjective(ids), NEW a \in 1..Cardinality(P), NEW b \in 1..Cardinality(P),
             ids[at(a)] = ids[at(b)]
      PROVE  a = b
  <2>1. at(a) = at(b)
    BY <1>4, <1>8 DEF IsInjective
  <2> QED BY <1>4, <2>1
<1>9. IsInjective(ids) => IsInjective(Kept(ids, S))
  BY <1>3, <1>8 DEF IsInjective
<1> QED BY <1>6, <1>7, <1>9

\* A setting that has no row is left so.
LEMMA KeptUnset ==
  ASSUME NEW S, 0 \in S
  PROVE  Kept(Unset, S) = Unset
<1> DEFINE P == {n \in DOMAIN Unset : Unset[n] \in S}
           at(n) == CHOOSE m \in P : Cardinality({l \in P : l <= m}) = n
<1>1. P = {1}
  BY DEF Unset
<1>2. Cardinality(P) = 1
  BY <1>1, FS_Singleton
<1>3. Kept(Unset, S) = [n \in 1..Cardinality(P) |-> Unset[at(n)]]
  BY DEF Kept
<1>4. at(1) = 1
  <2>1. {l \in P : l <= 1} = P
    BY <1>1
  <2> HIDE DEF P
  <2> QED BY <1>1, <1>2, <2>1
<1> HIDE DEF at, P
<1>5. Kept(Unset, S) = [n \in 1..1 |-> 0]
  <2>1. \A n \in 1..1 : Unset[at(n)] = 0
    BY <1>4 DEF Unset
  <2> QED BY <1>2, <1>3, <2>1
<1> QED BY <1>5 DEF Unset

----------------------------------------------------------------------------
(* Providers.                                                              *)

LEMMA ProvidersStart == ProvidersInit => ProvidersInv
<1> SUFFICES ASSUME ProvidersInit PROVE ProvidersInv
  OBVIOUS
<1>1. made \in 0..MaxProviders /\ \A id \in Existing : id <= made
  <2> DEFINE P == DOMAIN FirstProviders \cup {0}
  <2>1. IsFiniteSet(0..MaxProviders) /\ P \subseteq 0..MaxProviders
    <3>1. MaxProviders \in Int /\ MaxProviders >= 0
      BY AdminBoundsAssumption
    <3>2. IsFiniteSet(0..MaxProviders)
      BY <3>1, FS_Interval
    <3>3. DOMAIN FirstProviders \subseteq 1..MaxProviders
      BY FirstAssumption
    <3> QED BY <3>1, <3>2, <3>3
  <2>2. Max(P) \in P /\ \A m \in P : m <= Max(P)
    <3>1. IsFiniteSet(P) /\ P \subseteq Int /\ P # {}
      BY <2>1, FS_Subset, AdminBoundsAssumption
    <3> HIDE DEF P
    <3> QED BY <3>1, Greatest
  <2>3. made = Max(P)
    BY DEF ProvidersInit
  <2> QED BY <2>1, <2>2, <2>3 DEF ProvidersInit, Existing
<1>2. ProvidersTypeOK
  <2>1. made \in 0..MaxProviders /\ Existing \subseteq 1..made /\ routing \in Settings
    BY <1>1, FirstAssumption, AdminBoundsAssumption DEF ProvidersInit, Existing
  <2>2. \A id \in Existing : providers[id] \in [gemini : BOOLEAN, model : Models, active : BOOLEAN]
    BY FirstAssumption DEF ProvidersInit, Existing
  <2>3. handled \in 0..MaxAdmin /\ \A a \in Admins : admin[a].at = "idle"
    BY AdminBoundsAssumption DEF ProvidersInit, IdleAdmin
  <2> QED BY <2>1, <2>2, <2>3 DEF ProvidersTypeOK
<1>3. RoutesResolve
  BY FirstAssumption DEF ProvidersInit, RoutesResolve, Names, Existing, ToSet
<1>4. PutsOK
  BY DEF ProvidersInit, PutsOK, IdleAdmin
<1>5. admin \in [Admins -> Handling]
  BY DEF ProvidersInit, Handling, IdleAdmin
<1> QED BY <1>2, <1>3, <1>4, <1>5 DEF ProvidersInv, ProvidersTypes

\* A commit makes the open settings requests stale, so that it leaves nothing
\* to show for them.
LEMMA StaledType ==
  ASSUME ProvidersInv
  PROVE  Staled \in [Admins -> Handling] /\ \A a \in Admins : Staled[a].at = admin[a].at
BY DEF Staled, ProvidersInv, ProvidersTypes, Handling

LEMMA StaledPuts ==
  ASSUME ProvidersInv, admin' \in [Admins -> Handling],
         \A a \in Admins : \/ admin'[a] = Staled[a]
                           \/ admin'[a].at # "put"
  PROVE  PutsOK'
<1> SUFFICES ASSUME NEW a \in Admins, admin'[a].at = "put"
             PROVE  admin'[a].put \in Puts /\ admin'[a].stale
  BY DEF PutsOK
<1>1. admin'[a] = [admin[a] EXCEPT !.stale = @ \/ admin[a].at = "put"]
  BY DEF Staled
<1>2. admin[a] \in Handling
  BY DEF ProvidersInv, ProvidersTypes
<1>3. admin'[a].at = admin[a].at /\ admin'[a].put = admin[a].put
      /\ admin'[a].stale = (admin[a].stale \/ admin[a].at = "put")
  BY <1>1, <1>2 DEF Handling
<1> QED BY <1>3 DEF ProvidersInv, PutsOK

LEMMA RoutesLeft ==
  ASSUME RoutesResolve, UNCHANGED routing, Existing \subseteq Existing',
         \A id \in Existing : providers'[id].gemini = providers[id].gemini
  PROVE  RoutesResolve'
BY DEF RoutesResolve, Names

LEMMA ServeType ==
  ASSUME ProvidersTypes, NEW a \in Admins, Serve(a)
  PROVE  handled' \in 0..MaxAdmin /\ admin[a].at = "idle"
BY AdminBoundsAssumption DEF Serve, ProvidersTypes, ProvidersTypeOK

\* What looks up and writes nothing leaves the other requests as they are.
LEMMA LookedUp ==
  ASSUME ProvidersInv, NEW a \in Admins, NEW q \in Handling, q.at # "put",
         admin' = [admin EXCEPT ![a] = q], UNCHANGED <<providers, made, routing>>,
         handled' \in 0..MaxAdmin
  PROVE  ProvidersInv'
<1>1. admin' \in [Admins -> Handling] /\ \A b \in Admins \ {a} : admin'[b] = admin[b]
  BY DEF ProvidersInv, ProvidersTypes
<1>2. ProvidersTypes'
  BY <1>1 DEF ProvidersInv, ProvidersTypes, ProvidersTypeOK, Existing, Handling
<1>3. RoutesResolve'
  BY DEF ProvidersInv, RoutesResolve, Names, Existing
<1>4. PutsOK'
  <2>1. \A put : Acceptable(put)' <=> Acceptable(put)
    BY DEF Acceptable, Names, Existing, VideoIds
  <2>2. ASSUME NEW b \in Admins, admin'[b].at = "put"
        PROVE  admin'[b].put \in Puts /\ (~admin'[b].stale => Acceptable(admin[b].put)')
    <3>1. b # a /\ admin'[b] = admin[b]
      BY <1>1, <2>2 DEF ProvidersInv, ProvidersTypes
    <3>2. admin[b].put \in Puts /\ (~admin[b].stale => Acceptable(admin[b].put))
      BY <2>2, <3>1 DEF ProvidersInv, PutsOK
    <3> PICK put : put = admin[b].put
      OBVIOUS
    <3>3. Acceptable(admin[b].put)' <=> Acceptable(put)'
      BY <3>1 DEF Acceptable
    <3> QED BY <2>1, <3>1, <3>2, <3>3
  <2> QED BY <2>2 DEF PutsOK
<1> QED BY <1>2, <1>3, <1>4 DEF ProvidersInv

\* A commit by the request a; every other one that is open becomes stale.
LEMMA Committed ==
  ASSUME ProvidersInv, NEW a \in Admins,
         admin' = Staled \/ admin' = [Staled EXCEPT ![a] = IdleAdmin],
         made' \in 0..MaxProviders, Existing' \subseteq 1..made',
         \A id \in Existing' : providers'[id] \in Provider,
         routing' \in Settings, handled' \in 0..MaxAdmin, RoutesResolve'
  PROVE  ProvidersInv'
<1>1. IdleAdmin \in Handling /\ IdleAdmin.at = "idle"
  BY DEF IdleAdmin, Handling
<1>2. admin' \in [Admins -> Handling] /\ PutsOK'
  <2>1. admin' \in [Admins -> Handling]
    BY <1>1, StaledType
  <2>2. \A b \in Admins : admin'[b] = Staled[b] \/ admin'[b].at # "put"
    BY <1>1, StaledType
  <2> QED BY <2>1, <2>2, StaledPuts
<1>3. ProvidersTypes'
  BY <1>2 DEF ProvidersTypes, ProvidersTypeOK, Provider, Handling
<1> QED BY <1>2, <1>3 DEF ProvidersInv

LEMMA CreateStep ==
  ASSUME ProvidersInv, NEW a \in Admins
  PROVE  /\ CreateCount(a) => ProvidersInv'
         /\ \A new \in Creations : CreateInsert(a, new) => ProvidersInv'
<1>1. ASSUME CreateCount(a)
      PROVE  ProvidersInv'
  <2> DEFINE q == [IdleAdmin EXCEPT !.at = "create", !.first = (Active = {})]
  <2>1. q \in Handling /\ q.at = "create"
    BY DEF IdleAdmin, Handling
  <2>2. admin' = [admin EXCEPT ![a] = q] /\ UNCHANGED <<providers, made, routing>> /\ Serve(a)
    BY <1>1 DEF CreateCount
  <2> HIDE DEF q
  <2> QED BY <2>1, <2>2, LookedUp, ServeType DEF ProvidersInv
<1>2. ASSUME NEW new \in Creations, CreateInsert(a, new)
      PROVE  ProvidersInv'
  <2>1. /\ admin' = [Staled EXCEPT ![a] = IdleAdmin] /\ UNCHANGED <<routing, handled>>
        /\ made' = made + 1 /\ made < MaxProviders
        /\ Existing' = Existing \cup {made'}
        /\ \A id \in Existing' : providers'[id] = IF id \in Existing THEN providers[id]
             ELSE [gemini |-> new.gemini, model |-> new.model, active |-> admin[a].first]
    BY <1>2 DEF CreateInsert, Existing
  <2>2. made \in 0..MaxProviders /\ Existing \subseteq 1..made
        /\ \A id \in Existing : providers[id] \in Provider
    BY DEF ProvidersInv, ProvidersTypes, ProvidersTypeOK, Provider
  <2>3. made' \in 0..MaxProviders /\ Existing' \subseteq 1..made'
    BY <2>1, <2>2, AdminBoundsAssumption
  <2>4. new.gemini \in BOOLEAN /\ new.model \in Models /\ admin[a].first \in BOOLEAN
    BY CreationsAssumption DEF ProvidersInv, ProvidersTypes, Handling
  <2>5. \A id \in Existing' : providers'[id] \in Provider
    BY <2>1, <2>2, <2>4 DEF Provider
  <2>6. RoutesResolve'
    BY <2>1, RoutesLeft DEF ProvidersInv
  <2>7. routing' \in Settings /\ handled' \in 0..MaxAdmin
    BY <2>1 DEF ProvidersInv, ProvidersTypes, ProvidersTypeOK
  <2> QED BY <2>1, <2>3, <2>5, <2>6, <2>7, Committed
<1> QED BY <1>1, <1>2

LEMMA PatchStep ==
  ASSUME ProvidersInv, NEW a \in Admins, NEW id \in Existing
  PROVE  /\ \A model \in Models : Patch(a, id, model) => ProvidersInv'
         /\ ActivateCheck(a, id) => ProvidersInv'
<1>1. ASSUME NEW model \in Models, Patch(a, id, model)
      PROVE  ProvidersInv'
  <2>1. /\ admin' = Staled /\ UNCHANGED <<made, routing>> /\ Serve(a)
        /\ providers' = [providers EXCEPT ![id].model = model]
    BY <1>1 DEF Patch
  <2>2. made \in 0..MaxProviders /\ Existing \subseteq 1..made /\ routing \in Settings
        /\ \A other \in Existing : providers[other] \in Provider
    BY DEF ProvidersInv, ProvidersTypes, ProvidersTypeOK, Provider
  <2>3. Existing' = Existing
    BY <2>1 DEF Existing
  <2>4. \A other \in Existing : providers'[other] \in Provider
                                /\ providers'[other].gemini = providers[other].gemini
    <3>1. ASSUME NEW other \in Existing
          PROVE  providers'[other] = IF other = id THEN [providers[id] EXCEPT !.model = model]
                                     ELSE providers[other]
      BY <2>1 DEF Existing
    <3> QED BY <2>2, <3>1 DEF Provider
  <2>5. RoutesResolve'
    BY <2>1, <2>3, <2>4, RoutesLeft DEF ProvidersInv
  <2>6. handled' \in 0..MaxAdmin
    BY <2>1, ServeType DEF ProvidersInv
  <2> QED BY <2>1, <2>2, <2>3, <2>4, <2>5, <2>6, Committed
<1>2. ASSUME ActivateCheck(a, id)
      PROVE  ProvidersInv'
  <2> DEFINE q == [IdleAdmin EXCEPT !.at = "activate", !.id = id]
  <2>1. q \in Handling /\ q.at = "activate"
    <3>1. id \in Nat
      BY DEF ProvidersInv, ProvidersTypes, ProvidersTypeOK
    <3> QED BY <3>1 DEF IdleAdmin, Handling
  <2>2. admin' = [admin EXCEPT ![a] = q] /\ UNCHANGED <<providers, made, routing>> /\ Serve(a)
    BY <1>2 DEF ActivateCheck
  <2> HIDE DEF q
  <2> QED BY <2>1, <2>2, LookedUp, ServeType DEF ProvidersInv
<1> QED BY <1>1, <1>2

LEMMA ActivateStep ==
  ASSUME ProvidersInv, NEW a \in Admins, ActivateCommit(a)
  PROVE  ProvidersInv'
<1>1. /\ admin' = [Staled EXCEPT ![a] = IdleAdmin] /\ UNCHANGED <<made, routing, handled>>
      /\ providers' = [id \in Existing |-> [providers[id] EXCEPT !.active = (id = admin[a].id)]]
  BY DEF ActivateCommit
<1>2. made \in 0..MaxProviders /\ Existing \subseteq 1..made /\ routing \in Settings
      /\ \A id \in Existing : providers[id] \in Provider
  BY DEF ProvidersInv, ProvidersTypes, ProvidersTypeOK, Provider
<1>3. Existing' = Existing
  BY <1>1 DEF Existing
<1>4. \A id \in Existing : providers'[id] \in Provider /\ providers'[id].gemini = providers[id].gemini
  BY <1>1, <1>2 DEF Provider
<1>5. RoutesResolve'
  BY <1>1, <1>3, <1>4, RoutesLeft DEF ProvidersInv
<1>6. handled' \in 0..MaxAdmin
  BY <1>1 DEF ProvidersInv, ProvidersTypes, ProvidersTypeOK
<1> QED BY <1>1, <1>2, <1>3, <1>4, <1>5, <1>6, Committed

LEMMA SettingsSeq ==
  ASSUME NEW ids \in Seq(Int)
  PROVE  Len(ids) \in Nat /\ DOMAIN ids = 1..Len(ids)
OBVIOUS

\* Deleting a provider takes it from both routes, and nothing else.
LEMMA RemovedIds ==
  ASSUME NEW ids \in Seq(Int), NEW S, NEW id, Kept(ids, ToSet(ids) \ {id}) = S
  PROVE  /\ S \in Seq(Int) /\ ToSet(S) = ToSet(ids) \ {id}
         /\ IsInjective(ids) => IsInjective(S)
<1> DEFINE T == ToSet(ids) \ {id}
<1>1. Len(ids) \in Nat /\ DOMAIN ids = 1..Len(ids)
  BY SettingsSeq
<1>2. /\ S \in Seq(T) /\ ToSet(S) = ToSet(ids) \cap T
      /\ IsInjective(ids) => IsInjective(S)
  BY <1>1, KeptEntries
<1>3. T \subseteq Int
  BY DEF ToSet
<1> QED BY <1>2, <1>3

LEMMA EmptyIds == <<>> \in Seq(Int) /\ ToSet(<<>>) = {} /\ IsInjective(<<>>)
BY DEF ToSet, IsInjective

LEMMA UnsetId == Unset \in Seq(Int) /\ ToSet(Unset) = {0}
BY DEF Unset, ToSet

LEMMA DeleteStep ==
  ASSUME ProvidersInv, NEW a \in Admins, NEW id \in Existing, Delete(a, id)
  PROVE  ProvidersInv'
<1>1. /\ admin' = Staled /\ UNCHANGED made /\ Serve(a)
      /\ providers' = [other \in Existing \ {id} |-> providers[other]]
      /\ routing' = RemovedFromRoutes(id)
  BY DEF Delete
<1>2. /\ made \in 0..MaxProviders /\ Existing \subseteq 1..made /\ routing \in Settings
      /\ \A other \in Existing : providers[other] \in Provider
  BY DEF ProvidersInv, ProvidersTypes, ProvidersTypeOK, Provider
<1>3. Existing' = Existing \ {id}
  BY <1>1 DEF Existing
<1>4. \A other \in Existing' : providers'[other] = providers[other] /\ providers'[other] \in Provider
  BY <1>1, <1>2, <1>3
<1> PICK textIds, videoIds : textIds = routing.textIds /\ videoIds = routing.videoIds
  OBVIOUS
<1> DEFINE text == Removed(id, routing.textMode, textIds, Unset)
           video == Removed(id, routing.videoMode, videoIds, <<>>)
<1>5. textIds \in Seq(Int) /\ videoIds \in Seq(Int)
  BY <1>2 DEF Settings
<1>6. text \in Seq(Int) /\ (text = Unset \/ (IsInjective(text) /\ ToSet(text) \subseteq Existing \ {id}))
  <2> DEFINE left == Kept(textIds, ToSet(textIds) \ {id})
  <2>1. /\ left \in Seq(Int) /\ ToSet(left) = ToSet(textIds) \ {id}
        /\ IsInjective(textIds) => IsInjective(left)
    BY <1>5, RemovedIds
  <2>2. text = IF left = <<>> /\ textIds # <<>> /\ routing.textMode = "single" THEN Unset ELSE left
    BY DEF Removed
  <2>3. CASE textIds = Unset
    <3>1. 0 \in ToSet(textIds) \ {id}
      BY <1>2, <2>3, UnsetId
    <3>2. left = Unset
      BY <2>3, <3>1, KeptUnset
    <3> HIDE DEF left
    <3> QED BY <2>2, <3>2, UnsetId
  <2>4. CASE textIds # Unset
    <3>1. IsInjective(textIds) /\ ToSet(textIds) \subseteq Existing
      BY <2>4 DEF ProvidersInv, RoutesResolve, Names
    <3> HIDE DEF left
    <3> QED BY <2>1, <2>2, <3>1, UnsetId
  <2> QED BY <2>3, <2>4
<1>7. video \in Seq(Int) /\ IsInjective(video) /\ ToSet(video) \subseteq ToSet(videoIds) \ {id}
  <2> DEFINE left == Kept(videoIds, ToSet(videoIds) \ {id})
  <2>1. /\ left \in Seq(Int) /\ ToSet(left) = ToSet(videoIds) \ {id}
        /\ IsInjective(videoIds) => IsInjective(left)
    BY <1>5, RemovedIds
  <2>2. video = left \/ video = <<>>
    BY DEF Removed
  <2>3. IsInjective(videoIds)
    BY DEF ProvidersInv, RoutesResolve, Names
  <2> HIDE DEF left, video
  <2> QED BY <2>1, <2>2, <2>3, EmptyIds
<1>8. routing' \in Settings /\ routing'.textIds = text /\ routing'.videoIds = video
  <2>1. routing' = [routing EXCEPT !.textIds = text, !.videoIds = video]
    BY <1>1 DEF RemovedFromRoutes
  <2> HIDE DEF text, video
  <2> QED BY <1>2, <1>6, <1>7, <2>1 DEF Settings
<1> HIDE DEF text, video
<1>9. RoutesResolve'
  <2>1. routing'.textIds = Unset \/ Names(routing.textIds)'
    BY <1>3, <1>6, <1>8 DEF Names
  <2>2. \A other \in ToSet(videoIds) : other \in Existing /\ providers[other].gemini
    BY DEF ProvidersInv, RoutesResolve, Names
  <2>3. \A other \in ToSet(video) : other \in Existing' /\ providers'[other].gemini
    BY <1>3, <1>4, <1>7, <2>2
  <2> QED BY <1>7, <1>8, <2>1, <2>3 DEF RoutesResolve, Names
<1>10. handled' \in 0..MaxAdmin
  BY <1>1, ServeType DEF ProvidersInv
<1> QED BY <1>1, <1>2, <1>3, <1>4, <1>8, <1>9, <1>10, Committed

LEMMA PutReadStep ==
  ASSUME ProvidersInv, NEW a \in Admins, NEW put \in Puts, PutRead(a, put)
  PROVE  ProvidersInv'
<1> DEFINE q == [IdleAdmin EXCEPT !.at = "put", !.put = put]
<1>1. q \in Handling /\ q.at = "put" /\ q.put = put
  BY DEF IdleAdmin, Handling
<1>2. admin' = [admin EXCEPT ![a] = q] /\ UNCHANGED <<providers, made, routing>> /\ Serve(a)
  BY DEF PutRead
<1> HIDE DEF q
<1>3. handled' \in 0..MaxAdmin
  BY <1>2, ServeType DEF ProvidersInv
<1>4. /\ admin' \in [Admins -> Handling] /\ admin'[a] = q
      /\ \A b \in Admins \ {a} : admin'[b] = admin[b]
  BY <1>1, <1>2 DEF ProvidersInv, ProvidersTypes
<1>5. ProvidersTypes'
  BY <1>2, <1>3, <1>4 DEF ProvidersInv, ProvidersTypes, ProvidersTypeOK, Existing, Handling
<1>6. RoutesResolve'
  BY <1>2 DEF ProvidersInv, RoutesResolve, Names, Existing
<1>7. PutsOK'
  <2>1. \A other : Acceptable(other)' <=> Acceptable(other)
    BY <1>2 DEF Acceptable, Names, Existing, VideoIds
  <2>2. ASSUME NEW b \in Admins, admin'[b].at = "put"
        PROVE  admin'[b].put \in Puts /\ (~admin'[b].stale => Acceptable(admin[b].put)')
    <3> PICK other : other = admin'[b].put
      OBVIOUS
    <3>1. Acceptable(admin[b].put)' <=> Acceptable(other)'
      BY DEF Acceptable
    <3>2. other \in Puts /\ (~admin'[b].stale => Acceptable(other))
      <4>1. CASE b = a
        <5>1. Acceptable(put)
          BY DEF PutRead
        <5> QED BY <1>1, <1>4, <4>1, <5>1
      <4>2. CASE b # a
        <5>1. admin'[b] = admin[b]
          BY <1>4, <4>2
        <5> QED BY <2>2, <5>1 DEF ProvidersInv, PutsOK
      <4> QED BY <4>1, <4>2
    <3> QED BY <2>1, <3>1, <3>2
  <2> QED BY <2>2 DEF PutsOK
<1> QED BY <1>5, <1>6, <1>7 DEF ProvidersInv

LEMMA PutWriteStep ==
  ASSUME ProvidersInv, NEW a \in Admins, PutWrite(a)
  PROVE  ProvidersInv'
<1>1. CASE admin[a].stale
  <2>1. admin' = [admin EXCEPT ![a] = IdleAdmin] /\ UNCHANGED <<providers, made, routing, handled>>
    BY <1>1 DEF PutWrite
  <2>2. IdleAdmin \in Handling /\ IdleAdmin.at # "put"
    BY DEF IdleAdmin, Handling
  <2>3. handled' \in 0..MaxAdmin
    BY <2>1 DEF ProvidersInv, ProvidersTypes, ProvidersTypeOK
  <2> QED BY <2>1, <2>2, <2>3, LookedUp
<1>2. CASE ~admin[a].stale
  <2> PICK put : put = admin[a].put
    OBVIOUS
  <2>1. /\ admin' = [Staled EXCEPT ![a] = IdleAdmin] /\ UNCHANGED <<providers, made, handled>>
        /\ routing' = [key \in DOMAIN routing |-> IF key \in DOMAIN put THEN put[key] ELSE routing[key]]
    BY <1>2 DEF PutWrite
  <2>2. put \in Puts /\ Acceptable(put)
    BY <1>2 DEF PutWrite, ProvidersInv, PutsOK
  <2>3. /\ made \in 0..MaxProviders /\ Existing \subseteq 1..made /\ routing \in Settings
        /\ \A id \in Existing : providers[id] \in Provider
        /\ handled \in 0..MaxAdmin
    BY DEF ProvidersInv, ProvidersTypes, ProvidersTypeOK, Provider
  <2>4. DOMAIN routing = {"textMode", "textIds", "videoMode", "videoIds"}
    BY <2>3 DEF Settings
  <2>5. /\ "textMode" \in DOMAIN put => put["textMode"] \in Modes
        /\ "videoMode" \in DOMAIN put => put["videoMode"] \in Modes
        /\ "textIds" \in DOMAIN put => put["textIds"] \in Seq(Int)
        /\ "videoIds" \in DOMAIN put => put["videoIds"] \in Seq(Int)
    BY <2>2, PutsAssumption
  <2>6. /\ routing.textMode \in Modes /\ routing.videoMode \in Modes
        /\ routing.textIds \in Seq(Int) /\ routing.videoIds \in Seq(Int)
    BY <2>3 DEF Settings
  <2>7. routing' \in Settings
    <3> PICK textMode \in Modes, textIds \in Seq(Int), videoMode \in Modes, videoIds \in Seq(Int) :
          /\ textMode = IF "textMode" \in DOMAIN put THEN put["textMode"] ELSE routing["textMode"]
          /\ textIds = IF "textIds" \in DOMAIN put THEN put["textIds"] ELSE routing["textIds"]
          /\ videoMode = IF "videoMode" \in DOMAIN put THEN put["videoMode"] ELSE routing["videoMode"]
          /\ videoIds = IF "videoIds" \in DOMAIN put THEN put["videoIds"] ELSE routing["videoIds"]
      BY <2>5, <2>6
    <3>1. routing' = [textMode |-> textMode, textIds |-> textIds,
                      videoMode |-> videoMode, videoIds |-> videoIds]
      BY <2>1, <2>4
    <3> QED BY <3>1 DEF Settings
  <2>8. /\ routing'.textIds = IF "textIds" \in DOMAIN put THEN put.textIds ELSE routing.textIds
        /\ routing'.videoIds = IF "videoIds" \in DOMAIN put THEN put.videoIds ELSE routing.videoIds
    BY <2>1, <2>4
  <2>9. RoutesResolve'
    <3>1. \A ids : Names(ids)' <=> Names(ids)
      BY <2>1 DEF Names, Existing
    <3>2. routing'.textIds = Unset \/ Names(routing'.textIds)
      BY <2>2, <2>8 DEF Acceptable, ProvidersInv, RoutesResolve
    <3>3. Names(routing'.videoIds) /\ \A id \in ToSet(routing'.videoIds) : providers[id].gemini
      BY <2>2, <2>8 DEF Acceptable, ProvidersInv, RoutesResolve
    <3> QED BY <2>1, <3>1, <3>2, <3>3 DEF RoutesResolve, Names, Existing
  <2>10. Existing' = Existing
    BY <2>1 DEF Existing
  <2> QED BY <2>1, <2>3, <2>7, <2>9, <2>10, Committed
<1> QED BY <1>1, <1>2

LEMMA ProvidersStep ==
  ASSUME ProvidersInv, [ProvidersNext]_config
  PROVE  ProvidersInv'
<1>1. CASE ProvidersNext
  BY <1>1, CreateStep, PatchStep, ActivateStep, DeleteStep, PutReadStep, PutWriteStep
  DEF ProvidersNext
<1>2. CASE UNCHANGED config
  BY <1>2 DEF config, ProvidersInv, ProvidersTypes, ProvidersTypeOK, RoutesResolve, PutsOK,
     Names, Existing, Acceptable, VideoIds, Handling
<1> QED BY <1>1, <1>2

\* routes/ai.rs: in every reachable state, with any number of requests of
\* admins that overlap, the routes name providers that exist, each once, and
\* the video route only Gemini ones.
THEOREM Resolves == ProvidersSpec => []RoutesResolve
<1>1. ProvidersInit => ProvidersInv
  BY ProvidersStart
<1>2. ProvidersInv /\ [ProvidersNext]_config => ProvidersInv'
  BY ProvidersStep
<1>3. ProvidersInv => RoutesResolve
  BY DEF ProvidersInv
<1> QED BY <1>1, <1>2, <1>3, PTL DEF ProvidersSpec

----------------------------------------------------------------------------
(* Routes and jobs.                                                        *)

LEMMA SelectedDomain ==
  ASSUME NEW ids \in Seq(Int), NEW mode
  PROVE  \E k \in Nat : DOMAIN Selected(mode, ids) = 1..k
<1>1. CASE mode = "ordered"
  BY <1>1, SettingsSeq DEF Selected
<1>2. CASE mode # "ordered"
  <2>1. Len(ids) \in Nat
    OBVIOUS
  <2>2. \E m \in {1, Len(ids)} : \A l \in {1, Len(ids)} : m <= l
    <3>1. CASE Len(ids) = 0
      BY <3>1
    <3>2. CASE Len(ids) > 0
      BY <2>1, <3>2
    <3> QED BY <2>1, <3>1, <3>2
  <2>3. Min({1, Len(ids)}) \in {0, 1} /\ Min({1, Len(ids)}) <= Len(ids)
    BY <2>1, <2>2 DEF Min
  <2>4. DOMAIN SubSeq(ids, 1, Min({1, Len(ids)})) = 1..Min({1, Len(ids)})
    <3> PICK n \in {0, 1} : n = Min({1, Len(ids)})
      BY <2>3
    <3>1. DOMAIN SubSeq(ids, 1, n) = 1..n
      BY <2>1, <2>3
    <3> QED BY <3>1
  <2> QED BY <1>2, <2>3, <2>4 DEF Selected
<1> QED BY <1>1, <1>2

LEMMA ResolvedRoute ==
  ASSUME ProvidersTypes, NEW k \in Nat, NEW ids, DOMAIN ids = 1..k, NEW S \in SUBSET Existing
  PROVE  Resolved(Kept(ids, S)) \in Route
<1> PICK kept : kept = Kept(ids, S)
  OBVIOUS
<1>1. kept \in Seq(S)
  BY KeptEntries
<1>2. \A n \in DOMAIN kept : kept[n] \in Existing
  BY <1>1
<1>3. Existing \subseteq Nat /\ \A id \in Existing : providers[id].model \in Models
  BY DEF ProvidersTypes, ProvidersTypeOK
<1>4. Resolved(kept) = [n \in 1..Len(kept) |-> [id |-> kept[n], model |-> providers[kept[n]].model]]
      /\ Len(kept) \in Nat
  BY <1>1 DEF Resolved
<1>5. Resolved(kept) \in Route
  <2>1. ASSUME NEW n \in 1..Len(kept)
        PROVE  [id |-> kept[n], model |-> providers[kept[n]].model] \in [id : Nat, model : Models]
    <3>1. n \in DOMAIN kept
      BY <1>1
    <3>2. kept[n] \in Nat /\ providers[kept[n]].model \in Models
      BY <3>1, <1>2, <1>3
    <3> QED BY <3>2
  <2> QED BY <1>4, <2>1 DEF Route
<1> QED BY <1>5

LEMMA Routes ==
  ASSUME ProvidersTypes
  PROVE  TextRoute \in Route /\ \A i : NativeRoute(i) \in Route
<1>1. routing.textIds \in Seq(Int) /\ routing.videoIds \in Seq(Int)
  BY DEF ProvidersTypes, ProvidersTypeOK, Settings
<1>2. \E k \in Nat : DOMAIN VideoIds = 1..k
  BY <1>1, SelectedDomain DEF VideoIds
<1>3. VideoRoute \in Route
  <2> DEFINE S == {id \in Existing : providers[id].gemini}
  <2>1. S \in SUBSET Existing
    OBVIOUS
  <2> HIDE DEF S
  <2>2. Resolved(Kept(VideoIds, S)) \in Route
    BY <1>2, <2>1, ResolvedRoute
  <2> QED BY <2>2 DEF VideoRoute, S
<1>4. \E k \in Nat : DOMAIN TextIds = 1..k
  <2>1. CASE routing.textIds # Unset
    BY <1>1, <2>1, SelectedDomain DEF TextIds
  <2>2. CASE routing.textIds = Unset
    <3>1. DOMAIN <<>> = 1..0 /\ DOMAIN <<Min(Active)>> = 1..1
      OBVIOUS
    <3> QED BY <2>2, <3>1 DEF TextIds
  <2> QED BY <2>1, <2>2
<1>5. TextRoute \in Route
  <2> DEFINE S == Existing \ ToSet(VideoIds)
  <2>1. S \in SUBSET Existing
    OBVIOUS
  <2> HIDE DEF S
  <2>2. Resolved(Kept(TextIds, S)) \in Route
    BY <1>4, <2>1, ResolvedRoute
  <2> QED BY <2>2 DEF TextRoute, S
<1>6. \A i : NativeRoute(i) \in Route
  <2>1. <<>> \in Route
    BY DEF Route
  <2> QED BY <1>3, <2>1 DEF NativeRoute
<1> QED BY <1>5, <1>6

\* What a job has asked for stays while it goes on.
JobOK(q) == q \in Job /\ LeftOK(q)
Kin(p, q) == q.item = p.item /\ q.text = p.text /\ q.native = p.native
Moves(j, q) ==
  /\ JobOK(q) /\ job' = [job EXCEPT ![j] = q]
  /\ q = IdleJob \/ Kin(job[j], q)

LEMMA IdleJobOK == JobOK(IdleJob) /\ IdleJob.at = "idle"
<1>1. <<>> \in Route
  BY DEF Route
<1> QED BY <1>1 DEF JobOK, Job, Stages, IdleJob, LeftOK

LEMMA AskedMoves ==
  ASSUME ProvidersTypes, SummariesTypes, NEW j \in Jobs, NEW i, i \in here, job' = Asked(j, i)
  PROVE  \E q : JobOK(q) /\ job' = [job EXCEPT ![j] = q] /\ q.at = "native" /\ q.item = i
<1> DEFINE q == [IdleJob EXCEPT !.at = "native", !.item = i, !.text = TextRoute,
                   !.native = NativeRoute(i), !.left = NativeRoute(i), !.status = transcript[i]]
<1>1. TextRoute \in Route /\ NativeRoute(i) \in Route /\ transcript[i] \in {"none", "fetched", "unavailable"}
      /\ i \in Items
  BY Routes DEF SummariesTypes, TypeOK
<1>2. /\ q \in Job /\ q.at = "native" /\ q.item = i /\ q.left = q.native
  BY <1>1 DEF IdleJob, Job, Stages
<1>3. job' = [job EXCEPT ![j] = q]
  BY DEF Asked
<1> HIDE DEF q
<1>4. LeftOK(q)
  BY <1>2 DEF LeftOK
<1> QED BY <1>2, <1>3, <1>4 DEF JobOK

\* What neither counts nor starts a call that the budget forbids.
Quiet(j, q) ==
  /\ Moves(j, q) /\ ~Recording(j) /\ q.at \notin {"read", "write"}
  /\ q.at = "call" => job[j].at = "call" \/ Affordable

LEMMA LeaveMoves ==
  ASSUME SummariesTypes, NEW j \in Jobs, Leave(j), ~Recording(j)
  PROVE  \E q : Quiet(j, q) /\ q.at = "idle"
BY IdleJobOK DEF Leave, Quiet, Moves

LEMMA NativeMoves ==
  ASSUME SummariesTypes, NEW j \in Jobs, Native(j)
  PROVE  \E q : Quiet(j, q)
<1>1. job[j] \in Job /\ LeftOK(job[j]) /\ job[j].at = "native" /\ ~Recording(j)
  BY DEF SummariesTypes, Native, Recording
<1>2. CASE job[j].left = <<>>
  <2> DEFINE q == [job[j] EXCEPT !.at = "transcript"]
  <2>1. q \in Job /\ q.at = "transcript" /\ Kin(job[j], q)
    BY <1>1 DEF Job, Stages, Kin
  <2>2. job' = [job EXCEPT ![j] = q]
    BY <1>2 DEF Native, Go, SummariesTypes
  <2> HIDE DEF q
  <2> QED BY <1>1, <2>1, <2>2 DEF Quiet, Moves, JobOK, LeftOK
<1>3. CASE job[j].left # <<>> /\ Affordable
  <2> DEFINE q == [job[j] EXCEPT !.at = "call", !.via = "native"]
  <2>1. /\ q \in Job /\ q.at = "call" /\ q.via = "native" /\ q.left = job[j].left
        /\ Kin(job[j], q)
    BY <1>1 DEF Job, Stages, Kin
  <2>2. job' = [job EXCEPT ![j] = q]
    BY <1>3 DEF Native, SummariesTypes
  <2> HIDE DEF q
  <2>3. LeftOK(q)
    BY <1>1, <1>3, <2>1 DEF LeftOK, RouteOf, Kin
  <2> QED BY <1>1, <1>3, <2>1, <2>2, <2>3 DEF Quiet, Moves, JobOK
<1>4. CASE job[j].left # <<>> /\ ~Affordable
  BY <1>1, <1>4, LeaveMoves DEF Native
<1> QED BY <1>2, <1>3, <1>4

LEMMA TranscriptMoves ==
  ASSUME SummariesTypes, NEW j \in Jobs, NEW captions \in Captions, FetchAndStore(j, captions)
  PROVE  \E q : Quiet(j, q)
<1>1. job[j] \in Job /\ job[j].at = "transcript" /\ ~Recording(j)
  BY DEF SummariesTypes, FetchAndStore, Recording
<1> DEFINE q == [job[j] EXCEPT !.at = "text", !.status = "none"]
<1>2. q \in Job /\ q.at = "text" /\ Kin(job[j], q)
  BY <1>1 DEF Job, Stages, Kin
<1>3. Leave(j) \/ job' = [job EXCEPT ![j] = q]
  BY DEF FetchAndStore, SummariesTypes
<1> HIDE DEF q
<1>4. CASE job' = [job EXCEPT ![j] = q]
  BY <1>1, <1>2, <1>4 DEF Quiet, Moves, JobOK, LeftOK
<1> QED BY <1>1, <1>3, <1>4, LeaveMoves

LEMMA TextMoves ==
  ASSUME SummariesTypes, NEW j \in Jobs, NEW empty \in BOOLEAN, Text(j, empty)
  PROVE  \E q : Quiet(j, q)
<1>1. job[j] \in Job /\ job[j].at = "text" /\ ~Recording(j)
  BY DEF SummariesTypes, Text, Recording
<1> DEFINE q == [job[j] EXCEPT !.at = "call", !.via = "text", !.left = job[j].text]
<1>2. /\ q \in Job /\ q.at = "call" /\ q.via = "text" /\ q.left = job[j].text
      /\ Kin(job[j], q)
  BY <1>1 DEF Job, Stages, Kin
<1>3. CASE empty \/ ~Affordable \/ job[j].text = <<>>
  BY <1>1, <1>3, LeaveMoves DEF Text
<1>4. CASE ~(empty \/ ~Affordable \/ job[j].text = <<>>)
  <2>1. job' = [job EXCEPT ![j] = q]
    BY <1>4 DEF Text, SummariesTypes
  <2> HIDE DEF q
  <2>2. LeftOK(q)
    BY <1>2, <1>4 DEF LeftOK, RouteOf, Kin
  <2> QED BY <1>1, <1>2, <1>4, <2>1, <2>2 DEF Quiet, Moves, JobOK
<1> QED BY <1>3, <1>4

LEMMA HeadSeq ==
  ASSUME NEW S, NEW s \in Seq(S), s # <<>>
  PROVE  Head(s) \in S /\ Head(s) \in ToSet(s)
<1>1. Len(s) \in Nat /\ Len(s) # 0 /\ Head(s) = s[1]
  OBVIOUS
<1>2. 1 \in DOMAIN s
  BY <1>1
<1> QED BY <1>1, <1>2 DEF ToSet

LEMMA TailSeq ==
  ASSUME NEW S, NEW s \in Seq(S), s # <<>>
  PROVE  /\ Tail(s) \in Seq(S) /\ (Len(s) > 1 => Tail(s) # <<>>)
         /\ ToSet(Tail(s)) \subseteq ToSet(s)
<1>1. Tail(s) \in Seq(S) /\ Len(Tail(s)) = Len(s) - 1 /\ Len(s) \in Nat
      /\ \A n \in 1..(Len(s) - 1) : Tail(s)[n] = s[n + 1]
  OBVIOUS
<1>2. Len(s) > 1 => Tail(s) # <<>>
  <2> PICK n, tail : n = Len(s) /\ tail = Tail(s)
    OBVIOUS
  <2>1. Len(tail) = n - 1 /\ n \in Nat
    BY <1>1
  <2>2. tail = <<>> => Len(tail) = 0
    OBVIOUS
  <2>3. n > 1 => tail # <<>>
    BY <2>1, <2>2
  <2> QED BY <2>3
<1>3. \A n \in 1..(Len(s) - 1) : n + 1 \in DOMAIN s
  BY <1>1
<1>4. DOMAIN Tail(s) = 1..(Len(s) - 1)
  BY <1>1
<1>5. ToSet(Tail(s)) \subseteq ToSet(s)
  BY <1>1, <1>3, <1>4 DEF ToSet
<1> QED BY <1>1, <1>2, <1>5

LEMMA FailMoves ==
  ASSUME SummariesTypes, NEW j \in Jobs, CallFail(j) \/ Fail(j)
  PROVE  \E q : Quiet(j, q)
<1>1. job[j] \in Job /\ LeftOK(job[j]) /\ ~Recording(j)
  BY DEF SummariesTypes, CallFail, Fail, Recording
<1>2. CASE CallFail(j)
  <2> DEFINE at == IF job[j].via = "native" THEN "native"
                   ELSE IF Len(job[j].left) > 1 THEN "call" ELSE "failed"
             q == [job[j] EXCEPT !.left = Tail(@), !.at = at]
  <2>1. /\ job[j].at = "call" /\ job[j].left \in Route /\ job[j].left # <<>>
        /\ ToSet(job[j].left) \subseteq ToSet(RouteOf(job[j]))
    BY <1>1, <1>2 DEF CallFail, LeftOK, Job
  <2>2. Tail(job[j].left) \in Route /\ (Len(job[j].left) > 1 => Tail(job[j].left) # <<>>)
        /\ ToSet(Tail(job[j].left)) \subseteq ToSet(job[j].left)
    BY <2>1, TailSeq DEF Route
  <2>3. at \in {"native", "call", "failed"}
    OBVIOUS
  <2> HIDE DEF at
  <2>4. /\ q \in Job /\ q.at = at /\ q.left = Tail(job[j].left) /\ q.via = job[j].via
        /\ Kin(job[j], q)
    BY <1>1, <2>2, <2>3 DEF Job, Stages, Kin
  <2>5. job' = [job EXCEPT ![j] = q]
    BY <1>2 DEF CallFail, SummariesTypes, at
  <2> HIDE DEF q
  <2>6. LeftOK(q)
    BY <2>1, <2>2, <2>4 DEF LeftOK, RouteOf, Kin, at
  <2> QED BY <1>1, <2>1, <2>3, <2>4, <2>5, <2>6 DEF Quiet, Moves, JobOK
<1>3. CASE Fail(j)
  BY <1>1, <1>3, LeaveMoves DEF Fail
<1> QED BY <1>2, <1>3

LEMMA OkMoves ==
  ASSUME SummariesTypes, NEW j \in Jobs, NEW tokens \in Tokens, CallOk(j, tokens)
  PROVE  \E q : /\ Moves(j, q) /\ job[j].at = "call"
                /\ q.at = IF tokens > 0 THEN "read" ELSE "store"
                /\ tokens > 0 => q.day = day /\ q.count = tokens
<1> DEFINE at == IF tokens > 0 THEN "read" ELSE "store"
           date == IF tokens > 0 THEN day ELSE 0
           q == [job[j] EXCEPT !.at = at, !.day = date, !.count = tokens]
<1>1. job[j] \in Job /\ LeftOK(job[j]) /\ job[j].at = "call"
  BY DEF SummariesTypes, CallOk
<1>2. at \in {"read", "store"} /\ date \in Nat /\ tokens \in Nat
  BY CallsAssumption DEF SummariesTypes
<1>3. job' = [job EXCEPT ![j] = q]
  BY DEF CallOk, SummariesTypes
<1> HIDE DEF at, date
<1>4. /\ q \in Job /\ q.at = at /\ q.day = date /\ q.count = tokens
      /\ q.left = job[j].left /\ q.via = job[j].via /\ Kin(job[j], q)
  BY <1>1, <1>2 DEF Job, Stages, Kin
<1> HIDE DEF q
<1>5. LeftOK(q)
  BY <1>1, <1>2, <1>4 DEF LeftOK, RouteOf, Kin
<1> QED BY <1>1, <1>3, <1>4, <1>5 DEF Moves, JobOK, at, date

LEMMA BumpMoves ==
  ASSUME SummariesTypes, NEW j \in Jobs
  PROVE  /\ BumpRead(j) => \E q :
              /\ Moves(j, q) /\ job[j].at = "read" /\ q.at = "write" /\ q.day = job[j].day
              /\ q.count = job[j].count + Counted(job[j].day)
         /\ BumpWrite(j) => \E q : Moves(j, q) /\ job[j].at = "write" /\ q.at = "store"
<1>1. job[j] \in Job /\ LeftOK(job[j]) /\ job[j].day \in Nat /\ job[j].count \in Nat
  BY DEF SummariesTypes, Job
<1>2. Counted(job[j].day) \in Nat
  BY DEF SummariesTypes, Counted
<1>3. ASSUME BumpRead(j)
      PROVE  \E q :
              /\ Moves(j, q) /\ job[j].at = "read" /\ q.at = "write" /\ q.day = job[j].day
              /\ q.count = job[j].count + Counted(job[j].day)
  <2> DEFINE count == job[j].count + Counted(job[j].day)
             q == [job[j] EXCEPT !.at = "write", !.count = count]
  <2>1. job' = [job EXCEPT ![j] = q] /\ job[j].at = "read"
    BY <1>3 DEF BumpRead, SummariesTypes
  <2>2. count \in Nat
    BY <1>1, <1>2
  <2> HIDE DEF count
  <2>3. /\ q \in Job /\ q.at = "write" /\ q.day = job[j].day /\ q.count = count
        /\ q.left = job[j].left /\ q.via = job[j].via /\ Kin(job[j], q)
    BY <1>1, <2>2 DEF Job, Stages, Kin
  <2> HIDE DEF q
  <2>4. LeftOK(q)
    BY <1>1, <2>1, <2>3 DEF LeftOK, RouteOf, Kin
  <2> QED BY <2>1, <2>3, <2>4 DEF Moves, JobOK, count
<1>4. ASSUME BumpWrite(j)
      PROVE  \E q : Moves(j, q) /\ job[j].at = "write" /\ q.at = "store"
  <2> DEFINE q == [job[j] EXCEPT !.at = "store", !.day = 0, !.count = 0]
  <2>1. job' = [job EXCEPT ![j] = q] /\ job[j].at = "write"
    BY <1>4 DEF BumpWrite, SummariesTypes
  <2>2. /\ q \in Job /\ q.at = "store" /\ q.left = job[j].left /\ q.via = job[j].via
        /\ Kin(job[j], q)
    BY <1>1 DEF Job, Stages, Kin
  <2> HIDE DEF q
  <2>3. LeftOK(q)
    BY <1>1, <2>1, <2>2 DEF LeftOK, RouteOf, Kin
  <2> QED BY <2>1, <2>2, <2>3 DEF Moves, JobOK
<1> QED BY <1>3, <1>4

----------------------------------------------------------------------------
(* Types of the summaries.                                                 *)

LEMMA ProvidersUnchanged ==
  ASSUME ProvidersInv, UNCHANGED config
  PROVE  ProvidersInv'
BY ProvidersStep

LEMMA ProvidersCommit ==
  ASSUME ProvidersInv, Commit
  PROVE  ProvidersInv'
<1>1. admin' = Staled /\ UNCHANGED <<providers, made, routing, handled>>
  BY DEF Commit
<1>2. admin' \in [Admins -> Handling] /\ PutsOK'
  BY <1>1, StaledType, StaledPuts
<1> QED BY <1>1, <1>2 DEF ProvidersInv, ProvidersTypes, ProvidersTypeOK, RoutesResolve, Names,
     Existing, Handling

LEMMA ProvidersCrash ==
  ASSUME ProvidersInv, Crash
  PROVE  ProvidersInv'
<1>1. IdleAdmin \in Handling /\ IdleAdmin.at = "idle"
  BY DEF IdleAdmin, Handling
<1>2. admin' = [a \in Admins |-> IdleAdmin] /\ UNCHANGED <<providers, made, routing, handled>>
  BY DEF Crash
<1>3. admin' \in [Admins -> Handling] /\ PutsOK'
  BY <1>1, <1>2 DEF PutsOK
<1> QED BY <1>2, <1>3 DEF ProvidersInv, ProvidersTypes, ProvidersTypeOK, RoutesResolve, Names,
     Existing, Handling

LEMMA NextProviders ==
  ASSUME ProvidersInv, [Next]_vars
  PROVE  ProvidersInv'
<1> USE ProvidersUnchanged, ProvidersCommit
<1>1. CASE Configure
  BY <1>1, ProvidersStep DEF Configure
<1>2. ASSUME NEW j \in Requests, NEW i \in Items, NEW force \in BOOLEAN, Request(j, i, force)
      PROVE  ProvidersInv'
  BY <1>2 DEF Request
<1>3. ASSUME NEW j \in Jobs, JobStep(j)
      PROVE  ProvidersInv'
  BY <1>3 DEF JobStep, Native, BumpRead, BumpWrite, Store, CallFail, Fail, FetchAndStore, Text, CallOk
<1>4. CASE WorkerStep \/ ClearFails
  BY <1>4 DEF WorkerStep, NotLimited, RemovedLive, Forget, Fetched, SelectDue, StartItem, RateLimited,
    Attempt, ClearMarker, ClearFails
<1>5. ASSUME NEW i \in Items, Purge(i) \/ \E auto \in BOOLEAN : Arrive(i, auto /\ i \in Videos)
      PROVE  ProvidersInv'
  BY <1>5 DEF Purge, Forget, Arrive
<1>6. CASE NextDay
  BY <1>6 DEF NextDay
<1>7. CASE Crash
  BY <1>7, ProvidersCrash
<1>8. CASE UNCHANGED vars
  BY <1>8 DEF vars
<1> QED BY <1>1, <1>2, <1>3, <1>4, <1>5, <1>6, <1>7, <1>8 DEF Next

\* The parts of SummariesTypes, for what a step leaves alone.
ContentTypes ==
  /\ pending \cup settled \subseteq here /\ here \subseteq arrived /\ arrived \subseteq Items
  /\ transcript \in [Items -> {"none", "fetched", "unavailable"}]
  /\ \A k \in DOMAIN cache : k[1] \in here /\ k[3] \in {"native", "text"} /\ cache[k] \in Models
JobTypes == job \in [Jobs -> Job] /\ \A j \in Jobs : LeftOK(job[j])
CountTypes ==
  /\ usage \in [day : Nat, count : Nat]
  /\ day \in Nat /\ spent \in Nat /\ blurred \in BOOLEAN
RestTypes ==
  /\ worker \in {"idle", "next", "fetch", "summary", "attempt"}
  /\ calls \in 0..MaxCalls /\ crashes \in 0..MaxCrashes

LEMMA TypesParts ==
  ASSUME ProvidersInv
  PROVE  SummariesTypes <=> ContentTypes /\ JobTypes /\ CountTypes /\ RestTypes
<1>1. ProvidersTypeOK
  BY DEF ProvidersInv, ProvidersTypes
<1>2. JobTypes => \A j \in Jobs : job[j].at \in
        {"idle", "native", "transcript", "text", "call", "failed", "read", "write", "store"}
  BY DEF JobTypes, Job, Stages
<1> QED BY <1>1, <1>2 DEF SummariesTypes, TypeOK, ContentTypes, JobTypes, CountTypes, RestTypes

LEMMA JobSet ==
  ASSUME JobTypes, NEW j \in Jobs, NEW q, JobOK(q), job' = [job EXCEPT ![j] = q]
  PROVE  JobTypes' /\ job'[j] = q /\ \A k \in Jobs \ {j} : job'[k] = job[k]
BY DEF JobTypes, JobOK

LEMMA JobsLeft ==
  ASSUME JobTypes, UNCHANGED job
  PROVE  JobTypes'
BY DEF JobTypes

LEMMA StatusType ==
  ASSUME ContentTypes, NEW i, NEW captions
  PROVE  WithStatus(i, captions) \in [Items -> {"none", "fetched", "unavailable"}]
BY DEF ContentTypes, WithStatus, StatusOf

LEMMA ForgetTypes ==
  ASSUME ContentTypes, NEW i, Forget(i), UNCHANGED <<arrived, transcript>>
  PROVE  ContentTypes'
<1>1. /\ here' = here \ {i} /\ pending' = pending \ {i} /\ settled' = settled \ {i}
      /\ cache' = [k \in {k \in DOMAIN cache : k[1] # i} |-> cache[k]]
  BY DEF Forget, LeftSummaries
<1>2. \A k \in DOMAIN cache' : k \in DOMAIN cache /\ k[1] # i /\ cache'[k] = cache[k]
  BY <1>1
<1> QED BY <1>1, <1>2 DEF ContentTypes

\* A summary is stored under the model that its provider had.
LEMMA StoreTypes ==
  ASSUME SummariesTypes, ContentTypes, NEW j \in Jobs, Store(j)
  PROVE  ContentTypes'
<1> PICK i, provider, via : i = job[j].item /\ provider = Head(job[j].left) /\ via = job[j].via
  OBVIOUS
<1> DEFINE key == <<i, provider.id, via>>
<1>1. job[j] \in Job /\ LeftOK(job[j]) /\ job[j].at = "store"
  BY DEF SummariesTypes, Store
<1>2. provider \in [id : Nat, model : Models] /\ via \in {"native", "text"}
  <2>1. job[j].left \in Route /\ job[j].left # <<>>
    BY <1>1 DEF Job, LeftOK
  <2>2. Head(job[j].left) \in [id : Nat, model : Models]
    BY <2>1, HeadSeq DEF Route
  <2>3. via \in {"native", "text"}
    BY <1>1 DEF Job
  <2> QED BY <2>1, <2>2, <2>3
<1>3. /\ cache' = (IF i \notin here THEN cache
                   ELSE [k \in DOMAIN cache \cup {key} |-> IF k = key THEN provider.model ELSE cache[k]])
      /\ UNCHANGED <<here, arrived, transcript, pending>>
  BY DEF Store
<1>4. settled' \subseteq here
  <2>1. settled' \subseteq settled \cup (IF i \in here THEN {i} ELSE {})
    BY DEF Store
  <2> QED BY <2>1 DEF ContentTypes
<1>5. \A k \in DOMAIN cache' : k[1] \in here /\ k[3] \in {"native", "text"} /\ cache'[k] \in Models
  <2>1. CASE i \notin here
    BY <1>3, <2>1 DEF ContentTypes
  <2>2. CASE i \in here
    <3>1. cache' = [k \in DOMAIN cache \cup {key} |-> IF k = key THEN provider.model ELSE cache[k]]
      BY <1>3, <2>2
    <3>2. key[1] \in here /\ key[3] \in {"native", "text"} /\ provider.model \in Models
      BY <1>2, <2>2
    <3> HIDE DEF key
    <3> QED BY <3>1, <3>2 DEF ContentTypes
  <2> QED BY <2>1, <2>2
<1> QED BY <1>3, <1>4, <1>5 DEF ContentTypes

LEMMA ContentLeft ==
  ASSUME ContentTypes, UNCHANGED <<here, arrived, transcript, cache>>,
         pending' \subseteq pending, settled' \subseteq settled
  PROVE  ContentTypes'
BY DEF ContentTypes

LEMMA CountedType ==
  ASSUME SummariesTypes, NEW d
  PROVE  Counted(d) \in Nat
BY DEF SummariesTypes, Counted

LEMMA JobStepTypes ==
  ASSUME SummariesTypes, ContentTypes, JobTypes, CountTypes, RestTypes, NEW j \in Jobs, JobStep(j)
  PROVE  ContentTypes' /\ JobTypes' /\ CountTypes' /\ RestTypes'
<1>1. RestTypes'
  BY DEF RestTypes, JobStep, Native, BumpRead, BumpWrite, Store, CallFail, Fail, FetchAndStore, Text,
     CallOk, bounds
<1>2. JobTypes'
  <2>1. \E q : JobOK(q) /\ job' = [job EXCEPT ![j] = q]
    <3>1. CASE Native(j) \/ CallFail(j) \/ Fail(j)
      BY <3>1, NativeMoves, FailMoves DEF Quiet, Moves
    <3>2. CASE BumpRead(j) \/ BumpWrite(j)
      BY <3>2, BumpMoves DEF Moves
    <3>3. CASE Store(j)
      BY <3>3, IdleJobOK DEF Store, Leave
    <3>4. ASSUME NEW captions \in Captions, FetchAndStore(j, captions)
          PROVE  \E q : JobOK(q) /\ job' = [job EXCEPT ![j] = q]
      BY <3>4, TranscriptMoves DEF Quiet, Moves
    <3>5. ASSUME NEW empty \in BOOLEAN, Text(j, empty)
          PROVE  \E q : JobOK(q) /\ job' = [job EXCEPT ![j] = q]
      BY <3>5, TextMoves DEF Quiet, Moves
    <3>6. ASSUME NEW tokens \in Tokens, CallOk(j, tokens)
          PROVE  \E q : JobOK(q) /\ job' = [job EXCEPT ![j] = q]
      BY <3>6, OkMoves DEF Moves
    <3> QED BY <3>1, <3>2, <3>3, <3>4, <3>5, <3>6 DEF JobStep
  <2> QED BY <2>1, JobSet
<1>3. ContentTypes'
  <2>1. CASE Store(j)
    BY <2>1, StoreTypes
  <2>2. ASSUME NEW captions \in Captions, FetchAndStore(j, captions)
        PROVE  ContentTypes'
    <3>1. transcript' \in [Items -> {"none", "fetched", "unavailable"}]
      BY <2>2, StatusType DEF FetchAndStore, ContentTypes
    <3>2. UNCHANGED <<here, arrived, pending, cache, settled>>
      BY <2>2 DEF FetchAndStore, ghosts
    <3> QED BY <3>1, <3>2 DEF ContentTypes
  <2>3. CASE UNCHANGED <<content, settled>>
    BY <2>3, ContentLeft DEF content
  <2> QED BY <2>1, <2>2, <2>3 DEF JobStep, Native, BumpRead, BumpWrite, CallFail, Fail, Text, CallOk,
       ghosts
<1>4. CountTypes'
  <2>1. CASE BumpWrite(j)
    <3>1. job[j].day \in Nat /\ job[j].count \in Nat
      BY DEF JobTypes, Job
    <3> QED BY <2>1, <3>1 DEF BumpWrite, CountTypes, ghosts
  <2>2. ASSUME NEW tokens \in Tokens, CallOk(j, tokens)
        PROVE  CountTypes'
    <3>1. tokens \in Nat
      BY CallsAssumption
    <3>2. blurred' \in BOOLEAN
      BY <2>2 DEF CallOk
    <3> QED BY <2>2, <3>1, <3>2 DEF CallOk, CountTypes
  <2>3. CASE UNCHANGED <<usage, day, spent, blurred>>
    BY <2>3 DEF CountTypes
  <2> QED BY <2>1, <2>2, <2>3 DEF JobStep, Native, BumpRead, Store, CallFail, Fail, FetchAndStore, Text,
       ghosts
<1> QED BY <1>1, <1>2, <1>3, <1>4

LEMMA WorkerTypes ==
  ASSUME ProvidersTypes, SummariesTypes, ContentTypes, JobTypes, CountTypes, RestTypes,
         WorkerStep \/ ClearFails
  PROVE  ContentTypes' /\ JobTypes' /\ CountTypes' /\ RestTypes'
<1>1. CASE SelectDue \/ StartItem \/ RateLimited \/ ClearFails
  <2>1. ContentTypes'
    BY <1>1, ContentLeft DEF SelectDue, StartItem, RateLimited, ClearFails, content, ghosts
  <2>2. UNCHANGED <<job, usage, day, spent, blurred, calls>>
    BY <1>1 DEF SelectDue, StartItem, RateLimited, ClearFails, ghosts, bounds
  <2>3. worker' \in {"idle", "next", "fetch", "summary", "attempt"}
    BY <1>1 DEF SelectDue, StartItem, RateLimited, ClearFails
  <2>4. crashes' \in 0..MaxCrashes
    <3>1. CASE ClearFails
      <4>1. crashes \in 0..MaxCrashes /\ crashes < MaxCrashes /\ crashes' = crashes + 1
        BY <3>1 DEF ClearFails, RestTypes
      <4> QED BY <4>1, BoundsAssumption
    <3>2. CASE UNCHANGED bounds
      BY <3>2 DEF bounds, RestTypes
    <3> QED BY <1>1, <3>1, <3>2 DEF SelectDue, StartItem, RateLimited
  <2> QED BY <2>1, <2>2, <2>3, <2>4, JobsLeft DEF CountTypes, RestTypes
<1>2. ASSUME NEW captions \in Captions, Fetched(captions)
      PROVE  ContentTypes' /\ JobTypes' /\ CountTypes' /\ RestTypes'
  <2>1. /\ transcript' = WithStatus(batch[1].item, captions) /\ worker' = "summary"
        /\ UNCHANGED <<here, arrived, pending, cache, usage, day, job, bounds, ghosts>>
    BY <1>2 DEF Fetched
  <2>2. transcript' \in [Items -> {"none", "fetched", "unavailable"}]
    BY <2>1, StatusType
  <2> QED BY <2>1, <2>2, JobsLeft DEF ContentTypes, CountTypes, RestTypes, bounds, ghosts
<1>3. CASE RemovedLive
  <2>1. Forget(batch[1].item) /\ worker' = "next"
        /\ UNCHANGED <<arrived, transcript, usage, day, job, bounds, spent, blurred>>
    BY <1>3 DEF RemovedLive
  <2>2. ContentTypes'
    BY <2>1, ForgetTypes
  <2> QED BY <2>1, <2>2, JobsLeft DEF CountTypes, RestTypes, bounds
<1>4. CASE Attempt
  <2>1. worker' \in {"next", "attempt"} /\ UNCHANGED <<content, usage, day, bounds, ghosts>>
    BY <1>4 DEF Attempt
  <2>2. job' = job \/ (batch[1].item \in here /\ job' = Asked(Worker, batch[1].item))
    BY <1>4 DEF Attempt, Asks
  <2>3. JobTypes'
    <3>1. Worker \in Jobs
      BY DEF Jobs
    <3> QED BY <2>2, <3>1, AskedMoves, JobSet, JobsLeft
  <2>4. ContentTypes'
    BY <2>1, ContentLeft DEF content, ghosts
  <2> QED BY <2>1, <2>3, <2>4 DEF CountTypes, RestTypes, bounds, ghosts
<1>5. CASE ClearMarker
  <2>1. /\ pending' \subseteq pending /\ worker' = "next"
        /\ UNCHANGED <<here, arrived, transcript, cache, usage, day, job, bounds, ghosts>>
    BY <1>5 DEF ClearMarker, Cleared
  <2>2. ContentTypes'
    BY <2>1, ContentLeft DEF ghosts
  <2> QED BY <2>1, <2>2, JobsLeft DEF CountTypes, RestTypes, bounds, ghosts
<1> QED BY <1>1, <1>2, <1>3, <1>4, <1>5 DEF WorkerStep, NotLimited

LEMMA WorldTypes ==
  ASSUME ProvidersTypes, SummariesTypes, ContentTypes, JobTypes, CountTypes, RestTypes
  PROVE  /\ \A j \in Requests, i \in Items, force \in BOOLEAN : Request(j, i, force) =>
              ContentTypes' /\ JobTypes' /\ CountTypes' /\ RestTypes'
         /\ \A i \in Items : \A auto : Purge(i) \/ Arrive(i, auto) =>
              ContentTypes' /\ JobTypes' /\ CountTypes' /\ RestTypes'
         /\ Configure \/ NextDay \/ Crash \/ UNCHANGED vars =>
              ContentTypes' /\ JobTypes' /\ CountTypes' /\ RestTypes'
<1>1. ASSUME NEW j \in Requests, NEW i \in Items, NEW force \in BOOLEAN, Request(j, i, force)
      PROVE  ContentTypes' /\ JobTypes' /\ CountTypes' /\ RestTypes'
  <2>1. /\ calls' \in 0..MaxCalls /\ i \in here /\ job' = Asked(j, i) /\ j \in Jobs
        /\ UNCHANGED <<content, usage, day, worker, crashes, ghosts>>
    BY <1>1, BoundsAssumption DEF Request, Asks, RestTypes, Jobs
  <2>2. JobTypes'
    BY <2>1, AskedMoves, JobSet
  <2>3. ContentTypes'
    BY <2>1, ContentLeft DEF content, ghosts
  <2> QED BY <2>1, <2>2, <2>3 DEF CountTypes, RestTypes, ghosts
<1>2. ASSUME NEW i \in Items, NEW auto, Purge(i) \/ Arrive(i, auto)
      PROVE  ContentTypes' /\ JobTypes' /\ CountTypes' /\ RestTypes'
  <2>1. UNCHANGED <<job, usage, day, worker, bounds, spent, blurred>>
    BY <1>2 DEF Purge, Arrive, ghosts
  <2>2. ContentTypes'
    <3>1. CASE Purge(i)
      BY <3>1, ForgetTypes DEF Purge
    <3>2. CASE Arrive(i, auto)
      BY <3>2 DEF Arrive, ContentTypes, ghosts
    <3> QED BY <1>2, <3>1, <3>2
  <2> QED BY <2>1, <2>2, JobsLeft DEF CountTypes, RestTypes, bounds
<1>3. ASSUME Configure
      PROVE  ContentTypes' /\ JobTypes' /\ CountTypes' /\ RestTypes'
  <2>1. /\ settled' \subseteq settled
        /\ UNCHANGED <<content, usage, day, job, worker, bounds, spent, blurred>>
    BY <1>3 DEF Configure
  <2>2. ContentTypes'
    BY <2>1, ContentLeft DEF content
  <2> QED BY <2>1, <2>2, JobsLeft DEF CountTypes, RestTypes, bounds
<1>4. ASSUME NextDay
      PROVE  ContentTypes' /\ JobTypes' /\ CountTypes' /\ RestTypes'
  <2>1. /\ day' = day + 1 /\ spent' = 0 /\ blurred' \in BOOLEAN
        /\ UNCHANGED <<content, usage, job, worker, bounds, settled>>
    BY <1>4 DEF NextDay
  <2>2. ContentTypes'
    BY <2>1, ContentLeft DEF content
  <2> QED BY <2>1, <2>2, JobsLeft DEF CountTypes, RestTypes, bounds
<1>5. ASSUME Crash
      PROVE  ContentTypes' /\ JobTypes' /\ CountTypes' /\ RestTypes'
  <2>1. /\ crashes' \in 0..MaxCrashes /\ blurred' \in BOOLEAN /\ worker' = "idle"
        /\ job' = [j \in Jobs |-> IdleJob]
        /\ UNCHANGED <<content, usage, day, calls, spent, settled>>
    BY <1>5, BoundsAssumption DEF Crash, RestTypes
  <2>2. JobTypes'
    BY <2>1, IdleJobOK DEF JobTypes, JobOK
  <2>3. ContentTypes'
    BY <2>1, ContentLeft DEF content
  <2> QED BY <2>1, <2>2, <2>3 DEF CountTypes, RestTypes
<1>6. ASSUME UNCHANGED vars
      PROVE  ContentTypes' /\ JobTypes' /\ CountTypes' /\ RestTypes'
  BY <1>6, ContentLeft, JobsLeft DEF vars, content, bounds, ghosts, CountTypes, RestTypes
<1> QED BY <1>1, <1>2, <1>3, <1>4, <1>5, <1>6

LEMMA NextTypes ==
  ASSUME ProvidersInv, SummariesTypes, [Next]_vars
  PROVE  SummariesTypes'
<1>1. ProvidersInv' /\ ProvidersTypes
  BY NextProviders DEF ProvidersInv
<1>2. ContentTypes /\ JobTypes /\ CountTypes /\ RestTypes
  BY TypesParts
<1>3. ContentTypes' /\ JobTypes' /\ CountTypes' /\ RestTypes'
  BY <1>1, <1>2, WorldTypes, WorkerTypes, JobStepTypes DEF Next
<1>4. SummariesTypes' <=> ContentTypes' /\ JobTypes' /\ CountTypes' /\ RestTypes'
  <2>1. ProvidersTypeOK'
    BY <1>1 DEF ProvidersInv, ProvidersTypes
  <2>2. JobTypes' => \A j \in Jobs : job'[j].at \in
          {"idle", "native", "transcript", "text", "call", "failed", "read", "write", "store"}
    BY DEF JobTypes, Job, Stages
  <2> QED BY <2>1, <2>2 DEF SummariesTypes, TypeOK, ContentTypes, JobTypes, CountTypes, RestTypes
<1> QED BY <1>3, <1>4

----------------------------------------------------------------------------
(* Automatic summaries.                                                    *)

LEMMA RoutesStand ==
  ASSUME UNCHANGED <<providers, routing>>
  PROVE  TextRoute' = TextRoute /\ VideoRoute' = VideoRoute /\ \A i : NativeRoute(i)' = NativeRoute(i)
BY DEF TextRoute, VideoRoute, NativeRoute, TextIds, VideoIds, Existing, Active, Resolved

\* A summary stays a hit while the cache keeps what it has for its item.
LEMMA SummaryStands ==
  ASSUME UNCHANGED <<providers, routing>>, NEW i, HasSummary(i),
         \A k : k \in DOMAIN cache /\ k[1] = i => k \in DOMAIN cache' /\ cache'[k] = cache[k]
  PROVE  HasSummary(i)'
<1>1. \A route, kind : Hit(i, route, kind) => Hit(i, route, kind)'
  <2> SUFFICES ASSUME NEW route, NEW kind, NEW n \in DOMAIN route,
                      <<i, route[n].id, kind>> \in DOMAIN cache,
                      cache[<<i, route[n].id, kind>>] = route[n].model
               PROVE  /\ <<i, route[n].id, kind>> \in DOMAIN cache'
                      /\ cache'[<<i, route[n].id, kind>>] = route[n].model
    BY DEF Hit
  <2> PICK key : key = <<i, route[n].id, kind>>
    OBVIOUS
  <2>1. key[1] = i
    OBVIOUS
  <2> QED BY <2>1
<1> PICK text, native : text = TextRoute /\ native = NativeRoute(i)
  OBVIOUS
<1>2. TextRoute' = text /\ NativeRoute(i)' = native
  BY RoutesStand
<1>3. Hit(i, native, "native")' \/ Hit(i, text, "text")'
  BY <1>1 DEF HasSummary
<1> QED BY <1>2, <1>3 DEF HasSummary, Hit

\* What neither stores a summary nor changes the configuration.
LEMMA PaidLeft ==
  ASSUME PaidInv, UNCHANGED <<providers, routing>>, settled' \subseteq settled,
         \A i \in settled' : \A k : k \in DOMAIN cache /\ k[1] = i => k \in DOMAIN cache' /\ cache'[k] = cache[k],
         \/ job'[Worker].at = "idle"
         \/ job[Worker].at # "idle" /\ job'[Worker].item = job[Worker].item
         \/ job'[Worker].item \notin settled
  PROVE  PaidInv'
BY SummaryStands DEF PaidInv

LEMMA PaidStored ==
  ASSUME SummariesTypes, PaidInv, NEW j \in Jobs, Store(j)
  PROVE  PaidInv'
<1> PICK i, provider, via : i = job[j].item /\ provider = Head(job[j].left) /\ via = job[j].via
  OBVIOUS
<1> PICK key : key = <<i, provider.id, via>>
  OBVIOUS
<1>1. UNCHANGED <<providers, routing>> /\ Leave(j)
  BY DEF Store, Commit
<1>2. job[j] \in Job /\ LeftOK(job[j]) /\ job[j].at = "store"
  BY DEF SummariesTypes, Store
<1>3. provider \in ToSet(RouteOf(job[j])) /\ via \in {"native", "text"}
  <2>1. job[j].left \in Route /\ job[j].left # <<>> /\ ToSet(job[j].left) \subseteq ToSet(RouteOf(job[j]))
    BY <1>2 DEF Job, LeftOK
  <2>2. provider \in ToSet(job[j].left)
    BY <2>1, HeadSeq DEF Route
  <2> QED BY <1>2, <2>1, <2>2 DEF Job
<1>4. /\ i \notin here => cache' = cache
      /\ i \in here => cache' = [k \in DOMAIN cache \cup {key} |-> IF k = key THEN provider.model ELSE cache[k]]
  BY DEF Store
<1>5. ASSUME NEW other \in settled', other # i
      PROVE  HasSummary(other)'
  <2>1. other \in settled
    BY <1>5 DEF Store
  <2>2. \A k : k \in DOMAIN cache /\ k[1] = other => k \in DOMAIN cache' /\ cache'[k] = cache[k]
    <3>1. key[1] = i
      OBVIOUS
    <3> QED BY <1>4, <1>5, <3>1
  <2>3. HasSummary(other)
    BY <2>1 DEF PaidInv
  <2> QED BY <1>1, <2>2, <2>3, SummaryStands
<1>6. ASSUME i \in settled'
      PROVE  HasSummary(i)'
  <2>1. i \in here /\ job[j].text = TextRoute /\ job[j].native = NativeRoute(i)
    BY <1>6 DEF Store, SummariesTypes, TypeOK
  <2>2. key \in DOMAIN cache' /\ cache'[key] = provider.model
    BY <1>4, <2>1
  <2> PICK route : route = RouteOf(job[j])
    OBVIOUS
  <2>3. PICK n \in DOMAIN route : route[n] = provider
    BY <1>3 DEF ToSet
  <2>4. Hit(i, route, via)'
    BY <2>2, <2>3 DEF Hit
  <2>5. TextRoute' = TextRoute /\ NativeRoute(i)' = NativeRoute(i)
    BY <1>1, RoutesStand
  <2>6. CASE via = "native"
    <3>1. route = NativeRoute(i)
      BY <2>1, <2>6 DEF RouteOf
    <3>2. Hit(i, NativeRoute(i), "native")'
      BY <2>4, <2>5, <2>6, <3>1 DEF Hit
    <3> QED BY <3>2 DEF HasSummary
  <2>7. CASE via = "text"
    <3>1. route = TextRoute
      BY <2>1, <2>7 DEF RouteOf
    <3>2. Hit(i, TextRoute, "text")'
      BY <2>4, <2>5, <2>7, <3>1 DEF Hit
    <3> QED BY <3>2 DEF HasSummary
  <2> QED BY <1>3, <2>6, <2>7
<1>7. job'[Worker].at # "idle" => job'[Worker].item \notin settled'
  <2>1. CASE j = Worker
    <3>1. job'[Worker] = IdleJob
      BY <1>1, <2>1 DEF Leave, SummariesTypes
    <3> QED BY <3>1, IdleJobOK
  <2>2. CASE j # Worker
    <3>1. job'[Worker] = job[Worker]
      BY <1>1, <2>2 DEF Leave, SummariesTypes, Jobs
    <3>2. settled' \subseteq settled
      BY <2>2 DEF Store
    <3> QED BY <3>1, <3>2 DEF PaidInv
  <2> QED BY <2>1, <2>2
<1> QED BY <1>5, <1>6, <1>7 DEF PaidInv

LEMMA StepMoves ==
  ASSUME SummariesTypes, NEW j \in Jobs, JobStep(j), ~Store(j)
  PROVE  job[j].at # "idle" /\ \E q : Moves(j, q)
<1>1. CASE Native(j) \/ CallFail(j) \/ Fail(j)
  BY <1>1, NativeMoves, FailMoves DEF Quiet, Native, CallFail, Fail
<1>2. CASE BumpRead(j) \/ BumpWrite(j)
  BY <1>2, BumpMoves
<1>3. ASSUME NEW captions \in Captions, FetchAndStore(j, captions)
      PROVE  job[j].at # "idle" /\ \E q : Moves(j, q)
  BY <1>3, TranscriptMoves DEF Quiet, FetchAndStore
<1>4. ASSUME NEW empty \in BOOLEAN, Text(j, empty)
      PROVE  job[j].at # "idle" /\ \E q : Moves(j, q)
  BY <1>4, TextMoves DEF Quiet, Text
<1>5. ASSUME NEW tokens \in Tokens, CallOk(j, tokens)
      PROVE  job[j].at # "idle" /\ \E q : Moves(j, q)
  BY <1>5, OkMoves
<1> QED BY <1>1, <1>2, <1>3, <1>4, <1>5 DEF JobStep

LEMMA PaidJobStep ==
  ASSUME SummariesTypes, PaidInv, NEW j \in Jobs, JobStep(j)
  PROVE  PaidInv'
<1>1. CASE Store(j)
  BY <1>1, PaidStored
<1>2. CASE ~Store(j)
  <2>1. UNCHANGED <<providers, routing, cache, settled>>
    BY <1>2 DEF JobStep, Native, BumpRead, BumpWrite, CallFail, Fail, FetchAndStore, Text, CallOk,
       config, content, ghosts, Commit
  <2>2. job[j].at # "idle" /\ \E q : Moves(j, q)
    BY <1>2, StepMoves
  <2>3. PICK q : Moves(j, q)
    BY <2>2
  <2>4. job' = [job EXCEPT ![j] = q] /\ (q = IdleJob \/ q.item = job[j].item)
    BY <2>3 DEF Moves, Kin
  <2>5. Worker \in Jobs /\ DOMAIN job = Jobs
    BY DEF Jobs, SummariesTypes
  <2>6. CASE j = Worker
    BY <2>1, <2>2, <2>4, <2>5, <2>6, PaidLeft, IdleJobOK
  <2>7. CASE j # Worker
    <3>1. job'[Worker] = job[Worker]
      BY <2>4, <2>5, <2>7
    <3> QED BY <2>1, <3>1, PaidLeft
  <2> QED BY <2>6, <2>7
<1> QED BY <1>1, <1>2

\* What an item is forgotten with is its own.
LEMMA PaidForgotten ==
  ASSUME PaidInv, NEW i, Forget(i), UNCHANGED job
  PROVE  PaidInv'
<1>1. /\ UNCHANGED <<providers, routing>> /\ settled' = settled \ {i}
      /\ cache' = [k \in {k \in DOMAIN cache : k[1] # i} |-> cache[k]]
  BY DEF Forget, Commit, LeftSummaries
<1>2. \A other \in settled' : \A k : k \in DOMAIN cache /\ k[1] = other =>
        k \in DOMAIN cache' /\ cache'[k] = cache[k]
  BY <1>1
<1> QED BY <1>1, <1>2, PaidLeft

LEMMA PaidWorker ==
  ASSUME ProvidersTypes, SummariesTypes, PaidInv, WorkerStep \/ ClearFails
  PROVE  PaidInv'
<1>1. CASE RemovedLive
  BY <1>1, PaidForgotten DEF RemovedLive
<1>2. CASE Attempt
  <2> PICK i : i = batch[1].item
    OBVIOUS
  <2>1. UNCHANGED <<providers, routing, cache, settled>>
    BY <1>2 DEF Attempt, config, content, ghosts
  <2>2. job' = job \/ (Asks(i, FALSE) /\ job' = Asked(Worker, i))
    BY <1>2 DEF Attempt
  <2>3. CASE job' = job
    BY <2>1, <2>3, PaidLeft
  <2>4. CASE Asks(i, FALSE) /\ job' = Asked(Worker, i)
    <3>1. i \in here /\ ~HasSummary(i) /\ job' = Asked(Worker, i)
      BY <2>4 DEF Asks
    <3>2. i \notin settled
      BY <3>1 DEF PaidInv
    <3>3. DOMAIN job = Jobs /\ Worker \in Jobs
      BY DEF SummariesTypes, Jobs
    <3>4. \E q : JobOK(q) /\ job' = [job EXCEPT ![Worker] = q] /\ q.at = "native" /\ q.item = i
      BY <3>1, <3>3, AskedMoves
    <3>5. job'[Worker].item \notin settled
      BY <3>2, <3>3, <3>4
    <3> QED BY <2>1, <3>5, PaidLeft
  <2> QED BY <2>2, <2>3, <2>4
<1>3. CASE UNCHANGED <<providers, routing, cache, settled, job>>
  BY <1>3, PaidLeft
<1> QED BY <1>1, <1>2, <1>3 DEF WorkerStep, NotLimited, Fetched, SelectDue, StartItem, RateLimited,
     ClearMarker, ClearFails, Commit, config, content, ghosts

LEMMA NextPaid ==
  ASSUME ProvidersTypes, SummariesTypes, PaidInv, [Next]_vars
  PROVE  PaidInv'
<1>1. ASSUME NEW j \in Requests, NEW i \in Items, NEW force \in BOOLEAN, Request(j, i, force)
      PROVE  PaidInv'
  <2>1. UNCHANGED <<providers, routing, cache, settled>> /\ job' = Asked(j, i) /\ j # Worker
    BY <1>1, CallsAssumption DEF Request, config, content, ghosts
  <2>2. job'[Worker] = job[Worker]
    BY <2>1 DEF Asked, SummariesTypes, Jobs
  <2> QED BY <2>1, <2>2, PaidLeft
<1>2. ASSUME NEW i \in Items, Purge(i)
      PROVE  PaidInv'
  BY <1>2, PaidForgotten DEF Purge
<1>3. CASE Configure
  <2>1. UNCHANGED <<content, job>>
    BY <1>3 DEF Configure
  <2>2. CASE UNCHANGED <<providers, routing>>
    <3>1. settled' = settled
      BY <1>3, <2>2 DEF Configure
    <3> QED BY <2>1, <2>2, <3>1, PaidLeft DEF content
  <2>3. CASE ~UNCHANGED <<providers, routing>>
    <3>1. settled' = {}
      BY <1>3, <2>3 DEF Configure
    <3> QED BY <3>1 DEF PaidInv
  <2> QED BY <2>2, <2>3
<1>4. CASE Crash
  <2>1. UNCHANGED <<providers, routing, cache, settled>> /\ job'[Worker] = IdleJob
    BY <1>4 DEF Crash, content, Jobs
  <2> QED BY <2>1, IdleJobOK, PaidLeft
<1>5. CASE UNCHANGED <<providers, routing, cache, settled, job>>
  BY <1>5, PaidLeft
<1>6. ASSUME NEW i \in Items, \E auto \in BOOLEAN : Arrive(i, auto /\ i \in Videos)
      PROVE  PaidInv'
  BY <1>5, <1>6 DEF Arrive, Commit, ghosts
<1>7. CASE NextDay \/ UNCHANGED vars
  BY <1>5, <1>7 DEF NextDay, vars, config, content, ghosts
<1> QED BY <1>1, <1>2, <1>3, <1>4, <1>6, <1>7, PaidJobStep, PaidWorker DEF Next

----------------------------------------------------------------------------
(* The budget.                                                             *)

LEMMA NextWorker ==
  ASSUME ProvidersTypes, SummariesTypes, WorkerInv, [Next]_vars
  PROVE  WorkerInv'
<1>1. ASSUME NEW j \in Jobs, JobStep(j)
      PROVE  WorkerInv'
  <2>1. UNCHANGED worker
    BY <1>1 DEF JobStep, Native, BumpRead, BumpWrite, Store, CallFail, Fail, FetchAndStore, Text, CallOk
  <2>2. job[j].at # "idle" /\ \E q : job' = [job EXCEPT ![j] = q]
    BY <1>1, StepMoves DEF Moves, Store, Leave
  <2>3. j = Worker \/ job'[Worker] = job[Worker]
    BY <2>2 DEF SummariesTypes, Jobs
  <2> QED BY <2>1, <2>2, <2>3 DEF WorkerInv
<1>2. ASSUME NEW j \in Requests, NEW i \in Items, NEW force \in BOOLEAN, Request(j, i, force)
      PROVE  WorkerInv'
  <2>1. UNCHANGED worker /\ job' = Asked(j, i) /\ j # Worker
    BY <1>2, CallsAssumption DEF Request
  <2>2. job'[Worker] = job[Worker]
    BY <2>1 DEF Asked, SummariesTypes, Jobs
  <2> QED BY <2>1, <2>2 DEF WorkerInv
<1>3. CASE WorkerStep \/ ClearFails
  BY <1>3 DEF WorkerInv, WorkerStep, NotLimited, RemovedLive, Forget, Fetched, SelectDue, StartItem,
     RateLimited, Attempt, ClearMarker, ClearFails
<1>4. CASE Crash
  BY <1>4 DEF Crash, WorkerInv, Jobs, IdleJob
<1>5. CASE UNCHANGED <<job, worker>>
  BY <1>5 DEF WorkerInv
<1> QED BY <1>1, <1>2, <1>3, <1>4, <1>5 DEF Next, Configure, Purge, Arrive, NextDay, vars

LEMMA Product ==
  ASSUME NEW a \in Nat, NEW b \in Nat, NEW m \in Nat
  PROVE  a * m \in Nat /\ (a <= b => a * m <= b * m) /\ (a < b => a * m + m <= b * m)
<1>1. a * m \in Nat
  OBVIOUS
<1>2. a <= b => a * m <= b * m
  OBVIOUS
<1>3. a < b => a * m + m <= b * m
  <2> SUFFICES ASSUME a < b PROVE (a + 1) * m <= b * m
    OBVIOUS
  <2>1. a + 1 \in Nat /\ a + 1 <= b
    OBVIOUS
  <2> QED BY <2>1
<1> QED BY <1>1, <1>2, <1>3

LEMMA MaxTokens == Max(Tokens) \in Nat /\ \A tokens \in Tokens : tokens \in Nat /\ tokens <= Max(Tokens)
<1>1. IsFiniteSet(Tokens) /\ Tokens # {} /\ Tokens \subseteq Nat /\ Tokens \subseteq Int
  BY CallsAssumption
<1> QED BY <1>1, Greatest

LEMMA CountCalls ==
  ASSUME NEW S \in SUBSET Jobs
  PROVE  /\ IsFiniteSet(S) /\ Cardinality(S) \in Nat
         /\ Cardinality(Jobs) \in Nat /\ Cardinality(S) <= Cardinality(Jobs)
         /\ \A j \in Jobs \ S : Cardinality(S) < Cardinality(Jobs)
         /\ \A R \in SUBSET S : Cardinality(R) <= Cardinality(S)
         /\ \A j \in S : Cardinality(S \ {j}) < Cardinality(S)
<1>1. IsFiniteSet(Jobs)
  BY CallsAssumption, FS_AddElement DEF Jobs
<1>2. IsFiniteSet(S) /\ Cardinality(S) <= Cardinality(Jobs)
  BY <1>1, FS_Subset
<1>3. Cardinality(S) \in Nat /\ Cardinality(Jobs) \in Nat
  BY <1>1, <1>2, FS_CardinalityType
<1>4. ASSUME NEW j \in Jobs \ S
      PROVE  Cardinality(S) < Cardinality(Jobs)
  <2>1. S # Jobs
    BY <1>4
  <2>2. Cardinality(S) # Cardinality(Jobs)
    BY <1>1, <2>1, FS_Subset
  <2> QED BY <1>2, <1>3, <2>2
<1>5. \A R \in SUBSET S : Cardinality(R) <= Cardinality(S)
  BY <1>2, FS_Subset
<1>6. ASSUME NEW j \in S
      PROVE  Cardinality(S \ {j}) < Cardinality(S)
  <2>1. Cardinality(S \ {j}) = Cardinality(S) - 1
    BY <1>2, FS_RemoveElement
  <2> QED BY <1>3, <2>1
<1> QED BY <1>1, <1>2, <1>3, <1>4, <1>5, <1>6

\* The bound holds of fewer calls, and of fewer tokens.
LEMMA WithinLess ==
  ASSUME Within, SummariesTypes, Calling' \subseteq Calling, spent' \in Nat, spent' <= spent
  PROVE  Within'
<1> PICK T, c, d, n : T = Max(Tokens) /\ c = Cardinality(Calling) /\ d = Cardinality(Calling')
                     /\ n = Cardinality(Jobs) * T
  OBVIOUS
<1>1. T \in Nat /\ c \in Nat /\ d \in Nat /\ d <= c /\ Cardinality(Jobs) \in Nat
  <2>1. Calling \in SUBSET Jobs
    BY DEF Calling
  <2>2. c \in Nat /\ d <= c /\ Cardinality(Jobs) \in Nat
    BY <2>1, CountCalls
  <2>3. Calling' \in SUBSET Jobs
    BY <2>1
  <2>4. d \in Nat
    BY <2>3, CountCalls
  <2> QED BY <2>2, <2>4, MaxTokens
<1>2. d * T <= c * T /\ d * T \in Nat /\ c * T \in Nat /\ n \in Nat
  BY <1>1, Product
<1>3. spent + c * T <= Budget - 1 + n
  BY DEF Within
<1>4. spent \in Nat /\ Budget \in Nat
  BY CallsAssumption DEF SummariesTypes
<1>5. spent' + d * T <= Budget - 1 + n
  BY <1>2, <1>3, <1>4
<1> QED BY <1>5 DEF Within

\* Who is let through finds the counter below the budget; the tokens of the
\* call that is being counted are a call's at most, and it is no other one.
LEMMA WithinCalls ==
  ASSUME SummariesTypes, DatesOK, CountOK, NEW j \in Jobs, ~Recording(j), Affordable,
         Calling' \subseteq Calling \cup {j}, UNCHANGED spent
  PROVE  Within'
<1> PICK T, d, n, now : T = Max(Tokens) /\ d = Cardinality(Calling') /\ n = Cardinality(Jobs)
                       /\ now = Counted(day)
  OBVIOUS
<1>1. Calling' \in SUBSET Jobs
  BY DEF Calling
<1>2. T \in Nat /\ d \in Nat /\ n \in Nat /\ d <= n
  BY <1>1, CountCalls, MaxTokens
<1>3. Budget \in Nat /\ now \in Nat /\ now <= Budget - 1 /\ spent \in Nat
  BY CallsAssumption, CountedType DEF Affordable, SummariesTypes
<1>4. spent + d * T <= Budget - 1 + n * T
  <2>1. d * T \in Nat /\ n * T \in Nat /\ d * T <= n * T /\ (d < n => d * T + T <= n * T)
    BY <1>2, Product
  <2>2. CASE \A k \in Jobs : ~Recording(k)
    <3>1. spent = now
      BY <2>2 DEF CountOK
    <3> QED BY <1>3, <2>1, <3>1
  <2>3. ASSUME NEW k \in Jobs, Recording(k)
        PROVE  spent + d * T <= Budget - 1 + n * T
    <3>1. k \notin Calling'
      BY <2>3 DEF Calling, Recording
    <3>2. d < n
      BY <1>1, <3>1, CountCalls
    <3>3. spent <= now + T
      <4>1. CASE job[k].at = "read"
        <5>1. spent = now + job[k].count /\ job[k].count \in Tokens
          BY <4>1 DEF CountOK, DatesOK
        <5>2. job[k].count \in Nat /\ job[k].count <= T
          BY <5>1, MaxTokens
        <5> QED BY <1>2, <1>3, <5>1, <5>2
      <4>2. CASE job[k].at = "write"
        BY <4>2 DEF CountOK
      <4> QED BY <2>3, <4>1, <4>2 DEF Recording
    <3> QED BY <1>2, <1>3, <2>1, <3>2, <3>3
  <2> QED BY <2>2, <2>3
<1> QED BY <1>4 DEF Within

\* A call that ends spends no more than it was reckoned with.
LEMMA WithinSpent ==
  ASSUME SummariesTypes, Within, NEW j \in Calling, Calling' = Calling \ {j},
         NEW tokens \in Tokens, spent' = spent + tokens
  PROVE  Within'
<1> PICK T, c, d, n : T = Max(Tokens) /\ c = Cardinality(Calling) /\ d = Cardinality(Calling')
                     /\ n = Cardinality(Jobs) * T
  OBVIOUS
<1>1. Calling \in SUBSET Jobs /\ Calling' \in SUBSET Jobs
  BY DEF Calling
<1>2. T \in Nat /\ c \in Nat /\ d \in Nat /\ d < c /\ Cardinality(Jobs) \in Nat
      /\ tokens \in Nat /\ tokens <= T
  BY <1>1, CountCalls, MaxTokens
<1>3. d * T + T <= c * T /\ d * T \in Nat /\ c * T \in Nat /\ n \in Nat
  BY <1>2, Product
<1>4. spent \in Nat /\ Budget \in Nat /\ spent + c * T <= Budget - 1 + n
  BY CallsAssumption DEF SummariesTypes, Within
<1>5. spent' + d * T <= Budget - 1 + n
  BY <1>2, <1>3, <1>4
<1> QED BY <1>5 DEF Within

\* A step at which nobody begins or ends to be counted.
LEMMA CountStands ==
  ASSUME DatesOK, UNCHANGED <<usage, day, spent>>,
         \A k \in Jobs : Recording(k) \/ Recording(k)' => job'[k] = job[k]
  PROVE  DatesOK' /\ (CountOK => CountOK')
<1>1. \A k \in Jobs : Recording(k)' <=> Recording(k)
  BY DEF Recording
<1>2. \A k \in Jobs : Recording(k) => job'[k] = job[k]
  OBVIOUS
<1>3. Counted(day)' = Counted(day)
  BY DEF Counted
<1>4. DatesOK'
  BY <1>1, <1>2 DEF DatesOK, Recording
<1>5. CountOK => CountOK'
  BY <1>1, <1>2, <1>3 DEF CountOK, Recording
<1> QED BY <1>4, <1>5

LEMMA BudgetStands ==
  ASSUME SummariesTypes, BudgetInv, UNCHANGED <<job, usage, day, spent, blurred>>
  PROVE  BudgetInv'
<1>1. Calling' = Calling /\ spent' \in Nat /\ spent' <= spent
  BY DEF Calling, SummariesTypes
<1>2. Within => Within'
  BY <1>1, WithinLess
<1> QED BY <1>2, CountStands DEF BudgetInv

LEMMA BudgetQuiet ==
  ASSUME SummariesTypes, BudgetInv, UNCHANGED <<usage, day, spent, blurred>>, NEW j \in Jobs,
         NEW q, job' = [job EXCEPT ![j] = q], ~Recording(j), q.at \notin {"read", "write"},
         q.at = "call" => job[j].at = "call" \/ Affordable
  PROVE  BudgetInv'
<1>1. job'[j] = q /\ \A k \in Jobs \ {j} : job'[k] = job[k]
  BY DEF SummariesTypes
<1>2. \A k \in Jobs : Recording(k) \/ Recording(k)' => job'[k] = job[k]
  BY <1>1 DEF Recording
<1>3. DatesOK /\ DatesOK' /\ (CountOK => CountOK')
  BY <1>2, CountStands DEF BudgetInv
<1>4. CountOK /\ Within => Within'
  <2>1. CASE q.at = "call" /\ job[j].at # "call"
    <3>1. Calling' \subseteq Calling \cup {j}
      BY <1>1 DEF Calling
    <3> QED BY <1>3, <2>1, <3>1, WithinCalls
  <2>2. CASE ~(q.at = "call" /\ job[j].at # "call")
    <3>1. Calling' \subseteq Calling
      BY <1>1, <2>2 DEF Calling
    <3>2. spent' \in Nat /\ spent' <= spent
      BY DEF SummariesTypes
    <3> QED BY <3>1, <3>2, WithinLess
  <2> QED BY <2>1, <2>2
<1> QED BY <1>3, <1>4 DEF BudgetInv

LEMMA BudgetOk ==
  ASSUME SummariesTypes, BudgetInv, NEW j \in Jobs, NEW tokens \in Tokens, CallOk(j, tokens)
  PROVE  BudgetInv'
<1>1. PICK q : /\ job' = [job EXCEPT ![j] = q] /\ job[j].at = "call"
               /\ q.at = IF tokens > 0 THEN "read" ELSE "store"
               /\ tokens > 0 => q.day = day /\ q.count = tokens
  BY OkMoves DEF Moves
<1>2. job'[j] = q /\ \A k \in Jobs \ {j} : job'[k] = job[k]
  BY <1>1 DEF SummariesTypes
<1>3. /\ UNCHANGED <<usage, day>> /\ spent' = spent + tokens /\ tokens \in Nat /\ spent \in Nat
      /\ blurred' = (blurred \/ (tokens > 0 /\ \E k \in Jobs : Recording(k)))
  BY MaxTokens DEF CallOk, SummariesTypes
<1>4. ~Recording(j)
  BY <1>1 DEF Recording
<1>5. CASE tokens = 0
  <2>1. spent' = spent
    BY <1>3, <1>5
  <2>2. blurred' = blurred
    BY <1>3, <1>5 DEF SummariesTypes
  <2>3. q.at = "store"
    BY <1>1, <1>5
  <2> QED BY <1>1, <1>3, <1>4, <2>1, <2>2, <2>3, BudgetQuiet
<1>6. CASE tokens > 0
  <2>1. q.at = "read" /\ q.day = day /\ q.count = tokens
    BY <1>1, <1>6
  <2>2. DatesOK'
    <3>1. DatesOK /\ day \in Nat
      BY DEF BudgetInv, SummariesTypes
    <3> QED BY <1>2, <1>3, <2>1, <3>1 DEF DatesOK, Recording
  <2>3. ASSUME ~blurred'
        PROVE  CountOK' /\ Within'
    <3>1. ~blurred /\ \A k \in Jobs : ~Recording(k)
      BY <1>3, <1>6, <2>3
    <3>2. CountOK /\ Within
      BY <3>1 DEF BudgetInv
    <3>3. spent = Counted(day)
      BY <3>1, <3>2 DEF CountOK
    <3>4. \A k \in Jobs : Recording(k)' => k = j
      BY <1>2, <3>1 DEF Recording
    <3>5. CountOK'
      <4>1. job'[j].at = "read" /\ job'[j].day = day' /\ job'[j].count = tokens
        BY <1>2, <1>3, <2>1
      <4>2. Counted(day)' = spent
        BY <1>3, <3>3 DEF Counted
      <4>3. \A k \in Jobs : job'[k].at \in {"read", "write"} => k = j
        BY <3>4 DEF Recording
      <4> QED BY <1>3, <4>1, <4>2, <4>3 DEF CountOK, Recording
    <3>6. j \in Calling /\ Calling' = Calling \ {j}
      BY <1>1, <1>2, <2>1 DEF Calling
    <3>7. Within'
      BY <1>3, <3>2, <3>6, WithinSpent
    <3> QED BY <3>5, <3>7
  <2> QED BY <2>2, <2>3 DEF BudgetInv
<1> QED BY <1>3, <1>5, <1>6

LEMMA BudgetRead ==
  ASSUME SummariesTypes, BudgetInv, NEW j \in Jobs, BumpRead(j)
  PROVE  BudgetInv'
<1>1. PICK q : /\ job' = [job EXCEPT ![j] = q] /\ job[j].at = "read" /\ q.at = "write"
               /\ q.day = job[j].day /\ q.count = job[j].count + Counted(job[j].day)
  BY BumpMoves DEF Moves
<1>2. job'[j] = q /\ \A k \in Jobs \ {j} : job'[k] = job[k]
  BY <1>1 DEF SummariesTypes
<1>3. UNCHANGED <<usage, day, spent, blurred>> /\ Recording(j) /\ Recording(j)'
  BY <1>1, <1>2 DEF BumpRead, Recording, ghosts
<1>4. \A k \in Jobs : (Recording(k)' <=> Recording(k)) /\ job'[k].day = job[k].day
  BY <1>1, <1>2, <1>3 DEF Recording
<1>5. DatesOK' /\ job[j].count \in Tokens
  <2>1. DatesOK
    BY DEF BudgetInv
  <2> QED BY <1>1, <1>2, <1>3, <1>4, <2>1 DEF DatesOK
<1>6. ASSUME ~blurred
      PROVE  CountOK' /\ Within'
  <2>1. CountOK /\ Within
    BY <1>6 DEF BudgetInv
  <2>2. Counted(day)' = Counted(day)
    BY <1>3 DEF Counted
  <2>3. job[j].day = day /\ spent = Counted(day) + job[j].count
    BY <1>1, <1>3, <2>1 DEF CountOK
  <2>4. Counted(day) \in Nat /\ Max(Tokens) \in Nat /\ job[j].count \in Nat /\ job[j].count <= Max(Tokens)
    BY <1>5, CountedType, MaxTokens
  <2>5. spent = q.count /\ spent <= Counted(day) + Max(Tokens)
    <3> PICK now, T, count : now = Counted(day) /\ T = Max(Tokens) /\ count = job[j].count
      OBVIOUS
    <3>1. now + count = count + now /\ now + count <= now + T
      BY <2>4
    <3> QED BY <1>1, <2>3, <3>1
  <2>6. \A k \in Jobs : Recording(k) => k = j
    BY <1>3, <2>1 DEF CountOK
  <2>7. CountOK'
    <3>1. \A k \in Jobs : job'[k].at \in {"read", "write"} => k = j
      BY <1>4, <2>6 DEF Recording
    <3> QED BY <1>1, <1>2, <1>3, <2>2, <2>3, <2>5, <3>1 DEF CountOK, Recording
  <2>8. Calling' \subseteq Calling
    BY <1>1, <1>2 DEF Calling
  <2>9. spent' \in Nat /\ spent' <= spent
    BY <1>3 DEF SummariesTypes
  <2> QED BY <2>1, <2>7, <2>8, <2>9, WithinLess
<1> QED BY <1>3, <1>5, <1>6 DEF BudgetInv

LEMMA BudgetWrite ==
  ASSUME SummariesTypes, BudgetInv, NEW j \in Jobs, BumpWrite(j)
  PROVE  BudgetInv'
<1>1. PICK q : job' = [job EXCEPT ![j] = q] /\ job[j].at = "write" /\ q.at = "store"
  BY BumpMoves DEF Moves
<1>2. job'[j] = q /\ \A k \in Jobs \ {j} : job'[k] = job[k]
  BY <1>1 DEF SummariesTypes
<1>3. /\ usage' = [day |-> job[j].day, count |-> job[j].count]
      /\ UNCHANGED <<day, spent, blurred>> /\ Recording(j)
  BY <1>1 DEF BumpWrite, Recording, ghosts
<1>4. DatesOK
  BY DEF BudgetInv
<1>5. DatesOK'
  <2>1. job[j].day <= day
    BY <1>3, <1>4 DEF DatesOK
  <2>2. \A k \in Jobs : Recording(k)' => k # j /\ Recording(k)
    BY <1>1, <1>2 DEF Recording
  <2>3. \A k \in Jobs : job'[k].at = "read" => k # j
    BY <1>1, <1>2
  <2> QED BY <1>2, <1>3, <1>4, <2>1, <2>2, <2>3 DEF DatesOK
<1>6. ASSUME ~blurred
      PROVE  CountOK' /\ Within'
  <2>1. CountOK /\ Within
    BY <1>6 DEF BudgetInv
  <2>2. job[j].day = day /\ spent = job[j].count /\ \A k \in Jobs : Recording(k) => k = j
    BY <1>1, <1>3, <2>1 DEF CountOK
  <2>3. Counted(day)' = spent'
    BY <1>3, <2>2 DEF Counted
  <2>4. \A k \in Jobs : ~Recording(k)'
    BY <1>1, <1>2, <2>2 DEF Recording
  <2>5. CountOK'
    BY <2>3, <2>4 DEF CountOK, Recording
  <2>6. Calling' \subseteq Calling
    BY <1>1, <1>2 DEF Calling
  <2>7. spent' \in Nat /\ spent' <= spent
    BY <1>3 DEF SummariesTypes
  <2> QED BY <2>1, <2>5, <2>6, <2>7, WithinLess
<1> QED BY <1>3, <1>5, <1>6 DEF BudgetInv

LEMMA BudgetJobStep ==
  ASSUME SummariesTypes, BudgetInv, NEW j \in Jobs, JobStep(j)
  PROVE  BudgetInv'
<1>1. ASSUME NEW q, Quiet(j, q), UNCHANGED <<usage, day, spent, blurred>>
      PROVE  BudgetInv'
  BY <1>1, BudgetQuiet DEF Quiet, Moves
<1>2. CASE Native(j) \/ CallFail(j) \/ Fail(j)
  <2>1. \E q : Quiet(j, q)
    BY <1>2, NativeMoves, FailMoves
  <2> QED BY <1>1, <1>2, <2>1 DEF Native, CallFail, Fail, ghosts
<1>3. CASE Store(j)
  <2>1. ~Recording(j) /\ Leave(j) /\ UNCHANGED <<usage, day, spent, blurred>>
    BY <1>3 DEF Store, Recording
  <2>2. \E q : Quiet(j, q)
    BY <2>1, LeaveMoves
  <2> QED BY <1>1, <2>1, <2>2
<1>4. ASSUME NEW captions \in Captions, FetchAndStore(j, captions)
      PROVE  BudgetInv'
  BY <1>1, <1>4, TranscriptMoves DEF FetchAndStore, ghosts
<1>5. ASSUME NEW empty \in BOOLEAN, Text(j, empty)
      PROVE  BudgetInv'
  BY <1>1, <1>5, TextMoves DEF Text, ghosts
<1> QED BY <1>2, <1>3, <1>4, <1>5, BudgetOk, BudgetRead, BudgetWrite DEF JobStep

LEMMA BudgetAsked ==
  ASSUME ProvidersTypes, SummariesTypes, BudgetInv, UNCHANGED <<usage, day, spent, blurred>>,
         NEW j \in Jobs, job[j].at = "idle", NEW i \in here, job' = Asked(j, i)
  PROVE  BudgetInv'
<1>1. PICK q : job' = [job EXCEPT ![j] = q] /\ q.at = "native"
  BY AskedMoves
<1> QED BY <1>1, BudgetQuiet DEF Recording

\* At midnight the counter starts again, and nothing was spent yet.
LEMMA BudgetDay ==
  ASSUME SummariesTypes, BudgetInv, NextDay
  PROVE  BudgetInv'
<1>1. /\ day' = day + 1 /\ spent' = 0 /\ UNCHANGED <<usage, job>>
      /\ blurred' = \E j \in Jobs : Recording(j)
  BY DEF NextDay
<1>2. day \in Nat /\ usage.day \in Nat /\ \A j \in Jobs : job[j].day \in Nat
  BY DEF SummariesTypes, Job
<1>3. DatesOK
  BY DEF BudgetInv
<1>4. DatesOK'
  <2>1. \A j \in Jobs : Recording(j)' <=> Recording(j)
    BY <1>1 DEF Recording
  <2> QED BY <1>1, <1>2, <1>3, <2>1 DEF DatesOK
<1>5. ASSUME ~blurred'
      PROVE  CountOK' /\ Within'
  <2>1. \A j \in Jobs : ~Recording(j)'
    BY <1>1, <1>5 DEF Recording
  <2>2. Counted(day)' = 0
    <3>1. usage.day # day'
      BY <1>1, <1>2, <1>3 DEF DatesOK
    <3> QED BY <1>1, <3>1 DEF Counted
  <2>3. CountOK'
    BY <1>1, <2>1, <2>2 DEF CountOK, Recording
  <2>4. Within'
    <3> PICK T, d, n : T = Max(Tokens) /\ d = Cardinality(Calling') /\ n = Cardinality(Jobs)
      OBVIOUS
    <3>1. Calling' \in SUBSET Jobs
      BY DEF Calling
    <3>2. T \in Nat /\ d \in Nat /\ n \in Nat /\ d <= n
      BY <3>1, CountCalls, MaxTokens
    <3>3. d * T \in Nat /\ n * T \in Nat /\ d * T <= n * T
      BY <3>2, Product
    <3>4. Budget \in Nat \ {0}
      BY CallsAssumption
    <3>5. 0 + d * T <= Budget - 1 + n * T
      BY <3>3, <3>4
    <3> QED BY <1>1, <3>5 DEF Within
  <2> QED BY <2>3, <2>4
<1> QED BY <1>4, <1>5 DEF BudgetInv

LEMMA BudgetCrash ==
  ASSUME SummariesTypes, BudgetInv, Crash
  PROVE  BudgetInv'
<1>1. /\ job' = [j \in Jobs |-> IdleJob] /\ UNCHANGED <<usage, day, spent>>
      /\ blurred' = (blurred \/ \E j \in Jobs : Recording(j))
  BY DEF Crash
<1>2. \A j \in Jobs : job'[j].at = "idle" /\ ~Recording(j)'
  BY <1>1 DEF Recording, IdleJob
<1>3. DatesOK'
  BY <1>1, <1>2 DEF DatesOK, BudgetInv
<1>4. ASSUME ~blurred'
      PROVE  CountOK' /\ Within'
  <2>1. CountOK /\ Within /\ \A j \in Jobs : ~Recording(j)
    BY <1>1, <1>4 DEF BudgetInv
  <2>2. spent = Counted(day) /\ Counted(day)' = Counted(day)
    BY <1>1, <2>1 DEF CountOK, Counted
  <2>3. CountOK'
    BY <1>1, <1>2, <2>2 DEF CountOK
  <2>4. Calling' \subseteq Calling
    BY <1>2 DEF Calling
  <2>5. spent' \in Nat /\ spent' <= spent
    BY <1>1 DEF SummariesTypes
  <2> QED BY <2>1, <2>3, <2>4, <2>5, WithinLess
<1> QED BY <1>3, <1>4 DEF BudgetInv

LEMMA NextBudget ==
  ASSUME ProvidersTypes, SummariesTypes, WorkerInv, BudgetInv, [Next]_vars
  PROVE  BudgetInv'
<1>1. ASSUME NEW j \in Requests, NEW i \in Items, NEW force \in BOOLEAN, Request(j, i, force)
      PROVE  BudgetInv'
  <2>1. /\ job[j].at = "idle" /\ i \in here /\ job' = Asked(j, i) /\ j \in Jobs
        /\ UNCHANGED <<usage, day, spent, blurred>>
    BY <1>1 DEF Request, Asks, Jobs, ghosts
  <2> QED BY <2>1, BudgetAsked
<1>2. CASE Attempt
  <2>1. Worker \in Jobs /\ worker = "summary" /\ UNCHANGED <<usage, day, spent, blurred>>
    BY <1>2 DEF Attempt, ghosts, Jobs
  <2>2. job[Worker].at = "idle"
    BY <2>1 DEF WorkerInv
  <2>3. job' = job \/ (batch[1].item \in here /\ job' = Asked(Worker, batch[1].item))
    BY <1>2 DEF Attempt, Asks
  <2> QED BY <2>1, <2>2, <2>3, BudgetAsked, BudgetStands
<1>3. CASE UNCHANGED <<job, usage, day, spent, blurred>>
  BY <1>3, BudgetStands
<1>4. CASE (WorkerStep \/ ClearFails) /\ ~Attempt
  BY <1>3, <1>4 DEF WorkerStep, NotLimited, RemovedLive, Fetched, SelectDue, StartItem,
     RateLimited, ClearMarker, ClearFails, ghosts
<1>5. CASE Configure \/ UNCHANGED vars
  BY <1>3, <1>5 DEF Configure, vars, ghosts
<1>6. ASSUME NEW i \in Items, Purge(i) \/ \E auto \in BOOLEAN : Arrive(i, auto /\ i \in Videos)
      PROVE  BudgetInv'
  BY <1>3, <1>6 DEF Purge, Arrive, ghosts
<1> QED BY <1>1, <1>2, <1>4, <1>5, <1>6, BudgetJobStep, BudgetDay, BudgetCrash DEF Next

----------------------------------------------------------------------------
(* Theorems about the summaries.                                           *)

LEMMA Start ==
  ASSUME Init
  PROVE  IInv
<1>1. ProvidersInv
  BY ProvidersStart DEF Init
<1>2. SummariesTypes
  <2>1. ContentTypes
    BY DEF Init, ContentTypes
  <2>2. JobTypes
    BY IdleJobOK DEF Init, JobTypes, JobOK
  <2>3. CountTypes
    BY DEF Init, CountTypes
  <2>4. RestTypes
    BY BoundsAssumption DEF Init, RestTypes
  <2> QED BY <1>1, <2>1, <2>2, <2>3, <2>4, TypesParts
<1>3. \A j \in Jobs : job[j].at = "idle" /\ ~Recording(j)
  BY DEF Init, IdleJob, Recording
<1>4. PaidInv /\ WorkerInv
  BY <1>3 DEF Init, PaidInv, WorkerInv, Jobs
<1>5. DatesOK /\ CountOK
  BY <1>3 DEF Init, DatesOK, CountOK, Counted
<1>6. Within
  <2> PICK T, d, n : T = Max(Tokens) /\ d = Cardinality(Calling) /\ n = Cardinality(Jobs)
    OBVIOUS
  <2>1. Calling \in SUBSET Jobs
    BY DEF Calling
  <2>2. T \in Nat /\ d \in Nat /\ n \in Nat /\ d <= n
    BY <2>1, CountCalls, MaxTokens
  <2>3. d * T \in Nat /\ n * T \in Nat /\ d * T <= n * T
    BY <2>2, Product
  <2>4. Budget \in Nat \ {0} /\ spent = 0
    BY CallsAssumption DEF Init
  <2>5. spent + d * T <= Budget - 1 + n * T
    BY <2>3, <2>4
  <2> QED BY <2>5 DEF Within
<1> QED BY <1>1, <1>2, <1>4, <1>5, <1>6 DEF IInv, BudgetInv

LEMMA NextIInv ==
  ASSUME IInv, [Next]_vars
  PROVE  IInv'
<1>1. ProvidersInv /\ ProvidersTypes /\ SummariesTypes /\ PaidInv /\ WorkerInv /\ BudgetInv
  BY DEF IInv, ProvidersInv
<1> QED BY <1>1, NextProviders, NextTypes, NextPaid, NextWorker, NextBudget DEF IInv

\* ai/summarize.rs, ai/transcript_worker.rs, ai/budget.rs: the invariant that
\* the results below rest on holds in every reachable state.
THEOREM Inductive == Spec => []IInv
<1>1. Init => IInv
  BY Start
<1>2. IInv /\ [Next]_vars => IInv'
  BY NextIInv
<1> QED BY <1>1, <1>2, PTL DEF Spec

\* ai/summarize.rs and the tables it writes: every variable keeps its type;
\* summaries in the cache and markers are of items that are stored, although
\* items are deleted while they are summarized.
THEOREM Typed == Spec => []TypeOK
<1>1. IInv => TypeOK
  BY DEF IInv, SummariesTypes
<1> QED BY <1>1, Inductive, PTL

\* attempt_auto_summary: an automatic summary that was stored is not paid
\* for again while the configuration stands, whatever crashes, failed writes
\* and requests of readers come between the call and the clearing of its
\* marker.
THEOREM PaidOnce == Spec => []AutoPaidOnce
<1>1. IInv => AutoPaidOnce
  BY DEF IInv, PaidInv, AutoPaidOnce
<1> QED BY <1>1, Inductive, PTL

\* budget::check and budget::record: for any number of callers, the tokens
\* of a day overrun its budget by no more than one call of each caller, as
\* long as no two of them write the counter at the same time, none does so
\* over midnight and none is interrupted.
THEOREM Budgeted == Spec => []BudgetHolds
<1>1. IInv => BudgetHolds
  <2> SUFFICES ASSUME IInv, ~blurred
               PROVE  spent <= Budget - 1 + Cardinality(Jobs) * Max(Tokens)
    BY DEF BudgetHolds
  <2> PICK T, c, n : T = Max(Tokens) /\ c = Cardinality(Calling) /\ n = Cardinality(Jobs)
    OBVIOUS
  <2>1. Calling \in SUBSET Jobs
    BY DEF Calling
  <2>2. T \in Nat /\ c \in Nat /\ n \in Nat
    BY <2>1, CountCalls, MaxTokens
  <2>3. c * T \in Nat /\ n * T \in Nat
    BY <2>2, Product
  <2>4. spent \in Nat /\ Budget \in Nat /\ spent + c * T <= Budget - 1 + n * T
    BY CallsAssumption DEF IInv, SummariesTypes, BudgetInv, Within
  <2>5. spent <= Budget - 1 + n * T
    BY <2>3, <2>4
  <2> QED BY <2>5
<1> QED BY <1>1, Inductive, PTL
=============================================================================
