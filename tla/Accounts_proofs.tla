--------------------------- MODULE Accounts_proofs ---------------------------
(***************************************************************************)
(* What Accounts promises for any number of accounts, requests, sessions   *)
(* and passkeys.                                                           *)
(*                                                                         *)
(* A request that has read something acts on it some steps later, so what  *)
(* it still knows by then is part of the inductive invariant: LocalOK says *)
(* of a request at each stage whom it works for and what its argument can  *)
(* be.  In particular no request that renames or deletes, and none that    *)
(* demotes or disables, has the built-in account for its target.  Ids are  *)
(* not reused, so that a person is the id of the one account that is his.  *)
(***************************************************************************)
EXTENDS Accounts, TLAPS

\* What the argument of a request can be at each stage.
ArgOK(at, arg) ==
  /\ at = "insert" => arg[1] \in Names /\ arg[2] \in Passwords
  /\ at = "renameWrite" => arg[1] \in Names
  /\ at = "passwordWrite" => arg[1] \in Passwords
  /\ at \in {"updateCount", "role", "state"} =>
       /\ arg[1] \in Ids /\ arg[2] \in Roles /\ arg[3] \in States
       /\ arg[1] = 1 => arg[2] # "user" /\ arg[3] # "disabled"
  /\ at \in {"deleteCount", "deleteUser"} => arg[1] \in Ids \ {1}
  /\ at \in {"storeKey", "finish"} => arg[1] \in Keys

\* Whom it works for: not the built-in account, when it renames or deletes.
CallerOK(at, user, person) ==
  /\ person = user
  /\ at \notin Public \cup {"idle", "insert"} => user \in Ids
  /\ at \in {"rename", "renameWrite", "leave", "deleteMe"} => user # 1

LocalOK(q) ==
  /\ DOMAIN q = {"at", "user", "person", "arg"}
  /\ CallerOK(q.at, q.user, q.person) /\ ArgOK(q.at, q.arg)

LocalsOK == DOMAIN req = Requests /\ \A r \in Requests : LocalOK(req[r])

\* A person is the id of his account, in every row.
PersonsAreIds ==
  /\ \A u \in DOMAIN users : users[u].person = u
  /\ \A s \in DOMAIN sessions : sessions[s].person = sessions[s].user
  /\ \A k \in DOMAIN passkeys : passkeys[k].person = passkeys[k].user

\* A ceremony that is pending has not been taken.
CeremoniesFresh ==
  /\ verified \in [Ceremonies -> 0..1]
  /\ \A c \in DOMAIN ceremonies : verified[c] = 0

Seeding(u) == \E r \in Requests : At(r, "seed") /\ req[r].person = u

\* Signed in or not, every account has its category Other, or is about to.
AccountsHaveOther == \A u \in DOMAIN users : u \in other \cup torn \/ Seeding(u)

TablesOK == TypeOK /\ BuiltInAdminStays /\ PersonsAreIds /\ CeremoniesFresh

IInv == TablesOK /\ LocalsOK /\ AccountsHaveOther

USE BoundAssumption, AdminAssumption DEF Nobody

----------------------------------------------------------------------------
(* The tables.                                                             *)

\* A table with one more row is a table.
LEMMA WithTable ==
  ASSUME NEW K, NEW R, NEW f, Table(f, K, R), NEW x \in K, NEW y \in R
  PROVE  /\ Table(With(f, x, y), K, R)
         /\ DOMAIN With(f, x, y) = DOMAIN f \cup {x}
         /\ With(f, x, y)[x] = y
         /\ \A z \in DOMAIN f : z # x => With(f, x, y)[z] = f[z]
BY DEF With, Table

LEMMA InitIInv == Init => IInv
<1> SUFFICES ASSUME Init PROVE IInv
  OBVIOUS
<1> USE DEF Init, Ids
<1>1. TypeOK
  BY DEF TypeOK, Table, Row, Owned, Kinds
<1>2. BuiltInAdminStays /\ PersonsAreIds
  BY DEF BuiltInAdminStays, EnabledAdmins, Row, PersonsAreIds
<1>3. LocalsOK
  BY DEF LocalsOK, LocalOK, CallerOK, ArgOK, Idle, Request, Public
<1>4. CeremoniesFresh /\ AccountsHaveOther
  BY DEF CeremoniesFresh, AccountsHaveOther
<1> QED BY <1>1, <1>2, <1>3, <1>4 DEF IInv, TablesOK

----------------------------------------------------------------------------
(* What a step does to the request that takes it.                          *)

\* One request goes on to q; the others stay where they are.
Moves(r, q) == \A s \in Requests : req'[s] = IF s = r THEN q ELSE req[s]

\* A step of one request that is not about to have its categories.
Steps(r) == LocalsOK' /\ \A u : Seeding(u) => Seeding(u)'

LEMMA DoneSteps ==
  ASSUME LocalsOK, NEW r \in Requests, Done(r)
  PROVE  /\ LocalsOK' /\ Moves(r, Idle)
         /\ ~At(r, "seed") => Steps(r)
<1>1. LocalOK(Idle)
  BY DEF Idle, LocalOK, CallerOK, ArgOK, Request, Public
<1>2. LocalsOK' /\ Moves(r, Idle)
  BY <1>1 DEF Done, LocalsOK, Moves
<1> QED BY <1>2 DEF Steps, Moves, Seeding, At

LEMMA GoOnSteps ==
  ASSUME LocalsOK, NEW r \in Requests, NEW at, NEW arg, GoOn(r, at, arg),
         CallerOK(at, req[r].user, req[r].person), ArgOK(at, arg)
  PROVE  LocalsOK' /\ (~At(r, "seed") => Steps(r))
<1> DEFINE q == [req[r] EXCEPT !.at = at, !.arg = arg]
<1>1. Moves(r, q) /\ DOMAIN req' = Requests
  BY DEF Moves, GoOn, LocalsOK
<1>2. LocalOK(q)
  BY DEF LocalsOK, LocalOK
<1> HIDE DEF q
<1>3. LocalsOK'
  BY <1>1, <1>2 DEF LocalsOK, Moves
<1> QED BY <1>1, <1>3 DEF Steps, Moves, Seeding, At

LEMMA RequestSteps ==
  ASSUME LocalsOK, NEW r \in Requests, NEW at, NEW user, NEW arg,
         req' = [req EXCEPT ![r] = Request(at, user, user, arg)],
         CallerOK(at, user, user), ArgOK(at, arg)
  PROVE  LocalsOK' /\ (~At(r, "seed") => Steps(r))
<1> DEFINE q == Request(at, user, user, arg)
<1>1. Moves(r, q) /\ DOMAIN req' = Requests
  BY DEF Moves, LocalsOK
<1>2. LocalOK(q)
  BY DEF LocalOK, Request
<1> HIDE DEF q
<1>3. LocalsOK'
  BY <1>1, <1>2 DEF LocalsOK, Moves
<1> QED BY <1>1, <1>3 DEF Steps, Moves, Seeding, At

\* Accounts that have their category Other, and tables, as they were.
LEMMA OtherStays ==
  ASSUME AccountsHaveOther, DOMAIN users' \subseteq DOMAIN users,
         other \cap DOMAIN users' \subseteq other', torn \subseteq torn',
         \A u : Seeding(u) => Seeding(u)' \/ u \in torn'
  PROVE  AccountsHaveOther'
BY DEF AccountsHaveOther

LEMMA TablesStay ==
  ASSUME TablesOK, UNCHANGED <<tables, keyed>>, torn' \subseteq Ids,
         served' \in 0..MaxRequests
  PROVE  TablesOK'
BY DEF TablesOK, TypeOK, Table, BuiltInAdminStays, EnabledAdmins, PersonsAreIds,
       CeremoniesFresh, tables, rows, keyed

\* A step that only moves a request on.
LEMMA OnlySteps ==
  ASSUME IInv, NEW r, Steps(r), UNCHANGED <<tables, keyed, torn>>,
         served' \in 0..MaxRequests
  PROVE  IInv'
<1>1. TablesOK'
  BY TablesStay DEF IInv, TablesOK, TypeOK
<1>2. AccountsHaveOther'
  BY OtherStays DEF IInv, Steps, tables, rows
<1> QED BY <1>1, <1>2 DEF IInv, Steps

----------------------------------------------------------------------------
(* The steps that only read.                                               *)

\* The extractors tell the built-in account from the others.
LEMMA ExtractKeeps ==
  ASSUME IInv, NEW r \in Requests, NEW s \in DOMAIN sessions,
         NEW at \in Own \cup OfAdmins, Extract(r, s, at)
  PROVE  IInv'
<1> DEFINE u == sessions[s].user
<1>1. u \in DOMAIN users /\ u \in Ids /\ users[u].person = u
  BY DEF IInv, TablesOK, TypeOK, Table, PersonsAreIds
<1>2. at \in OwnNotAdmin => u # 1
  BY DEF Extract, IInv, TablesOK, BuiltInAdminStays
<1>3. CallerOK(at, u, u) /\ ArgOK(at, <<>>)
  BY <1>1, <1>2 DEF CallerOK, ArgOK, Own, OfAdmins, OwnNotAdmin
<1>4. Steps(r)
  BY <1>1, <1>3, RequestSteps DEF Extract, Serve, At, IInv
<1>5. served' \in 0..MaxRequests
  BY DEF Extract, Serve, IInv, TablesOK, TypeOK
<1> QED BY <1>4, <1>5, OnlySteps DEF Extract

LEMMA BeginPublicKeeps ==
  ASSUME IInv, NEW r \in Requests, NEW at \in Public, BeginPublic(r, at)
  PROVE  IInv'
<1>1. CallerOK(at, Nobody, Nobody) /\ ArgOK(at, <<>>)
  BY DEF CallerOK, ArgOK, Public
<1>2. Steps(r)
  BY <1>1, RequestSteps DEF BeginPublic, Serve, At, IInv
<1>3. served' \in 0..MaxRequests
  BY DEF BeginPublic, Serve, IInv, TablesOK, TypeOK
<1> QED BY <1>2, <1>3, OnlySteps DEF BeginPublic

LEMMA ServedStays ==
  ASSUME IInv, UNCHANGED served
  PROVE  served' \in 0..MaxRequests
BY DEF IInv, TablesOK, TypeOK

LEMMA RegisterCheckKeeps ==
  ASSUME IInv, NEW r \in Requests, NEW name \in Names, NEW password \in Passwords,
         RegisterCheck(r, name, password)
  PROVE  IInv'
<1>1. ArgOK("insert", <<name, password>>)
  BY DEF ArgOK
<1>2. CallerOK("insert", req[r].user, req[r].person)
  BY DEF IInv, LocalsOK, LocalOK, CallerOK
<1>3. Steps(r)
  BY <1>1, <1>2, DoneSteps, GoOnSteps DEF RegisterCheck, At, IInv
<1> QED BY <1>3, ServedStays, OnlySteps DEF RegisterCheck

LEMMA LoginReadKeeps ==
  ASSUME IInv, NEW r \in Requests, NEW name, NEW password, LoginRead(r, name, password)
  PROVE  IInv'
<1>1. ASSUME NEW u \in DOMAIN users,
             req' = [req EXCEPT ![r] = Request("session", u, users[u].person, <<>>)]
      PROVE  Steps(r)
  <2>1. u \in Ids /\ users[u].person = u
    BY DEF IInv, TablesOK, TypeOK, Table, PersonsAreIds
  <2>2. CallerOK("session", u, u) /\ ArgOK("session", <<>>)
    BY <2>1 DEF CallerOK, ArgOK
  <2> QED BY <1>1, <2>1, <2>2, RequestSteps DEF LoginRead, At, IInv
<1>2. Steps(r)
  BY <1>1, DoneSteps DEF LoginRead, Named, At, IInv
<1> QED BY <1>2, ServedStays, OnlySteps DEF LoginRead

LEMMA RenameCheckKeeps ==
  ASSUME IInv, NEW r \in Requests, NEW name \in Names, RenameCheck(r, name)
  PROVE  IInv'
<1>1. ArgOK("renameWrite", <<name>>)
  BY DEF ArgOK
<1>2. CallerOK("renameWrite", req[r].user, req[r].person)
  BY DEF RenameCheck, At, IInv, LocalsOK, LocalOK, CallerOK, Public
<1>3. Steps(r)
  BY <1>1, <1>2, DoneSteps, GoOnSteps DEF RenameCheck, At, IInv
<1> QED BY <1>3, ServedStays, OnlySteps DEF RenameCheck

LEMMA PasswordCheckKeeps ==
  ASSUME IInv, NEW r \in Requests, NEW password, NEW new \in Passwords,
         PasswordCheck(r, password, new)
  PROVE  IInv'
<1>1. ArgOK("passwordWrite", <<new>>)
  BY DEF ArgOK
<1>2. CallerOK("passwordWrite", req[r].user, req[r].person)
  BY DEF PasswordCheck, At, IInv, LocalsOK, LocalOK, CallerOK, Public
<1>3. Steps(r)
  BY <1>1, <1>2, DoneSteps, GoOnSteps DEF PasswordCheck, At, IInv
<1> QED BY <1>3, ServedStays, OnlySteps DEF PasswordCheck

\* The guards of the built-in account hold of what is read here ...
LEMMA UpdateFetchKeeps ==
  ASSUME IInv, NEW r \in Requests, NEW u \in Ids, NEW role \in Roles, NEW state \in States,
         UpdateFetch(r, u, role, state)
  PROVE  IInv'
<1>1. ASSUME u \in DOMAIN users, ~(BuiltIn(u) /\ (role = "user" \/ state = "disabled")),
             NEW at \in {"updateCount", "role"}
      PROVE  ArgOK(at, <<u, role, state>>) /\ CallerOK(at, req[r].user, req[r].person)
  <2>1. u = 1 => BuiltIn(u)
    BY DEF BuiltIn, IInv, TablesOK, BuiltInAdminStays
  <2>2. ArgOK(at, <<u, role, state>>)
    BY <1>1, <2>1 DEF ArgOK
  <2>3. CallerOK(at, req[r].user, req[r].person)
    BY DEF UpdateFetch, At, IInv, LocalsOK, LocalOK, CallerOK, Public
  <2> QED BY <2>2, <2>3
<1>2. Steps(r)
  BY <1>1, DoneSteps, GoOnSteps DEF UpdateFetch, At, IInv
<1> QED BY <1>2, ServedStays, OnlySteps DEF UpdateFetch

LEMMA DeleteFetchKeeps ==
  ASSUME IInv, NEW r \in Requests, NEW u \in Ids, DeleteFetch(r, u)
  PROVE  IInv'
<1>1. ASSUME u \in DOMAIN users, ~BuiltIn(u), NEW at \in {"deleteCount", "deleteUser"}
      PROVE  ArgOK(at, <<u>>) /\ CallerOK(at, req[r].user, req[r].person)
  <2>1. u # 1
    BY <1>1 DEF BuiltIn, IInv, TablesOK, BuiltInAdminStays
  <2>2. ArgOK(at, <<u>>)
    BY <2>1 DEF ArgOK
  <2>3. CallerOK(at, req[r].user, req[r].person)
    BY DEF DeleteFetch, At, IInv, LocalsOK, LocalOK, CallerOK, Public
  <2> QED BY <2>2, <2>3
<1>2. Steps(r)
  BY <1>1, DoneSteps, GoOnSteps DEF DeleteFetch, At, IInv
<1> QED BY <1>2, ServedStays, OnlySteps DEF DeleteFetch

\* ... and stay true of the argument that the request carries along.
LEMMA CountKeeps ==
  ASSUME IInv, NEW r \in Requests, Count(r)
  PROVE  IInv'
<1>1. LocalOK(req[r])
  BY DEF IInv, LocalsOK
<1>2. At(r, "updateCount") => ArgOK("role", req[r].arg) /\ CallerOK("role", req[r].user, req[r].person)
  BY <1>1 DEF At, LocalOK, ArgOK, CallerOK, Public
<1>3. At(r, "deleteCount") => ArgOK("deleteUser", req[r].arg) /\ CallerOK("deleteUser", req[r].user, req[r].person)
  BY <1>1 DEF At, LocalOK, ArgOK, CallerOK, Public
<1>4. Steps(r)
  BY <1>2, <1>3, DoneSteps, GoOnSteps DEF Count, At, IInv
<1> QED BY <1>4, ServedStays, OnlySteps DEF Count

LEMMA FinishLoginKeeps ==
  ASSUME IInv, NEW r \in Requests, FinishLogin(r)
  PROVE  IInv'
<1>1. ArgOK("session", <<>>)
  BY DEF ArgOK
<1>2. CallerOK("session", req[r].user, req[r].person)
  BY DEF FinishLogin, At, IInv, LocalsOK, LocalOK, CallerOK, Public
<1>3. Steps(r)
  BY <1>1, <1>2, DoneSteps, GoOnSteps DEF FinishLogin, At, IInv
<1> QED BY <1>3, ServedStays, OnlySteps DEF FinishLogin

----------------------------------------------------------------------------
(* The steps that write.                                                   *)

Rows == [person : Ids, name : Names, admin : BOOLEAN, disabled : BOOLEAN, password : Passwords]

\* An UPDATE keeps the tables if it keeps the person of the row, and the
\* built-in account what it is.
LEMMA SetUserKeeps ==
  ASSUME TablesOK, NEW u \in DOMAIN users, NEW row \in Rows, SetUser(u, row),
         row.person = u, u = 1 => row.name = Admin /\ row.admin /\ ~row.disabled,
         UNCHANGED <<keyed, torn, served>>
  PROVE  TablesOK' /\ DOMAIN users' = DOMAIN users /\ other' = other
<1>1. users' = [users EXCEPT ![u] = row] /\ UNCHANGED <<created, rows, allow>>
  BY DEF SetUser
<1>2. /\ DOMAIN users' = DOMAIN users
      /\ \A v \in DOMAIN users : users'[v] = IF v = u THEN row ELSE users[v]
  BY <1>1
<1>3. Table(users', Ids, Rows)
  BY <1>1 DEF TablesOK, TypeOK, Table, Rows
<1>4. TypeOK'
  BY <1>1, <1>2, <1>3 DEF TablesOK, TypeOK, Table, Rows, rows, keyed
<1>5. BuiltInAdminStays' /\ PersonsAreIds' /\ CeremoniesFresh'
  BY <1>1, <1>2 DEF TablesOK, BuiltInAdminStays, EnabledAdmins, PersonsAreIds, CeremoniesFresh,
                    rows, keyed
<1> QED BY <1>1, <1>2, <1>4, <1>5 DEF TablesOK, rows

LEMMA DeleteUserKeeps ==
  ASSUME TablesOK, NEW u \in Ids \ {1}, DeleteUser(u), UNCHANGED <<keyed, torn, served>>
  PROVE  TablesOK' /\ DOMAIN users' = DOMAIN users \ {u} /\ other' = other \ {u}
<1>1. /\ Table(users, Ids, Rows) /\ Table(sessions, Sessions, Owned)
      /\ Table(passkeys, Keys, Owned)
  BY DEF TablesOK, TypeOK, Rows
<1>2. /\ users' = Without(users, {u}) /\ other' = other \ {u}
      /\ sessions' = Without(sessions, Of(sessions, u))
      /\ passkeys' = Without(passkeys, Of(passkeys, u))
      /\ UNCHANGED <<created, allow, handle, ceremonies, verified, torn, served>>
  BY DEF DeleteUser, keyed
<1>3. /\ Table(users', Ids, Rows) /\ DOMAIN users' = DOMAIN users \ {u}
      /\ \A v \in DOMAIN users' : users'[v] = users[v]
  BY <1>1, <1>2 DEF Without, Table
<1>4. /\ Table(sessions', Sessions, Owned)
      /\ DOMAIN sessions' = DOMAIN sessions \ Of(sessions, u)
      /\ \A s \in DOMAIN sessions' : sessions'[s] = sessions[s]
  BY <1>1, <1>2 DEF Without, Table
<1>5. /\ Table(passkeys', Keys, Owned)
      /\ DOMAIN passkeys' = DOMAIN passkeys \ Of(passkeys, u)
      /\ \A k \in DOMAIN passkeys' : passkeys'[k] = passkeys[k]
  BY <1>1, <1>2 DEF Without, Table
<1>6. /\ \A s \in DOMAIN sessions' : sessions'[s].user \in DOMAIN users'
      /\ \A k \in DOMAIN passkeys' : passkeys'[k].user \in DOMAIN users'
  BY <1>3, <1>4, <1>5 DEF TablesOK, TypeOK, Of
<1>7. other' \subseteq DOMAIN users'
  BY <1>2, <1>3 DEF TablesOK, TypeOK
<1>8. TypeOK'
  BY <1>2, <1>3, <1>4, <1>5, <1>6, <1>7 DEF TablesOK, TypeOK, Rows
<1>9. BuiltInAdminStays'
  BY <1>3 DEF TablesOK, BuiltInAdminStays, EnabledAdmins
<1>10. PersonsAreIds'
  BY <1>3, <1>4, <1>5 DEF TablesOK, PersonsAreIds
<1>11. CeremoniesFresh'
  BY <1>2 DEF TablesOK, CeremoniesFresh
<1> QED BY <1>2, <1>3, <1>8, <1>9, <1>10, <1>11 DEF TablesOK

\* Sessions and passkeys come and go; what remains or is added is of a person.
LEMMA RowsKeep ==
  ASSUME TablesOK, UNCHANGED <<users, created, other, allow, ceremonies, verified, torn, served>>,
         Table(sessions', Sessions, Owned), Table(passkeys', Keys, Owned),
         handle' \in [Keys -> Ids \cup {Nobody}],
         \A s \in DOMAIN sessions' :
           sessions'[s].user \in DOMAIN users /\ sessions'[s].person = sessions'[s].user,
         \A k \in DOMAIN passkeys' :
           passkeys'[k].user \in DOMAIN users /\ passkeys'[k].person = passkeys'[k].user
  PROVE  TablesOK'
BY DEF TablesOK, TypeOK, Table, BuiltInAdminStays, EnabledAdmins, PersonsAreIds, CeremoniesFresh

LEMMA RegisterInsertKeeps ==
  ASSUME IInv, NEW r \in Requests, RegisterInsert(r)
  PROVE  IInv'
<1> PICK id : id = created + 1
  OBVIOUS
<1> DEFINE name == req[r].arg[1]
           row == Row(id, name, FALSE, req[r].arg[2])
<1>1. CASE ~NameFree(name)
  <2>1. UNCHANGED <<tables, keyed, torn, served>> /\ Done(r)
    BY <1>1 DEF RegisterInsert, tables
  <2>2. Steps(r)
    BY <2>1, DoneSteps DEF RegisterInsert, At, IInv
  <2> QED BY <2>1, <2>2, ServedStays, OnlySteps
<1>2. CASE NameFree(name)
  <2>1. /\ created' = id /\ created < MaxAccounts
        /\ users' = With(users, id, row)
        /\ req' = [req EXCEPT ![r] = Request("seed", id, id, <<>>)]
        /\ UNCHANGED <<rows, allow, keyed, torn, served>>
    BY <1>2 DEF RegisterInsert, NewId
  <2>2. id \in Ids /\ created \in Ids
    BY <2>1 DEF IInv, TablesOK, TypeOK, Ids
  <2>3. row \in Rows /\ row.person = id
    <3>1. name \in Names /\ req[r].arg[2] \in Passwords
      BY DEF RegisterInsert, At, IInv, LocalsOK, LocalOK, ArgOK
    <3> QED BY <2>2, <3>1 DEF Row, Rows
  <2>4. /\ Table(users', Ids, Rows)
        /\ DOMAIN users' = DOMAIN users \cup {id}
        /\ users'[id] = row
        /\ \A z \in DOMAIN users : z # id => users'[z] = users[z]
    <3>1. Table(users, Ids, Rows)
      BY DEF IInv, TablesOK, TypeOK, Rows
    <3> QED BY <2>1, <2>2, <2>3, <3>1 DEF With, Table
  <2>5. TypeOK'
    BY <2>1, <2>2, <2>4 DEF IInv, TablesOK, TypeOK, Table, Rows, rows, keyed
  <2>6. id # 1
    BY <2>2 DEF Ids
  <2>7. BuiltInAdminStays' /\ PersonsAreIds' /\ CeremoniesFresh'
    <3>1. BuiltInAdminStays /\ PersonsAreIds /\ CeremoniesFresh
      BY DEF IInv, TablesOK
    <3>2. BuiltInAdminStays'
      BY <2>4, <2>6, <3>1 DEF BuiltInAdminStays, EnabledAdmins
    <3>3. PersonsAreIds'
      BY <2>1, <2>3, <2>4, <3>1 DEF PersonsAreIds, rows, keyed
    <3>4. CeremoniesFresh'
      BY <2>1, <3>1 DEF CeremoniesFresh, rows, keyed
    <3> QED BY <3>2, <3>3, <3>4
  <2>8. CallerOK("seed", id, id) /\ ArgOK("seed", <<>>)
    BY <2>2 DEF CallerOK, ArgOK
  <2>9. Steps(r)
    BY <2>1, <2>8, RequestSteps DEF RegisterInsert, At, IInv
  <2>10. Seeding(id)'
    <3>1. req'[r].at = "seed" /\ req'[r].person = id
      BY <2>1 DEF Request, IInv, LocalsOK
    <3> QED BY <3>1 DEF Seeding, At
  <2>11. AccountsHaveOther'
    <3>1. ASSUME NEW u \in DOMAIN users'
          PROVE  u = id \/ u \in other' \cup torn' \/ Seeding(u)'
      BY <2>1, <2>4, <2>9 DEF AccountsHaveOther, Steps, IInv, rows
    <3> QED BY <2>10, <3>1 DEF AccountsHaveOther
  <2> QED BY <2>5, <2>7, <2>9, <2>11 DEF IInv, TablesOK, Steps
<1> QED BY <1>1, <1>2

\* Where the seeding ends, the account has its categories or is gone.
LEMMA RegisterSeedKeeps ==
  ASSUME IInv, NEW r \in Requests, RegisterSeed(r)
  PROVE  IInv'
<1> DEFINE u == req[r].user
<1>1. /\ UNCHANGED <<users, created, sessions, passkeys, allow, keyed, torn, served>>
      /\ other' = IF u \in DOMAIN users THEN other \cup {u} ELSE other
      /\ At(r, "seed")
  BY DEF RegisterSeed
<1>2. TablesOK'
  BY <1>1 DEF IInv, TablesOK, TypeOK, Table, BuiltInAdminStays, EnabledAdmins, PersonsAreIds,
              CeremoniesFresh, keyed
<1>3. req[r].person = u
  BY DEF IInv, LocalsOK, LocalOK, CallerOK
<1>4. ArgOK("session", <<>>) /\ CallerOK("session", req[r].user, req[r].person)
  BY <1>1 DEF At, IInv, LocalsOK, LocalOK, CallerOK, ArgOK, Public
<1>5. LocalsOK'
  BY <1>4, DoneSteps, GoOnSteps DEF RegisterSeed, IInv
<1>6. \A s \in Requests \ {r} : req'[s] = req[s]
  BY DEF RegisterSeed, Done, GoOn, IInv, LocalsOK
<1>7. \A v : Seeding(v) => Seeding(v)' \/ v = u
  BY <1>3, <1>6 DEF Seeding, At
<1>8. AccountsHaveOther'
  BY <1>1, <1>7 DEF AccountsHaveOther, IInv
<1> QED BY <1>2, <1>5, <1>8 DEF IInv

LEMMA CreateSessionKeeps ==
  ASSUME IInv, NEW r \in Requests, NEW s \in Sessions, CreateSession(r, s)
  PROVE  IInv'
<1> DEFINE u == req[r].user
           row == [user |-> u, person |-> req[r].person]
<1>1. Steps(r)
  BY DoneSteps DEF CreateSession, At, IInv
<1>2. u \in Ids /\ req[r].person = u
  BY DEF CreateSession, At, IInv, LocalsOK, LocalOK, CallerOK, Public
<1>3. /\ Table(sessions', Sessions, Owned)
      /\ \A t \in DOMAIN sessions' :
           sessions'[t].user \in DOMAIN users /\ sessions'[t].person = sessions'[t].user
  <2>1. CASE u \notin DOMAIN users
    BY <2>1 DEF CreateSession, IInv, TablesOK, TypeOK, PersonsAreIds
  <2>2. CASE u \in DOMAIN users
    <3>1. row \in Owned
      BY <1>2 DEF Owned
    <3>2. sessions' = With(sessions, s, row) /\ Table(sessions, Sessions, Owned)
      BY <2>2 DEF CreateSession, IInv, TablesOK, TypeOK
    <3>3. /\ Table(sessions', Sessions, Owned)
          /\ DOMAIN sessions' = DOMAIN sessions \cup {s} /\ sessions'[s] = row
          /\ \A t \in DOMAIN sessions : t # s => sessions'[t] = sessions[t]
      BY <3>1, <3>2, WithTable
    <3> QED BY <1>2, <2>2, <3>3 DEF IInv, TablesOK, TypeOK, PersonsAreIds
  <2> QED BY <2>1, <2>2
<1>4. /\ UNCHANGED <<users, created, other, passkeys, allow, keyed, torn, served>>
  BY DEF CreateSession
<1>5. TablesOK'
  BY <1>3, <1>4, RowsKeep DEF IInv, TablesOK, TypeOK, PersonsAreIds, keyed
<1>6. AccountsHaveOther'
  BY <1>1, <1>4, OtherStays DEF IInv, Steps
<1> QED BY <1>1, <1>5, <1>6 DEF IInv, Steps

\* A session ends, all sessions of a user end.
LEMMA EndSessionKeeps ==
  ASSUME IInv, NEW s \in DOMAIN sessions, EndSession(s)
  PROVE  IInv'
<1>1. /\ sessions' = Without(sessions, {s})
      /\ UNCHANGED <<users, created, other, passkeys, allow, keyed, req, torn, served>>
  BY DEF EndSession
<1>2. TablesOK'
  BY <1>1, RowsKeep DEF IInv, TablesOK, TypeOK, PersonsAreIds, Without, Table, keyed
<1>3. LocalsOK' /\ AccountsHaveOther'
  BY <1>1 DEF IInv, LocalsOK, AccountsHaveOther, Seeding, At
<1> QED BY <1>2, <1>3 DEF IInv

LEMMA RevokeKeeps ==
  ASSUME IInv, NEW r \in Requests, Revoke(r)
  PROVE  IInv'
<1>1. /\ sessions' = Without(sessions, Of(sessions, req[r].user))
      /\ UNCHANGED <<users, created, other, passkeys, allow, keyed, torn, served>>
  BY DEF Revoke
<1>2. TablesOK'
  BY <1>1, RowsKeep DEF IInv, TablesOK, TypeOK, PersonsAreIds, Without, Table, keyed
<1>3. LocalOK(req[r])
  BY DEF IInv, LocalsOK
<1>4. At(r, "leave") => ArgOK("deleteMe", <<>>) /\ CallerOK("deleteMe", req[r].user, req[r].person)
  BY <1>3 DEF At, LocalOK, ArgOK, CallerOK, Public
<1>5. Steps(r)
  BY <1>4, DoneSteps, GoOnSteps DEF Revoke, At, IInv
<1>6. AccountsHaveOther'
  BY <1>1, <1>5, OtherStays DEF IInv, Steps
<1> QED BY <1>2, <1>5, <1>6 DEF IInv, Steps

\* The account of a request that leaves, or of an admin's, is another one
\* than the built-in account.
LEMMA DeleteMeKeeps ==
  ASSUME IInv, NEW r \in Requests, DeleteMe(r)
  PROVE  IInv'
<1>1. DeleteUser(req[r].user) /\ UNCHANGED <<keyed, torn, served>>
  BY DEF DeleteMe
<1>2. req[r].user \in Ids \ {1}
  BY DEF DeleteMe, At, IInv, LocalsOK, LocalOK, CallerOK, Public
<1>3. TablesOK' /\ DOMAIN users' = DOMAIN users \ {req[r].user} /\ other' = other \ {req[r].user}
  BY <1>1, <1>2, DeleteUserKeeps DEF IInv
<1>4. Steps(r)
  BY DoneSteps DEF DeleteMe, At, IInv
<1>5. AccountsHaveOther'
  BY <1>1, <1>3, <1>4, OtherStays DEF IInv, Steps
<1> QED BY <1>3, <1>4, <1>5 DEF IInv, Steps

LEMMA DeleteTargetKeeps ==
  ASSUME IInv, NEW r \in Requests, DeleteTarget(r)
  PROVE  IInv'
<1> DEFINE u == req[r].arg[1]
<1>1. DeleteUser(u) /\ UNCHANGED <<keyed, torn, served>>
  BY DEF DeleteTarget
<1>2. u \in Ids \ {1}
  BY DEF DeleteTarget, At, IInv, LocalsOK, LocalOK, ArgOK
<1>3. TablesOK' /\ DOMAIN users' = DOMAIN users \ {u} /\ other' = other \ {u}
  BY <1>1, <1>2, DeleteUserKeeps DEF IInv
<1>4. Steps(r)
  BY DoneSteps DEF DeleteTarget, At, IInv
<1>5. AccountsHaveOther'
  BY <1>1, <1>3, <1>4, OtherStays DEF IInv, Steps
<1> QED BY <1>3, <1>4, <1>5 DEF IInv, Steps

\* An UPDATE of one column.
LEMMA SetAdmin ==
  ASSUME NEW row \in Rows, NEW b \in BOOLEAN
  PROVE  /\ [row EXCEPT !.admin = b] \in Rows
         /\ [row EXCEPT !.admin = b].person = row.person
         /\ [row EXCEPT !.admin = b].name = row.name
         /\ [row EXCEPT !.admin = b].admin = b
         /\ [row EXCEPT !.admin = b].disabled = row.disabled
BY DEF Rows

LEMMA SetDisabled ==
  ASSUME NEW row \in Rows, NEW b \in BOOLEAN
  PROVE  /\ [row EXCEPT !.disabled = b] \in Rows
         /\ [row EXCEPT !.disabled = b].person = row.person
         /\ [row EXCEPT !.disabled = b].name = row.name
         /\ [row EXCEPT !.disabled = b].admin = row.admin
         /\ [row EXCEPT !.disabled = b].disabled = b
BY DEF Rows

\* A step that updates a row, or nothing, and moves a request on.
LEMMA UpdateSteps ==
  ASSUME IInv, NEW r \in Requests, Steps(r), UNCHANGED <<keyed, torn, served>>,
         \/ UNCHANGED tables
         \/ \E u \in DOMAIN users : \E row \in Rows :
              /\ SetUser(u, row) /\ row.person = u
              /\ u = 1 => row.name = Admin /\ row.admin /\ ~row.disabled
  PROVE  IInv'
<1>1. CASE UNCHANGED tables
  BY <1>1, ServedStays, OnlySteps
<1>2. ASSUME NEW u \in DOMAIN users, NEW row \in Rows, SetUser(u, row), row.person = u,
             u = 1 => row.name = Admin /\ row.admin /\ ~row.disabled
      PROVE  IInv'
  <2>1. TablesOK' /\ DOMAIN users' = DOMAIN users /\ other' = other
    BY <1>2, SetUserKeeps DEF IInv
  <2>2. AccountsHaveOther'
    BY <2>1, OtherStays DEF IInv, Steps
  <2> QED BY <2>1, <2>2 DEF IInv, Steps
<1> QED BY <1>1, <1>2

LEMMA UserRow ==
  ASSUME IInv, NEW u \in DOMAIN users
  PROVE  /\ users[u] \in Rows /\ users[u].person = u
         /\ u = 1 => users[u].name = Admin /\ users[u].admin /\ ~users[u].disabled
BY DEF IInv, TablesOK, TypeOK, Table, Rows, PersonsAreIds, BuiltInAdminStays, EnabledAdmins

LEMMA RenameWriteKeeps ==
  ASSUME IInv, NEW r \in Requests, RenameWrite(r)
  PROVE  IInv'
<1> DEFINE u == req[r].user  name == req[r].arg[1]
           row == [users[u] EXCEPT !.name = name]
<1>1. LocalOK(req[r]) /\ At(r, "renameWrite")
  BY DEF RenameWrite, IInv, LocalsOK
<1>2. name \in Names /\ u # 1
  BY <1>1 DEF At, LocalOK, ArgOK, CallerOK
<1>3. u \in DOMAIN users => row \in Rows /\ row.person = u
  BY <1>2, UserRow DEF Rows
<1>4. ArgOK("password", <<>>) /\ CallerOK("password", u, req[r].person)
  BY <1>1 DEF At, LocalOK, ArgOK, CallerOK, Public
<1>5. Steps(r)
  BY <1>1, <1>4, DoneSteps, GoOnSteps DEF RenameWrite, At, IInv
<1>6. UNCHANGED tables \/ (u \in DOMAIN users /\ SetUser(u, row))
  BY DEF RenameWrite
<1> QED BY <1>2, <1>3, <1>5, <1>6, UpdateSteps DEF RenameWrite

LEMMA PasswordWriteKeeps ==
  ASSUME IInv, NEW r \in Requests, PasswordWrite(r)
  PROVE  IInv'
<1> DEFINE u == req[r].user
           row == [users[u] EXCEPT !.password = req[r].arg[1]]
<1>1. req[r].arg[1] \in Passwords
  BY DEF PasswordWrite, At, IInv, LocalsOK, LocalOK, ArgOK
<1>2. u \in DOMAIN users =>
        /\ row \in Rows /\ row.person = u
        /\ u = 1 => row.name = Admin /\ row.admin /\ ~row.disabled
  BY <1>1, UserRow DEF Rows
<1>3. Steps(r)
  BY DoneSteps DEF PasswordWrite, At, IInv
<1>4. UNCHANGED tables \/ (u \in DOMAIN users /\ SetUser(u, row))
  BY DEF PasswordWrite
<1> QED BY <1>2, <1>3, <1>4, UpdateSteps DEF PasswordWrite

\* The two UPDATEs of an admin: the argument has passed the guards.
LEMMA UpdateRoleKeeps ==
  ASSUME IInv, NEW r \in Requests, UpdateRole(r)
  PROVE  IInv'
<1> DEFINE u == req[r].arg[1]  role == req[r].arg[2]
           row == [users[u] EXCEPT !.admin = role = "admin"]
<1>1. LocalOK(req[r]) /\ At(r, "role")
  BY DEF UpdateRole, IInv, LocalsOK
<1>2. role \in Roles /\ (u = 1 => role # "user")
  BY <1>1 DEF At, LocalOK, ArgOK
<1>3. ASSUME u \in DOMAIN users, role # "same"
      PROVE  /\ row \in Rows /\ row.person = u
             /\ u = 1 => row.name = Admin /\ row.admin /\ ~row.disabled
  <2> DEFINE b == role = "admin"
  <2>1. b \in BOOLEAN /\ row = [users[u] EXCEPT !.admin = b]
    OBVIOUS
  <2>2. u = 1 => b
    BY <1>2, <1>3 DEF Roles
  <2>3. users[u] \in Rows /\ users[u].person = u
    BY <1>3, UserRow
  <2>4. u = 1 => users[u].name = Admin /\ users[u].admin /\ ~users[u].disabled
    BY <1>3, UserRow
  <2> HIDE DEF b, row
  <2> QED BY <2>1, <2>2, <2>3, <2>4, SetAdmin
<1>4. ArgOK("state", req[r].arg) /\ CallerOK("state", req[r].user, req[r].person)
  BY <1>1 DEF At, LocalOK, ArgOK, CallerOK, Public
<1>5. Steps(r)
  BY <1>1, <1>4, GoOnSteps DEF UpdateRole, At, IInv
<1>6. UNCHANGED tables \/ (role # "same" /\ u \in DOMAIN users /\ SetUser(u, row))
  BY DEF UpdateRole
<1> QED BY <1>3, <1>5, <1>6, UpdateSteps DEF UpdateRole

LEMMA UpdateStateKeeps ==
  ASSUME IInv, NEW r \in Requests, UpdateState(r)
  PROVE  IInv'
<1> DEFINE u == req[r].arg[1]  state == req[r].arg[3]
           row == [users[u] EXCEPT !.disabled = state = "disabled"]
<1>1. u = 1 => state # "disabled"
  BY DEF UpdateState, At, IInv, LocalsOK, LocalOK, ArgOK
<1>2. ASSUME u \in DOMAIN users
      PROVE  /\ row \in Rows /\ row.person = u
             /\ u = 1 => row.name = Admin /\ row.admin /\ ~row.disabled
  <2> DEFINE b == state = "disabled"
  <2>1. b \in BOOLEAN /\ row = [users[u] EXCEPT !.disabled = b]
    OBVIOUS
  <2>2. u = 1 => ~b
    BY <1>1
  <2>3. users[u] \in Rows /\ users[u].person = u
    BY <1>2, UserRow
  <2>4. u = 1 => users[u].name = Admin /\ users[u].admin /\ ~users[u].disabled
    BY <1>2, UserRow
  <2> HIDE DEF b, row
  <2> QED BY <2>1, <2>2, <2>3, <2>4, SetDisabled
<1>3. Steps(r)
  BY DoneSteps DEF UpdateState, At, IInv
<1>4. UNCHANGED tables \/ (u \in DOMAIN users /\ SetUser(u, row))
  BY DEF UpdateState
<1> QED BY <1>2, <1>3, <1>4, UpdateSteps DEF UpdateState

LEMMA PutSettingsKeeps ==
  ASSUME IInv, NEW r \in Requests, PutSettings(r)
  PROVE  IInv'
<1>1. UNCHANGED <<users, created, rows, keyed, torn, served>> /\ allow' \in BOOLEAN
  BY DEF PutSettings
<1>2. TablesOK'
  BY <1>1 DEF IInv, TablesOK, TypeOK, Table, BuiltInAdminStays, EnabledAdmins, PersonsAreIds,
              CeremoniesFresh, rows, keyed
<1>3. Steps(r)
  BY DoneSteps DEF PutSettings, At, IInv
<1>4. AccountsHaveOther'
  BY <1>1, <1>3, OtherStays DEF IInv, Steps, rows
<1> QED BY <1>2, <1>3, <1>4 DEF IInv, Steps

----------------------------------------------------------------------------
(* Ceremonies and passkeys.                                                *)

\* A ceremony begins with an id that has not been taken.
LEMMA BeginKeeps ==
  ASSUME IInv, NEW r \in Requests, NEW c \in Ceremonies, NEW kind \in Kinds,
         NEW user \in Ids \cup {Nobody}, Begin(r, c, kind, user), ~At(r, "seed")
  PROVE  IInv'
<1> DEFINE row == [kind |-> kind, user |-> user]
<1>1. /\ verified[c] = 0 /\ ceremonies' = With(ceremonies, c, row) /\ Done(r)
      /\ UNCHANGED <<tables, handle, verified, torn, served>>
  BY DEF Begin
<1>2. row \in [kind : Kinds, user : Ids \cup {Nobody}]
  OBVIOUS
<1>3. /\ Table(ceremonies', Ceremonies, [kind : Kinds, user : Ids \cup {Nobody}])
      /\ DOMAIN ceremonies' = DOMAIN ceremonies \cup {c}
  BY <1>1, <1>2 DEF IInv, TablesOK, TypeOK, With, Table
<1>4. TypeOK'
  BY <1>1, <1>3 DEF IInv, TablesOK, TypeOK, Table, tables, rows
<1>5. BuiltInAdminStays' /\ PersonsAreIds' /\ CeremoniesFresh'
  BY <1>1, <1>3 DEF IInv, TablesOK, BuiltInAdminStays, EnabledAdmins, PersonsAreIds,
                    CeremoniesFresh, tables, rows
<1>6. Steps(r)
  BY <1>1, DoneSteps DEF IInv
<1>7. AccountsHaveOther'
  BY <1>1, <1>6, OtherStays DEF IInv, Steps, tables, rows
<1> QED BY <1>4, <1>5, <1>6, <1>7 DEF IInv, TablesOK, Steps

LEMMA OptionsKeep ==
  ASSUME IInv, NEW r \in Requests, NEW c \in Ceremonies,
         \/ RegisterOptions(r, c)
         \/ DiscoverableOptions(r, c)
         \/ \E name \in Names : LoginOptions(r, c, name)
  PROVE  IInv'
<1>1. CASE RegisterOptions(r, c)
  <2>1. req[r].user \in Ids /\ ~At(r, "seed")
    BY <1>1 DEF RegisterOptions, At, IInv, LocalsOK, LocalOK, CallerOK, Public
  <2> QED BY <1>1, <2>1, BeginKeeps DEF RegisterOptions, Kinds
<1>2. CASE DiscoverableOptions(r, c)
  BY <1>2, BeginKeeps DEF DiscoverableOptions, At, Kinds
<1>3. CASE \E name \in Names : LoginOptions(r, c, name)
  <2>1. PICK u \in DOMAIN users : Begin(r, c, "login", u)
    BY <1>3 DEF LoginOptions, Named
  <2>2. u \in Ids /\ ~At(r, "seed")
    BY <1>3 DEF LoginOptions, At, IInv, TablesOK, TypeOK, Table
  <2> QED BY <2>1, <2>2, BeginKeeps DEF Kinds
<1> QED BY <1>1, <1>2, <1>3

\* A ceremony that expires, or that a request takes, is gone.
LEMMA CeremonyGone ==
  ASSUME TablesOK, NEW c \in DOMAIN ceremonies, ceremonies' = Without(ceremonies, {c}),
         verified' \in {verified, [verified EXCEPT ![c] = @ + 1]},
         handle' \in [Keys -> Ids \cup {Nobody}], UNCHANGED <<tables, torn, served>>
  PROVE  TablesOK'
<1>1. /\ Table(ceremonies', Ceremonies, [kind : Kinds, user : Ids \cup {Nobody}])
      /\ DOMAIN ceremonies' = DOMAIN ceremonies \ {c}
  BY DEF TablesOK, TypeOK, Without, Table
<1>2. TypeOK'
  BY <1>1 DEF TablesOK, TypeOK, Table, tables, rows
<1>3. BuiltInAdminStays' /\ PersonsAreIds'
  BY DEF TablesOK, BuiltInAdminStays, EnabledAdmins, PersonsAreIds, tables, rows
<1>4. CeremoniesFresh'
  <2>1. verified \in [Ceremonies -> 0..1] /\ c \in Ceremonies /\ verified[c] = 0
    BY DEF TablesOK, TypeOK, Table, CeremoniesFresh
  <2>2. /\ verified' \in [Ceremonies -> 0..1]
        /\ \A d \in Ceremonies \ {c} : verified'[d] = verified[d]
    BY <2>1
  <2> QED BY <1>1, <2>2 DEF TablesOK, TypeOK, Table, CeremoniesFresh
<1> QED BY <1>2, <1>3, <1>4 DEF TablesOK

LEMMA ExpireKeeps ==
  ASSUME IInv, NEW c \in DOMAIN ceremonies, Expire(c)
  PROVE  IInv'
<1>1. /\ ceremonies' = Without(ceremonies, {c})
      /\ UNCHANGED <<tables, handle, verified, req, torn, served>>
  BY DEF Expire
<1>2. TablesOK'
  BY <1>1, CeremonyGone DEF IInv, TablesOK, TypeOK
<1>3. LocalsOK' /\ AccountsHaveOther'
  BY <1>1 DEF IInv, LocalsOK, AccountsHaveOther, Seeding, At, tables, rows
<1> QED BY <1>2, <1>3 DEF IInv

LEMMA RegisterVerifyKeeps ==
  ASSUME IInv, NEW r \in Requests, NEW c \in DOMAIN ceremonies, NEW k \in Keys,
         RegisterVerify(r, c, k)
  PROVE  IInv'
<1>1. /\ At(r, "enrolled") /\ Take(c) /\ UNCHANGED <<tables, torn, served>>
      /\ handle' \in {handle, [handle EXCEPT ![k] = req[r].user]}
      /\ GoOn(r, "storeKey", <<k>>) \/ Done(r)
  BY DEF RegisterVerify
<1>2. req[r].user \in Ids /\ CallerOK("storeKey", req[r].user, req[r].person)
  BY <1>1 DEF At, IInv, LocalsOK, LocalOK, CallerOK, Public
<1>3. ArgOK("storeKey", <<k>>)
  BY DEF ArgOK
<1>4. handle' \in [Keys -> Ids \cup {Nobody}]
  BY <1>1, <1>2 DEF IInv, TablesOK, TypeOK
<1>5. TablesOK'
  BY <1>1, <1>4, CeremonyGone DEF IInv, Take
<1>6. Steps(r)
  BY <1>1, <1>2, <1>3, DoneSteps, GoOnSteps DEF At, IInv
<1>7. AccountsHaveOther'
  BY <1>1, <1>6, OtherStays DEF IInv, Steps, tables, rows
<1> QED BY <1>5, <1>6, <1>7 DEF IInv, Steps

\* The key's row names its user and its person alike.
LEMMA LoginVerifyKeeps ==
  ASSUME IInv, NEW r \in Requests, NEW c \in DOMAIN ceremonies, NEW k \in Keys,
         LoginVerify(r, c, k)
  PROVE  IInv'
<1> DEFINE user == IF ceremonies[c].kind = "login" THEN ceremonies[c].user ELSE handle[k]
<1>1. At(r, "assert") /\ Take(c) /\ UNCHANGED <<tables, handle, torn, served>>
  BY DEF LoginVerify
<1>2. \/ Done(r)
      \/ /\ k \in Of(passkeys, user)
         /\ req' = [req EXCEPT ![r] = Request("finish", user, passkeys[k].person, <<k>>)]
  BY DEF LoginVerify
<1> HIDE DEF user
<1>3. ASSUME k \in Of(passkeys, user)
      PROVE  /\ passkeys[k].person = user
             /\ CallerOK("finish", user, user) /\ ArgOK("finish", <<k>>)
  <2>1. passkeys[k].user = user /\ k \in DOMAIN passkeys
    BY <1>3 DEF Of
  <2>2. user \in Ids /\ passkeys[k].person = user
    BY <2>1 DEF IInv, TablesOK, TypeOK, Table, Owned, PersonsAreIds
  <2> QED BY <2>2 DEF CallerOK, ArgOK
<1>4. Steps(r)
  BY <1>1, <1>2, <1>3, DoneSteps, RequestSteps DEF At, IInv
<1>5. TablesOK'
  BY <1>1, CeremonyGone DEF IInv, TablesOK, TypeOK, Take
<1>6. AccountsHaveOther'
  BY <1>1, <1>4, OtherStays DEF IInv, Steps, tables, rows
<1> QED BY <1>4, <1>5, <1>6 DEF IInv, Steps

LEMMA StoreKeyKeeps ==
  ASSUME IInv, NEW r \in Requests, StoreKey(r)
  PROVE  IInv'
<1> DEFINE u == req[r].user  k == req[r].arg[1]
           row == [user |-> u, person |-> req[r].person]
<1>1. Steps(r)
  BY DoneSteps DEF StoreKey, At, IInv
<1>2. u \in Ids /\ req[r].person = u /\ k \in Keys
  BY DEF StoreKey, At, IInv, LocalsOK, LocalOK, CallerOK, ArgOK, Public
<1>3. UNCHANGED <<users, created, other, sessions, allow, keyed, torn, served>>
  BY DEF StoreKey
<1>4. /\ Table(passkeys', Keys, Owned)
      /\ \A i \in DOMAIN passkeys' :
           passkeys'[i].user \in DOMAIN users /\ passkeys'[i].person = passkeys'[i].user
  <2>1. CASE passkeys' = passkeys
    BY <2>1 DEF IInv, TablesOK, TypeOK, PersonsAreIds
  <2>2. CASE u \in DOMAIN users /\ passkeys' = With(passkeys, k, row)
    <3>1. row \in Owned /\ Table(passkeys, Keys, Owned)
      BY <1>2 DEF Owned, IInv, TablesOK, TypeOK
    <3>2. /\ Table(passkeys', Keys, Owned)
          /\ DOMAIN passkeys' = DOMAIN passkeys \cup {k} /\ passkeys'[k] = row
          /\ \A i \in DOMAIN passkeys : i # k => passkeys'[i] = passkeys[i]
      BY <1>2, <2>2, <3>1, WithTable, SMTT(30)
    <3> QED BY <1>2, <2>2, <3>2 DEF IInv, TablesOK, TypeOK, PersonsAreIds
  <2> QED BY <2>1, <2>2 DEF StoreKey
<1>5. TablesOK'
  BY <1>3, <1>4, RowsKeep DEF IInv, TablesOK, TypeOK, PersonsAreIds, keyed
<1>6. AccountsHaveOther'
  BY <1>1, <1>3, OtherStays DEF IInv, Steps
<1> QED BY <1>1, <1>5, <1>6 DEF IInv, Steps

LEMMA DeletePasskeyKeeps ==
  ASSUME IInv, NEW r \in Requests, NEW k, DeletePasskey(r, k)
  PROVE  IInv'
<1>1. /\ passkeys' = Without(passkeys, {k} \cap Of(passkeys, req[r].user))
      /\ UNCHANGED <<users, created, other, sessions, allow, keyed, torn, served>>
  BY DEF DeletePasskey
<1>2. TablesOK'
  BY <1>1, RowsKeep DEF IInv, TablesOK, TypeOK, PersonsAreIds, Without, Table, keyed
<1>3. Steps(r)
  BY DoneSteps DEF DeletePasskey, At, IInv
<1>4. AccountsHaveOther'
  BY <1>1, <1>3, OtherStays DEF IInv, Steps
<1> QED BY <1>2, <1>3, <1>4 DEF IInv, Steps

----------------------------------------------------------------------------
(* Failures and restarts.                                                  *)

\* Who was about to have his categories is torn when his request fails.
LEMMA FailKeeps ==
  ASSUME IInv, NEW r \in Requests, Fail(r)
  PROVE  IInv'
<1>1. torn' = torn \cup TornBy({r}) /\ Done(r) /\ UNCHANGED <<tables, keyed, served>>
  BY DEF Fail
<1>2. At(r, "seed") => req[r].person \in Ids
  BY DEF At, IInv, LocalsOK, LocalOK, CallerOK, Public
<1>3. torn' \subseteq Ids
  BY <1>1, <1>2 DEF TornBy, IInv, TablesOK, TypeOK
<1>4. TablesOK'
  BY <1>1, <1>3, ServedStays, TablesStay DEF IInv
<1>5. LocalsOK' /\ Moves(r, Idle)
  BY <1>1, DoneSteps DEF IInv
<1>6. \A u : Seeding(u) => Seeding(u)' \/ u \in torn'
  BY <1>1, <1>5 DEF Seeding, Moves, At, TornBy
<1>7. AccountsHaveOther'
  BY <1>1, <1>6, OtherStays DEF IInv, tables, rows
<1> QED BY <1>4, <1>5, <1>7 DEF IInv

LEMMA RestartKeeps ==
  ASSUME IInv, Restart
  PROVE  IInv'
<1>1. /\ torn' = torn \cup TornBy(Requests) /\ req' = [r \in Requests |-> Idle]
      /\ ceremonies' = <<>> /\ other' = other \cup Named(Admin)
      /\ UNCHANGED <<created, sessions, passkeys, allow, handle, verified, served>>
  BY DEF Restart
<1>2. /\ DOMAIN users' = DOMAIN users
      /\ \A u \in DOMAIN users :
           users'[u] = IF BuiltIn(u) THEN Row(users[u].person, Admin, TRUE, AdminPassword)
                       ELSE users[u]
  BY DEF Restart
<1>3. ASSUME NEW u \in DOMAIN users
      PROVE  users'[u] \in Rows /\ users'[u].person = u
  <2>1. users[u] \in Rows /\ users[u].person = u /\ u \in Ids
    BY UserRow DEF IInv, TablesOK, TypeOK, Table
  <2>2. Row(u, Admin, TRUE, AdminPassword) \in Rows /\ Row(u, Admin, TRUE, AdminPassword).person = u
    BY <2>1 DEF Row, Rows
  <2>3. users'[u] \in {users[u], Row(u, Admin, TRUE, AdminPassword)}
    BY <1>2, <2>1
  <2> QED BY <2>1, <2>2, <2>3
<1>4. Table(users', Ids, Rows)
  <2>1. users' \in [DOMAIN users' -> Rows]
    BY <1>2, <1>3 DEF Restart
  <2> QED BY <1>2, <2>1 DEF IInv, TablesOK, TypeOK, Table
<1>5. torn' \subseteq Ids
  BY <1>1 DEF TornBy, At, IInv, TablesOK, TypeOK, LocalsOK, LocalOK, CallerOK, Public
<1>6. TypeOK'
  BY <1>1, <1>2, <1>4, <1>5 DEF IInv, TablesOK, TypeOK, Table, Rows, Named
<1>7. BuiltInAdminStays'
  BY <1>2 DEF IInv, TablesOK, BuiltInAdminStays, EnabledAdmins, BuiltIn, Row
<1>8. PersonsAreIds' /\ CeremoniesFresh'
  BY <1>1, <1>2, <1>3 DEF IInv, TablesOK, PersonsAreIds, CeremoniesFresh
<1>9. LocalsOK'
  BY <1>1 DEF LocalsOK, LocalOK, CallerOK, ArgOK, Idle, Request, Public
<1>10. AccountsHaveOther'
  BY <1>1, <1>2 DEF IInv, AccountsHaveOther, Seeding, TornBy, At
<1> QED BY <1>6, <1>7, <1>8, <1>9, <1>10 DEF IInv, TablesOK

----------------------------------------------------------------------------
(* The invariant, and what it gives.                                       *)

LEMMA NextKeeps == IInv /\ [Next]_vars => IInv'
<1> SUFFICES ASSUME IInv, [Next]_vars PROVE IInv'
  OBVIOUS
<1>1. CASE UNCHANGED vars
  <2>1. UNCHANGED <<tables, keyed, req, torn, served>>
    BY <1>1 DEF vars
  <2>2. TablesOK'
    BY <2>1, TablesStay, ServedStays DEF IInv, TablesOK, TypeOK
  <2>3. LocalsOK' /\ AccountsHaveOther'
    BY <2>1 DEF IInv, LocalsOK, AccountsHaveOther, Seeding, At, tables, rows
  <2> QED BY <2>2, <2>3 DEF IInv
<1>2. CASE Restart \/ (\E s \in DOMAIN sessions : EndSession(s)) \/ (\E c \in DOMAIN ceremonies : Expire(c))
  BY <1>2, RestartKeeps, EndSessionKeeps, ExpireKeeps
<1>3. ASSUME NEW r \in Requests,
             \/ Fail(r)
             \/ \E at \in Public : BeginPublic(r, at)
             \/ \E s \in DOMAIN sessions, at \in Own \cup OfAdmins : Extract(r, s, at)
             \/ \E n \in Names, p \in Passwords : RegisterCheck(r, n, p) \/ LoginRead(r, n, p)
             \/ RegisterInsert(r) \/ RegisterSeed(r) \/ \E s \in Sessions : CreateSession(r, s)
      PROVE  IInv'
  BY <1>3, FailKeeps, BeginPublicKeeps, ExtractKeeps, RegisterCheckKeeps, LoginReadKeeps,
     RegisterInsertKeeps, RegisterSeedKeeps, CreateSessionKeeps
<1>4. ASSUME NEW r \in Requests,
             \/ Revoke(r) \/ DeleteMe(r)
             \/ \E n \in Names : RenameCheck(r, n)
             \/ RenameWrite(r)
             \/ \E p, q \in Passwords : PasswordCheck(r, p, q)
             \/ PasswordWrite(r)
      PROVE  IInv'
  BY <1>4, RevokeKeeps, DeleteMeKeeps, RenameCheckKeeps, RenameWriteKeeps, PasswordCheckKeeps,
     PasswordWriteKeeps
<1>5. ASSUME NEW r \in Requests,
             \/ \E u \in Ids, role \in Roles, state \in States : UpdateFetch(r, u, role, state)
             \/ \E u \in Ids : DeleteFetch(r, u)
             \/ Count(r) \/ UpdateRole(r) \/ UpdateState(r) \/ DeleteTarget(r) \/ PutSettings(r)
      PROVE  IInv'
  BY <1>5, UpdateFetchKeeps, DeleteFetchKeeps, CountKeeps, UpdateRoleKeeps, UpdateStateKeeps,
     DeleteTargetKeeps, PutSettingsKeeps
<1>6. ASSUME NEW r \in Requests,
             \/ \E c \in Ceremonies : RegisterOptions(r, c) \/ DiscoverableOptions(r, c)
             \/ \E c \in Ceremonies, n \in Names : LoginOptions(r, c, n)
             \/ \E c \in DOMAIN ceremonies, k \in Keys :
                  RegisterVerify(r, c, k) \/ LoginVerify(r, c, k)
             \/ StoreKey(r) \/ FinishLogin(r)
             \/ \E k \in Keys : DeletePasskey(r, k)
      PROVE  IInv'
  BY <1>6, OptionsKeep, RegisterVerifyKeeps, LoginVerifyKeeps, StoreKeyKeeps, FinishLoginKeeps,
     DeletePasskeyKeeps
<1> QED BY <1>1, <1>2, <1>3, <1>4, <1>5, <1>6 DEF Next

\* Every reachable state satisfies the inductive invariant.
THEOREM Inductive == Spec => []IInv
<1> QED BY InitIInv, NextKeeps, PTL DEF Spec

\* Every variable has its type, and no session, passkey or category refers to
\* an account that is gone.
THEOREM Typed == Spec => []TypeOK
<1>1. IInv => TypeOK
  BY DEF IInv, TablesOK
<1> QED BY <1>1, Inductive, PTL

\* Whatever admins and owners do at the same time (update_user, delete_user,
\* patch_me, delete_me), the built-in account stays an enabled administrator.
THEOREM AdminRemains == Spec => []BuiltInAdminStays
<1>1. IInv => BuiltInAdminStays
  BY DEF IInv, TablesOK
<1> QED BY <1>1, Inductive, PTL

\* No row that a request writes late lands on another person's account, also
\* not on one that was created after the request's own account was deleted.
THEOREM RowsFollow == Spec => []RowsFollowPerson
<1>1. IInv => RowsFollowPerson
  BY DEF IInv, TablesOK, TypeOK, PersonsAreIds, RowsFollowPerson
<1> QED BY <1>1, Inductive, PTL

\* However many requests present the same ceremony, one of them takes it.
THEOREM TakenOnce == Spec => []CeremonyOnce
<1>1. IInv => CeremonyOnce
  BY DEF IInv, TablesOK, CeremoniesFresh, CeremonyOnce
<1> QED BY <1>1, Inductive, PTL

\* Only a registration that stopped half-way leaves who signs in later
\* without the category Other (register, seed_default_categories).
THEOREM HasOther == Spec => []SignedInHasOther
<1>1. ASSUME IInv, NEW s \in DOMAIN sessions
      PROVE  \/ sessions[s].user \in other \/ sessions[s].person \in torn
             \/ \E r \in Requests : At(r, "seed") /\ req[r].person = sessions[s].person
  <2>1. sessions[s].user \in DOMAIN users /\ sessions[s].person = sessions[s].user
    BY <1>1 DEF IInv, TablesOK, TypeOK, PersonsAreIds
  <2>2. sessions[s].user \in other \cup torn \/ Seeding(sessions[s].user)
    BY <1>1, <2>1 DEF IInv, AccountsHaveOther
  <2> QED BY <2>1, <2>2 DEF Seeding
<1>2. IInv => SignedInHasOther
  BY <1>1 DEF SignedInHasOther
<1> QED BY <1>2, Inductive, PTL
=============================================================================
