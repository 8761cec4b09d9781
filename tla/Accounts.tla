------------------------------ MODULE Accounts ------------------------------
(***************************************************************************)
(* Accounts, sessions and passkeys (routes/auth.rs, me.rs, admin.rs,       *)
(* passkeys.rs, auth/).                                                    *)
(*                                                                         *)
(* A handler is a request: the extractor resolves the caller from a        *)
(* session, then every statement is a step of its own, so that what a      *)
(* request has read may be stale when it writes.  An input is chosen where *)
(* it is first used.  A statement may fail, which ends the request with    *)
(* what it wrote before.  A restart loses requests and ceremonies, and the *)
(* bootstrap runs before the next request is served.  Foreign keys are on: *)
(* deleting an account deletes its rows elsewhere, and no row is inserted  *)
(* for an account that is gone.  Left out: display names, timestamps,      *)
(* names and signature counters of passkeys.                               *)
(***************************************************************************)
EXTENDS Naturals

CONSTANTS
  Names,       \* usernames as normalized, "admin" among them
  Passwords,   \* valid passwords, ADMIN_PASSWORD among them
  Requests,    \* requests that may be served together
  Sessions,    \* session ids
  Keys,        \* passkeys of the authenticators
  Ceremonies,  \* ceremony ids
  MaxAccounts, \* bound: accounts ever created
  MaxRequests  \* bound: requests served

Admin == "admin"  \* ADMIN_USERNAME
AdminPassword == "env"

ASSUME AdminAssumption == Admin \in Names /\ AdminPassword \in Passwords
ASSUME BoundAssumption == MaxAccounts \in Nat \ {0} /\ MaxRequests \in Nat

VARIABLES
  users,       \* rows of users by id; `person' tells the accounts apart
  created,     \* accounts ever created, the sequence of the ids
  other,       \* accounts that have their category Other
  sessions,    \* rows of sessions by id
  passkeys,    \* rows of passkeys by credential id
  handle,      \* account whose user handle the authenticator of a key keeps
  ceremonies,  \* CeremonyStore
  allow,       \* allow_registration
  req,         \* locals of each request
  torn,        \* persons whose registration stopped before the seeding
  verified,    \* times that a request took each ceremony
  served       \* requests served

rows == <<other, sessions, passkeys>>
tables == <<users, created, rows, allow>>
keyed == <<handle, ceremonies, verified>>
vars == <<tables, keyed, req, torn, served>>

Ids == 1..MaxAccounts
Nobody == 0

Row(person, name, admin, password) ==
  [person |-> person, name |-> name, admin |-> admin, disabled |-> FALSE,
   password |-> password]

\* A request about to do `at' for account `user' of `person'.
Request(at, user, person, arg) ==
  [at |-> at, user |-> user, person |-> person, arg |-> arg]

Idle == Request("idle", Nobody, Nobody, <<>>)

With(f, x, y) == [z \in DOMAIN f \cup {x} |-> IF z = x THEN y ELSE f[z]]
Without(f, S) == [z \in DOMAIN f \ S |-> f[z]]
Of(table, u) == {x \in DOMAIN table : table[x].user = u}
Named(name) == {u \in DOMAIN users : users[u].name = name}
EnabledAdmins == {u \in DOMAIN users : users[u].admin /\ ~users[u].disabled}

At(r, at) == req[r].at = at
Done(r) == req' = [req EXCEPT ![r] = Idle]
GoOn(r, at, arg) == req' = [req EXCEPT ![r].at = at, ![r].arg = arg]

\* Fault: a plain INTEGER PRIMARY KEY is one more than the largest id in use.
ReusedId == 1 + CHOOSE u \in DOMAIN users : \A v \in DOMAIN users : v <= u

\* AUTOINCREMENT: an id is never given twice.
NewId == created + 1

\* An UPDATE of one row, which changes nothing when the row is gone.
SetUser(u, row) ==
  /\ users' = IF u \in DOMAIN users THEN [users EXCEPT ![u] = row] ELSE users
  /\ UNCHANGED <<created, rows, allow>>

\* Fault: foreign keys are off, and nothing cascades.
DeleteRow(u) == users' = Without(users, {u}) /\ UNCHANGED <<created, rows, allow>>

\* DELETE FROM users, with the cascade.
DeleteUser(u) ==
  /\ users' = Without(users, {u})
  /\ other' = other \ {u}
  /\ sessions' = Without(sessions, Of(sessions, u))
  /\ passkeys' = Without(passkeys, Of(passkeys, u))
  /\ UNCHANGED <<created, allow>>

----------------------------------------------------------------------------
(* The extractors CurrentUser and AdminUser, and the public handlers.      *)

Public == {"register", "login", "keyOptions", "discover", "assert"}
OwnNotAdmin == {"rename", "leave"}  \* refused when user.username is the admin's
Own == {"rename", "leave", "password", "revoke", "enroll", "enrolled", "remove"}
OfAdmins == {"update", "delete", "setting"}

Serve(r) == At(r, "idle") /\ served < MaxRequests /\ served' = served + 1

BeginPublic(r, at) ==
  /\ Serve(r)
  /\ req' = [req EXCEPT ![r] = Request(at, Nobody, Nobody, <<>>)]
  /\ UNCHANGED <<tables, keyed, torn>>

Extract(r, s, at) ==
  LET u == sessions[s].user IN
  /\ Serve(r)
  /\ ~users[u].disabled
  /\ at \in OfAdmins => users[u].admin
  /\ at \in OwnNotAdmin => users[u].name # Admin
  /\ req' = [req EXCEPT ![r] = Request(at, u, users[u].person, <<>>)]
  /\ UNCHANGED <<tables, keyed, torn>>

----------------------------------------------------------------------------
(* Registration, login and logout (routes/auth.rs).                        *)

RegisterCheck(r, name, password) ==
  /\ At(r, "register")
  /\ IF allow /\ Named(name) = {} THEN GoOn(r, "insert", <<name, password>>) ELSE Done(r)
  /\ UNCHANGED <<tables, keyed, torn, served>>

\* UNIQUE(username), whatever the earlier check said.
NameFree(name) == Named(name) = {}

RegisterInsert(r) ==
  /\ At(r, "insert")
  /\ IF NameFree(req[r].arg[1])
     THEN /\ created < MaxAccounts
          /\ created' = created + 1
          /\ users' = With(users, NewId, Row(created + 1, req[r].arg[1], FALSE, req[r].arg[2]))
          /\ req' = [req EXCEPT ![r] = Request("seed", NewId, created + 1, <<>>)]
     ELSE UNCHANGED <<users, created>> /\ Done(r)
  /\ UNCHANGED <<rows, allow, keyed, torn, served>>

\* Fault: the session is created before the categories.
SeedAfterSession(r) ==
  /\ At(r, "seed")
  /\ GoOn(r, "session", <<>>)
  /\ UNCHANGED <<tables, keyed, torn, served>>

\* seed_default_categories
RegisterSeed(r) ==
  /\ At(r, "seed")
  /\ IF req[r].user \in DOMAIN users
     THEN other' = other \cup {req[r].user} /\ GoOn(r, "session", <<>>)
     ELSE other' = other /\ Done(r)
  /\ UNCHANGED <<users, created, sessions, passkeys, allow, keyed, torn, served>>

LoginRead(r, name, password) ==
  LET found == {u \in Named(name) : users[u].password = password /\ ~users[u].disabled} IN
  /\ At(r, "login")
  /\ IF found = {} THEN Done(r)
     ELSE \E u \in found : req' = [req EXCEPT ![r] = Request("session", u, users[u].person, <<>>)]
  /\ UNCHANGED <<tables, keyed, torn, served>>

\* session::create, the last statement of every way to sign in.
CreateSession(r, s) ==
  /\ At(r, "session") /\ s \notin DOMAIN sessions
  /\ sessions' = IF req[r].user \in DOMAIN users
                 THEN With(sessions, s, [user |-> req[r].user, person |-> req[r].person])
                 ELSE sessions
  /\ Done(r)
  /\ UNCHANGED <<users, created, other, passkeys, allow, keyed, torn, served>>

\* logout, or the session expires: no statement reads it afterwards.
EndSession(s) ==
  /\ sessions' = Without(sessions, {s})
  /\ UNCHANGED <<users, created, other, passkeys, allow, keyed, req, torn, served>>

\* delete_all_for_user: logout_all, and the first statement of delete_me.
Revoke(r) ==
  /\ \/ At(r, "revoke") /\ Done(r)
     \/ At(r, "leave") /\ GoOn(r, "deleteMe", <<>>)
  /\ sessions' = Without(sessions, Of(sessions, req[r].user))
  /\ UNCHANGED <<users, created, other, passkeys, allow, keyed, torn, served>>

----------------------------------------------------------------------------
(* The own account (routes/me.rs).                                         *)

DeleteMe(r) ==
  /\ At(r, "deleteMe")
  /\ DeleteUser(req[r].user)
  /\ Done(r)
  /\ UNCHANGED <<keyed, torn, served>>

RenameCheck(r, name) ==
  /\ At(r, "rename")
  /\ IF name = Admin \/ Named(name) \ {req[r].user} # {}
     THEN Done(r) ELSE GoOn(r, "renameWrite", <<name>>)
  /\ UNCHANGED <<tables, keyed, torn, served>>

\* patch_me goes on to the password when the request has one.
RenameWrite(r) ==
  LET u == req[r].user  name == req[r].arg[1] IN
  /\ At(r, "renameWrite")
  /\ IF u \in DOMAIN users /\ NameFree(name)
     THEN SetUser(u, [users[u] EXCEPT !.name = name])
     ELSE UNCHANGED tables
  /\ Done(r) \/ (Named(name) \subseteq {u} /\ GoOn(r, "password", <<>>))
  /\ UNCHANGED <<keyed, torn, served>>

\* change_password_for, whose current password may be wrong.
PasswordCheck(r, password, new) ==
  LET u == req[r].user IN
  /\ At(r, "password")
  /\ IF u \in DOMAIN users /\ users[u].password = password
     THEN GoOn(r, "passwordWrite", <<new>>) ELSE Done(r)
  /\ UNCHANGED <<tables, keyed, torn, served>>

PasswordWrite(r) ==
  LET u == req[r].user IN
  /\ At(r, "passwordWrite")
  /\ IF u \in DOMAIN users
     THEN SetUser(u, [users[u] EXCEPT !.password = req[r].arg[1]]) ELSE UNCHANGED tables
  /\ Done(r)
  /\ UNCHANGED <<keyed, torn, served>>

----------------------------------------------------------------------------
(* Administration (routes/admin.rs).                                       *)

Roles == {"admin", "user", "same"}
States == {"disabled", "enabled", "same"}

\* Fault: the built-in account is not told apart.
NoBuiltIn(u) == FALSE

\* fetch_target and the guard of the built-in account.
BuiltIn(u) == users[u].name = Admin

UpdateFetch(r, u, role, state) ==
  LET demoting == role = "user" /\ users[u].admin
      disabling == state = "disabled" /\ users[u].admin /\ ~users[u].disabled
  IN  /\ At(r, "update")
      /\ IF u \notin DOMAIN users \/ (BuiltIn(u) /\ (role = "user" \/ state = "disabled"))
         THEN Done(r)
         ELSE GoOn(r, IF demoting \/ disabling THEN "updateCount" ELSE "role",
                   <<u, role, state>>)
      /\ UNCHANGED <<tables, keyed, torn, served>>

DeleteFetch(r, u) ==
  /\ At(r, "delete")
  /\ IF u \notin DOMAIN users \/ BuiltIn(u) THEN Done(r)
     ELSE GoOn(r, IF u \in EnabledAdmins THEN "deleteCount" ELSE "deleteUser", <<u>>)
  /\ UNCHANGED <<tables, keyed, torn, served>>

\* enabled_admin_count
Count(r) ==
  LET go == EnabledAdmins # {} /\ \A u \in EnabledAdmins : EnabledAdmins # {u} IN
  /\ \/ At(r, "updateCount") /\ (IF go THEN GoOn(r, "role", req[r].arg) ELSE Done(r))
     \/ At(r, "deleteCount") /\ (IF go THEN GoOn(r, "deleteUser", req[r].arg) ELSE Done(r))
  /\ UNCHANGED <<tables, keyed, torn, served>>

UpdateRole(r) ==
  LET u == req[r].arg[1]  role == req[r].arg[2] IN
  /\ At(r, "role")
  /\ IF role # "same" /\ u \in DOMAIN users
     THEN SetUser(u, [users[u] EXCEPT !.admin = role = "admin"]) ELSE UNCHANGED tables
  /\ GoOn(r, "state", req[r].arg)
  /\ UNCHANGED <<keyed, torn, served>>

UpdateState(r) ==
  LET u == req[r].arg[1]  state == req[r].arg[3] IN
  /\ At(r, "state")
  /\ IF state # "same" /\ u \in DOMAIN users
     THEN SetUser(u, [users[u] EXCEPT !.disabled = state = "disabled"])
     ELSE UNCHANGED tables
  /\ Done(r)
  /\ UNCHANGED <<keyed, torn, served>>

DeleteTarget(r) ==
  /\ At(r, "deleteUser")
  /\ DeleteUser(req[r].arg[1])
  /\ Done(r)
  /\ UNCHANGED <<keyed, torn, served>>

PutSettings(r) ==
  /\ At(r, "setting")
  /\ allow' \in BOOLEAN
  /\ Done(r)
  /\ UNCHANGED <<users, created, rows, keyed, torn, served>>

----------------------------------------------------------------------------
(* Passkeys (routes/passkeys.rs, auth/passkey.rs).                         *)

\* CeremonyStore::insert, with a fresh id; a pending ceremony may expire.
Begin(r, c, kind, user) ==
  /\ c \notin DOMAIN ceremonies /\ verified[c] = 0
  /\ ceremonies' = With(ceremonies, c, [kind |-> kind, user |-> user])
  /\ Done(r)
  /\ UNCHANGED <<tables, handle, verified, torn, served>>

RegisterOptions(r, c) ==
  At(r, "enroll") /\ Begin(r, c, "register", req[r].user)

LoginOptions(r, c, name) ==
  /\ At(r, "keyOptions")
  /\ \E u \in Named(name) :
       ~users[u].disabled /\ Of(passkeys, u) # {} /\ Begin(r, c, "login", u)

DiscoverableOptions(r, c) ==
  At(r, "discover") /\ Begin(r, c, "discoverable", Nobody)

Expire(c) ==
  /\ ceremonies' = Without(ceremonies, {c})
  /\ UNCHANGED <<tables, handle, verified, req, torn, served>>

\* Fault: the ceremony stays until it expires.
Peek(c) ==
  /\ UNCHANGED ceremonies
  /\ verified' = [verified EXCEPT ![c] = @ + 1]

\* CeremonyStore::take: the ceremony is gone, whatever comes of it.
Take(c) ==
  /\ ceremonies' = Without(ceremonies, {c})
  /\ verified' = [verified EXCEPT ![c] = @ + 1]

\* A new key keeps the user handle that the options named.
RegisterVerify(r, c, k) ==
  LET ok == ceremonies[c].kind = "register" /\ ceremonies[c].user = req[r].user IN
  /\ At(r, "enrolled")
  /\ Take(c)
  /\ handle' = IF ok /\ handle[k] = Nobody THEN [handle EXCEPT ![k] = req[r].user] ELSE handle
  /\ IF ok /\ handle'[k] = req[r].user /\ k \notin DOMAIN passkeys
     THEN GoOn(r, "storeKey", <<k>>) ELSE Done(r)
  /\ UNCHANGED <<tables, torn, served>>

StoreKey(r) ==
  LET k == req[r].arg[1] IN
  /\ At(r, "storeKey")
  /\ passkeys' = IF req[r].user \in DOMAIN users /\ k \notin DOMAIN passkeys
                 THEN With(passkeys, k, [user |-> req[r].user, person |-> req[r].person])
                 ELSE passkeys
  /\ Done(r)
  /\ UNCHANGED <<users, created, other, sessions, allow, keyed, torn, served>>

\* login_verify, and discoverable_login_verify where the key names its user.
LoginVerify(r, c, k) ==
  LET user == IF ceremonies[c].kind = "login" THEN ceremonies[c].user ELSE handle[k]
      ok == ceremonies[c].kind # "register" /\ k \in Of(passkeys, user)
  IN  /\ At(r, "assert")
      /\ Take(c)
      /\ IF ok THEN req' = [req EXCEPT ![r] =
                              Request("finish", user, passkeys[k].person, <<k>>)]
         ELSE Done(r)
      /\ UNCHANGED <<tables, handle, torn, served>>

\* finish_login: the key is read again, then the account.
FinishLogin(r) ==
  /\ At(r, "finish")
  /\ IF req[r].arg[1] \in Of(passkeys, req[r].user) THEN GoOn(r, "session", <<>>) ELSE Done(r)
  /\ UNCHANGED <<tables, keyed, torn, served>>

\* The owner has a password, so that a last key may go as well.
DeletePasskey(r, k) ==
  /\ At(r, "remove")
  /\ passkeys' = Without(passkeys, {k} \cap Of(passkeys, req[r].user))
  /\ Done(r)
  /\ UNCHANGED <<users, created, other, sessions, allow, keyed, torn, served>>

----------------------------------------------------------------------------
(* Failures, restarts, and the specification.                              *)

TornBy(R) == {req[r].person : r \in {q \in R : At(q, "seed")}}

Fail(r) ==
  /\ ~At(r, "idle")
  /\ torn' = torn \cup TornBy({r})
  /\ Done(r)
  /\ UNCHANGED <<tables, keyed, served>>

\* bootstrap::run: ensure_admin on the row that every database has.
Restart ==
  /\ torn' = torn \cup TornBy(Requests)
  /\ req' = [r \in Requests |-> Idle]
  /\ ceremonies' = <<>>
  /\ users' = [u \in DOMAIN users |->
                 IF BuiltIn(u) THEN Row(users[u].person, Admin, TRUE, AdminPassword)
                 ELSE users[u]]
  /\ other' = other \cup Named(Admin)
  /\ UNCHANGED <<created, sessions, passkeys, allow, handle, verified, served>>

\* The first boot has created the built-in account, whose owner may have
\* enrolled keys since.
Init ==
  /\ users = [u \in {1} |-> Row(1, Admin, TRUE, AdminPassword)]
  /\ created = 1 /\ other = {1}
  /\ sessions = <<>> /\ ceremonies = <<>>
  /\ handle \in [Keys -> {Nobody, 1}]
  /\ passkeys = [k \in {i \in Keys : handle[i] = 1} |-> [user |-> 1, person |-> 1]]
  /\ verified = [c \in Ceremonies |-> 0]
  /\ allow = TRUE
  /\ req = [r \in Requests |-> Idle]
  /\ torn = {} /\ served = 0

Next ==
  \/ Restart
  \/ \E s \in DOMAIN sessions : EndSession(s)
  \/ \E c \in DOMAIN ceremonies : Expire(c)
  \/ \E r \in Requests :
       \/ Fail(r)
       \/ \E at \in Public : BeginPublic(r, at)
       \/ \E s \in DOMAIN sessions, at \in Own \cup OfAdmins : Extract(r, s, at)
       \/ \E n \in Names, p \in Passwords : RegisterCheck(r, n, p) \/ LoginRead(r, n, p)
       \/ RegisterInsert(r) \/ RegisterSeed(r) \/ \E s \in Sessions : CreateSession(r, s)
       \/ Revoke(r) \/ DeleteMe(r)
       \/ \E n \in Names : RenameCheck(r, n)
       \/ RenameWrite(r)
       \/ \E p, q \in Passwords : PasswordCheck(r, p, q)
       \/ PasswordWrite(r)
       \/ \E u \in Ids, role \in Roles, state \in States : UpdateFetch(r, u, role, state)
       \/ \E u \in Ids : DeleteFetch(r, u)
       \/ Count(r) \/ UpdateRole(r) \/ UpdateState(r) \/ DeleteTarget(r) \/ PutSettings(r)
       \/ \E c \in Ceremonies : RegisterOptions(r, c) \/ DiscoverableOptions(r, c)
       \/ \E c \in Ceremonies, n \in Names : LoginOptions(r, c, n)
       \/ \E c \in DOMAIN ceremonies, k \in Keys :
            RegisterVerify(r, c, k) \/ LoginVerify(r, c, k)
       \/ StoreKey(r) \/ FinishLogin(r)
       \/ \E k \in Keys : DeletePasskey(r, k)

Spec == Init /\ [][Next]_vars

----------------------------------------------------------------------------
(* Properties.                                                             *)

Owned == [user : Ids, person : Ids]
Kinds == {"register", "login", "discoverable"}

\* A table: rows in R for some of the keys in K.
Table(f, K, R) == DOMAIN f \subseteq K /\ f \in [DOMAIN f -> R]

\* Every variable has its type, and the foreign keys hold.
TypeOK ==
  /\ Table(users, Ids, [person : Ids, name : Names, admin : BOOLEAN,
                        disabled : BOOLEAN, password : Passwords])
  /\ created \in Ids
  /\ other \subseteq DOMAIN users
  /\ Table(sessions, Sessions, Owned) /\ Table(passkeys, Keys, Owned)
  /\ \A s \in DOMAIN sessions : sessions[s].user \in DOMAIN users
  /\ \A k \in DOMAIN passkeys : passkeys[k].user \in DOMAIN users
  /\ handle \in [Keys -> Ids \cup {Nobody}]
  /\ Table(ceremonies, Ceremonies, [kind : Kinds, user : Ids \cup {Nobody}])
  /\ allow \in BOOLEAN
  /\ torn \subseteq Ids
  /\ served \in 0..MaxRequests

\* However admins change, disable and delete accounts at the same time, and
\* whatever their owners rename, the built-in account keeps its name, its role
\* and its being enabled, so that an administrator always remains.
BuiltInAdminStays ==
  1 \in DOMAIN users /\ users[1].name = Admin /\ 1 \in EnabledAdmins

\* A session and a passkey belong to the person who signed in or enrolled it,
\* also when the account was deleted and others were created before the last
\* statement of that request.
RowsFollowPerson ==
  /\ \A s \in DOMAIN sessions : sessions[s].person = users[sessions[s].user].person
  /\ \A k \in DOMAIN passkeys : passkeys[k].person = users[passkeys[k].user].person

\* One ceremony answers one request, of all that present it together.
CeremonyOnce == \A c \in Ceremonies : verified[c] <= 1

\* Who is signed in has the category Other, unless the registration stopped
\* between its INSERT and the seeding.
SignedInHasOther ==
  \A s \in DOMAIN sessions :
    sessions[s].user \in other \/ sessions[s].person \in torn
      \/ \E r \in Requests : At(r, "seed") /\ req[r].person = sessions[s].person
=============================================================================
