------------------------------ MODULE Accounts ------------------------------
(***************************************************************************)
(* Local accounts, their sessions and single sign-on. Every request reads, *)
(* decides and writes in statements of their own, so two requests of two   *)
(* browsers fall into each other's gaps.                                   *)
(***************************************************************************)
EXTENDS Integers, FiniteSets

CONSTANTS
  Browsers,
  Emails,
  Identities,     \* (issuer, subject) at the one provider
  ClaimedEmail,   \* the verified address the provider sends with each
  MaxId,          \* bound: row ids of users
  MaxPassword,    \* bound: passwords ever set
  MaxAsked        \* bound: requests

ASSUME AccountsAssumption ==
  /\ {MaxId, MaxPassword} \subseteq Nat \ {0, 1} /\ MaxAsked \in Nat
  /\ ClaimedEmail \in [Identities -> Emails]

Ids == 1 .. MaxId
Roles == {"admin", "member"}
AdminKinds == {"role", "remove", "create", "assign", "email"}
OwnKinds == {"password", "link", "unlink", "logout"}
OpenKinds == {"setup", "login", "oidc"}

VARIABLES
  users,      \* the users table
  links,      \* oidc_links: the account of each identity, and how it was linked
  owner,      \* devices.owner_id of one device
  setupToken, \* whether the setup token file exists
  cookie,     \* the session in each browser
  request,    \* the request each browser waits for
  lastSet,    \* history: the password given last under each id
  odd,        \* history: what has happened that the checks do not cover
  asked

tables == <<users, links, owner, setupToken>>
vars == <<tables, cookie, request, lastSet, odd, asked>>

NoUser == [role |-> "none", sv |-> 0, password |-> 0, email |-> "none", outdated |-> FALSE]
NoLink == [id |-> 0, how |-> "none"]
NoSession == [uid |-> 0, sv |-> 0, knows |-> 0]
NoRequest == [kind |-> "none", pc |-> "none", uid |-> 0, sv |-> 0, target |-> 0, what |-> "none",
              knows |-> 0, admins |-> {}, owner |-> 0]

Exists(id) == id \in Ids /\ users[id] # NoUser
Accounts == {id \in Ids : Exists(id)}
Admins == {id \in Accounts : users[id].role = "admin"}
WithEmail(email) == {id \in Accounts : users[id].email = email}
LinkedTo(id) == {i \in Identities : links[i].id = id}

(* INTEGER PRIMARY KEY without AUTOINCREMENT: one more than the largest.   *)
NextId == 1 + Cardinality({n \in Ids : \E id \in Accounts : n <= id})
NextPassword == 1 + Cardinality({n \in 1 .. MaxPassword : \E id \in Ids : n <= lastSet[id]})

(* session_user: the row is there and its version is the session's.        *)
SessionUser(session) == Exists(session.uid) /\ users[session.uid].sv = session.sv

Ends(b) == request' = [request EXCEPT ![b] = NoRequest]
Moves(b, pc) == request' = [request EXCEPT ![b].pc = pc]
Signs(b, uid, sv, knows) == cookie' = [cookie EXCEPT ![b] = [uid |-> uid, sv |-> sv, knows |-> knows]]

-----------------------------------------------------------------------------
(* A request arrives; whose it is, is decided once.                        *)
Arrive(b, kind) ==
  LET s == cookie[b] IN
  /\ request[b] = NoRequest /\ asked < MaxAsked /\ asked' = asked + 1
  /\ \/ kind \in AdminKinds /\ SessionUser(s) /\ s.uid \in Admins
     \/ kind \in OwnKinds /\ SessionUser(s)
     \/ kind \in OpenKinds
  /\ request' = [request EXCEPT ![b] = [NoRequest EXCEPT !.kind = kind, !.pc = "begin",
                   !.uid = IF kind \in OpenKinds THEN 0 ELSE s.uid]]
  /\ UNCHANGED <<tables, cookie, lastSet, odd>>

At(b, kind, pc) == request[b].kind = kind /\ request[b].pc = pc

(* Broken: one admin too few is refused.                                   *)
NoAdminYet(id) == id \in Admins /\ Cardinality(Admins) < 1

LastAdmin(id) == id \in Admins /\ Cardinality(Admins) <= 1

(* users_change_role: the checks ...                                       *)
CheckRole(b) ==
  /\ At(b, "role", "begin")
  /\ \E id \in Accounts, role \in Roles :
       IF role = "member" /\ LastAdmin(id) THEN Ends(b)
       ELSE request' = [request EXCEPT ![b].pc = "write", ![b].target = id, ![b].what = role,
                                        ![b].admins = Admins]
  /\ UNCHANGED <<tables, cookie, lastSet, odd, asked>>

Overlapped(b) == IF request[b].admins = Admins THEN {} ELSE {"overlapping admins"}

(* ... and set_role, which ends every session of the account.              *)
SetRole(b) ==
  LET id == request[b].target IN
  /\ At(b, "role", "write")
  /\ users' = IF Exists(id)
              THEN [users EXCEPT ![id].role = request[b].what, ![id].sv = @ + 1] ELSE users
  /\ odd' = odd \cup Overlapped(b)
  /\ Ends(b)
  /\ UNCHANGED <<links, owner, setupToken, cookie, lastSet, asked>>

(* Broken: looks at the devices of whoever asks.                           *)
RemovableByAsker(b, id) ==
  ~LastAdmin(id) /\ id # request[b].uid /\ owner # request[b].uid

Removable(b, id) == ~LastAdmin(id) /\ id # request[b].uid /\ owner # id

(* users_remove: the checks ...                                            *)
CheckRemove(b) ==
  /\ At(b, "remove", "begin")
  /\ \E id \in Accounts :
       IF Removable(b, id)
       THEN request' = [request EXCEPT ![b].pc = "write", ![b].target = id,
                                           ![b].admins = Admins, ![b].owner = owner]
       ELSE Ends(b)
  /\ UNCHANGED <<tables, cookie, lastSet, odd, asked>>

(* Broken: the links of the account stay behind.                           *)
RemoveUserOnly(b) ==
  /\ At(b, "remove", "write")
  /\ users' = [users EXCEPT ![request[b].target] = NoUser]
  /\ Ends(b)
  /\ UNCHANGED <<links, owner, setupToken, cookie, lastSet, odd, asked>>

(* ... and remove_user: links cascade, devices lose their owner.           *)
RemoveUser(b) ==
  LET id == request[b].target IN
  /\ At(b, "remove", "write")
  /\ users' = [users EXCEPT ![id] = NoUser]
  /\ links' = [i \in Identities |-> IF links[i].id = id THEN NoLink ELSE links[i]]
  /\ owner' = IF owner = id THEN 0 ELSE owner
  /\ odd' = odd \cup Overlapped(b)
                \cup (IF owner = request[b].owner THEN {} ELSE {"assigned meanwhile"})
  /\ Ends(b)
  /\ UNCHANGED <<setupToken, cookie, lastSet, asked>>

(* A new row under the next id; the password of an SSO account is none.    *)
Inserted(role, email, password, what) ==
  /\ NextId <= MaxId
  /\ users' = [users EXCEPT ![NextId] = [role |-> role, sv |-> 1, password |-> password,
                                         email |-> email, outdated |-> FALSE]]
  /\ lastSet' = [lastSet EXCEPT ![NextId] = password]
  /\ odd' = odd \cup what \cup (IF lastSet[NextId] # 0 THEN {"id given again"} ELSE {})

(* users_create: one statement; a taken address refuses it.                *)
CreateUser(b) ==
  /\ At(b, "create", "begin")
  /\ \/ \E role \in Roles, email \in Emails :
          /\ WithEmail(email) = {} /\ NextPassword <= MaxPassword
          /\ Inserted(role, email, NextPassword, {})
     \/ UNCHANGED <<users, lastSet, odd>>
  /\ Ends(b)
  /\ UNCHANGED <<links, owner, setupToken, cookie, asked>>

(* users_set_email.                                                        *)
SetEmail(b) ==
  /\ At(b, "email", "begin")
  /\ \E id \in Accounts, email \in Emails :
       users' = IF WithEmail(email) \subseteq {id} THEN [users EXCEPT ![id].email = email] ELSE users
  /\ Ends(b)
  /\ UNCHANGED <<links, owner, setupToken, cookie, lastSet, odd, asked>>

(* device_settings_owner: the account is looked up ...                     *)
CheckOwner(b) ==
  /\ At(b, "assign", "begin")
  /\ \E id \in {0} \cup Accounts : request' = [request EXCEPT ![b].pc = "write", ![b].target = id]
  /\ UNCHANGED <<tables, cookie, lastSet, odd, asked>>

(* ... and written; the foreign key refuses one that has gone.             *)
AssignOwner(b) ==
  /\ At(b, "assign", "write")
  /\ owner' = IF request[b].target \in {0} \cup Accounts THEN request[b].target ELSE owner
  /\ Ends(b)
  /\ UNCHANGED <<users, links, setupToken, cookie, lastSet, odd, asked>>

-----------------------------------------------------------------------------
(* First run and sign-in with a password.                                  *)

CheckSetup(b) ==
  /\ At(b, "setup", "begin")
  /\ IF Accounts = {} /\ setupToken THEN Moves(b, "write") ELSE Ends(b)
  /\ UNCHANGED <<tables, cookie, lastSet, odd, asked>>

(* setup_submit: the first admin; a taken name or address refuses it.      *)
SetupSubmit(b) ==
  /\ At(b, "setup", "write") /\ NextPassword <= MaxPassword
  /\ \E email \in Emails :
       IF WithEmail(email) # {} THEN UNCHANGED <<users, lastSet, odd, setupToken, cookie>>
       ELSE /\ Inserted("admin", email, NextPassword, {})
            /\ setupToken' = FALSE
            /\ Signs(b, NextId, 1, NextPassword)
  /\ Ends(b)
  /\ UNCHANGED <<links, owner, asked>>

(* authenticate, of a sign-in or before a change of the password: the row  *)
(* is read and the password verified against it.                           *)
Authenticate(b) ==
  /\ At(b, "login", "begin") \/ At(b, "password", "begin")
  /\ \/ \E id \in Accounts :
          /\ request[b].kind = "password" => id = request[b].uid
          /\ users[id].password # 0
          /\ request' = [request EXCEPT ![b].pc = IF users[id].outdated THEN "rehash" ELSE "verified",
               ![b].uid = id, ![b].sv = users[id].sv, ![b].knows = users[id].password]
     \/ Ends(b)                                        \* the wrong password
  /\ UNCHANGED <<tables, cookie, lastSet, odd, asked>>

(* check_needs_rehash: the password that was typed is stored anew.         *)
Rehash(b) ==
  LET id == request[b].uid IN
  /\ request[b].pc = "rehash"
  /\ users' = IF Exists(id)
              THEN [users EXCEPT ![id].password = request[b].knows, ![id].outdated = FALSE] ELSE users
  /\ odd' = odd \cup (IF Exists(id) /\ users[id].password # request[b].knows THEN {"late rehash"} ELSE {})
  /\ Moves(b, "verified")
  /\ UNCHANGED <<links, owner, setupToken, cookie, lastSet, asked>>

(* Broken: the session takes the version the row has by now.               *)
StartSessionNow(b) ==
  /\ At(b, "login", "verified") \/ At(b, "oidc", "signed")
  /\ Signs(b, request[b].uid, IF Exists(request[b].uid) THEN users[request[b].uid].sv ELSE 0, request[b].knows)
  /\ Ends(b)
  /\ UNCHANGED <<tables, lastSet, odd, asked>>

(* start_session with the row as it was read.                              *)
StartSession(b) ==
  /\ At(b, "login", "verified") \/ At(b, "oidc", "signed")
  /\ Signs(b, request[b].uid, request[b].sv, request[b].knows)
  /\ Ends(b)
  /\ UNCHANGED <<tables, lastSet, odd, asked>>

Logout(b) ==
  /\ At(b, "logout", "begin")
  /\ cookie' = [cookie EXCEPT ![b] = NoSession]
  /\ Ends(b)
  /\ UNCHANGED <<tables, lastSet, odd, asked>>

(* account_password_change: a new password ends every session ...          *)
ChangePassword(b) ==
  LET id == request[b].uid  new == NextPassword IN
  /\ At(b, "password", "verified") /\ new <= MaxPassword
  /\ IF Exists(id)
     THEN /\ users' = [users EXCEPT ![id].password = new, ![id].sv = @ + 1, ![id].outdated = FALSE]
          /\ lastSet' = [lastSet EXCEPT ![id] = new]
          /\ request' = [request EXCEPT ![b].pc = "restart", ![b].knows = new]
     ELSE Ends(b) /\ UNCHANGED <<users, lastSet>>
  /\ UNCHANGED <<links, owner, setupToken, cookie, odd, asked>>

(* ... but this one, which starts again with the version of now.           *)
RestartSession(b) ==
  LET id == request[b].uid IN
  /\ At(b, "password", "restart")
  /\ IF Exists(id)
     THEN /\ Signs(b, id, users[id].sv, request[b].knows)
          /\ odd' = odd \cup (IF users[id].password = request[b].knows THEN {} ELSE {"late restart"})
     ELSE UNCHANGED <<cookie, odd>>
  /\ Ends(b)
  /\ UNCHANGED <<tables, lastSet, asked>>

-----------------------------------------------------------------------------
(* Single sign-on: an identity signs in as the account it is linked to;    *)
(* without a link, as the one with its address, to which it is then bound; *)
(* without such an account, as a new member. The callback is a coroutine:  *)
(* from one await to the next, no other callback runs; the other routes    *)
(* run in threads.                                                         *)

LoopFree == \A b \in Browsers : request[b].pc \notin {"email", "register", "link", "signed"}

Linked(i) == [uid |-> links[i].id, sv |-> IF links[i].id = 0 THEN 0 ELSE users[links[i].id].sv]

(* Back from the provider: the account the identity is linked to.          *)
FindLinkedUser(b) ==
  /\ At(b, "oidc", "begin")
  /\ \E i \in Identities :
       request' = [request EXCEPT ![b].what = i, ![b].pc = "group", ![b].uid = Linked(i).uid,
                                  ![b].sv = Linked(i).sv]
  /\ UNCHANGED <<tables, cookie, lastSet, odd, asked>>

(* remote_userinfo is awaited; then the required group may be missing.     *)
CheckGroup(b) ==
  /\ At(b, "oidc", "group") /\ LoopFree
  /\ \/ Moves(b, IF request[b].uid = 0 THEN "email" ELSE "signed")
     \/ Ends(b)
  /\ UNCHANGED <<tables, cookie, lastSet, odd, asked>>

(* Broken: an identity is bound whoever is bound already.                  *)
Unbound(id, i) == TRUE

(* bind: no other identity of this provider is linked to the account.      *)
MayBind(id, i) == LinkedTo(id) \subseteq {i}

(* resolve_by_email.                                                       *)
ResolveByEmail(b) ==
  LET i == request[b].what  found == WithEmail(ClaimedEmail[i]) IN
  /\ At(b, "oidc", "email")
  /\ IF found = {} THEN Moves(b, "register")
     ELSE \E id \in found :
            IF MayBind(id, i)
            THEN request' = [request EXCEPT ![b].pc = "link", ![b].uid = id, ![b].sv = users[id].sv]
            ELSE Ends(b)
  /\ UNCHANGED <<tables, cookie, lastSet, odd, asked>>

(* create_sso_user, where self-registration is allowed.                    *)
CreateSsoUser(b) ==
  LET i == request[b].what IN
  /\ At(b, "oidc", "register")
  /\ \/ /\ WithEmail(ClaimedEmail[i]) = {}
        /\ Inserted("member", ClaimedEmail[i], 0, IF Accounts = {} THEN {"before setup"} ELSE {})
        /\ request' = [request EXCEPT ![b].pc = "link", ![b].uid = NextId, ![b].sv = 1]
     \/ Ends(b) /\ UNCHANGED <<users, lastSet, odd>>       \* refused
  /\ UNCHANGED <<links, owner, setupToken, cookie, asked>>

(* account_oidc_link, and back from the provider: still the same user's.   *)
AskLink(b) ==
  /\ At(b, "link", "begin") /\ LoopFree
  /\ \/ /\ SessionUser(cookie[b]) /\ cookie[b].uid = request[b].uid
        /\ \E i \in Identities : request' = [request EXCEPT ![b].pc = "link", ![b].what = i]
     \/ Ends(b)
  /\ UNCHANGED <<tables, cookie, lastSet, odd, asked>>

(* link: refuses an identity of somebody else, and an account that is gone *)
(* (the foreign key); a sign-in goes on to its session.                    *)
Link(b) ==
  LET id == request[b].uid  i == request[b].what IN
  /\ request[b].pc = "link"
  /\ IF links[i].id = id \/ (links[i].id = 0 /\ Exists(id))
     THEN /\ links' = IF links[i].id = id THEN links
                      ELSE [links EXCEPT ![i] = [id |-> id, how |-> request[b].kind]]
          /\ IF request[b].kind = "oidc" THEN Moves(b, "signed") ELSE Ends(b)
     ELSE Ends(b) /\ UNCHANGED links
  /\ UNCHANGED <<users, owner, setupToken, cookie, lastSet, odd, asked>>

Unlink(b) ==
  /\ At(b, "unlink", "begin")
  /\ \/ \E i \in LinkedTo(request[b].uid) : links' = [links EXCEPT ![i] = NoLink]
     \/ UNCHANGED links                                \* no such link
  /\ Ends(b)
  /\ UNCHANGED <<users, owner, setupToken, cookie, lastSet, odd, asked>>

-----------------------------------------------------------------------------
Init ==
  /\ \/ /\ users = [id \in Ids |-> NoUser]
        /\ setupToken = TRUE /\ owner = 0
        /\ cookie = [b \in Browsers |-> NoSession]
     \/ /\ \E address \in [{1, 2} -> Emails], outdated \in BOOLEAN :
             /\ address[1] # address[2]
             /\ users = [id \in Ids |->
                  IF id > 2 THEN NoUser
                  ELSE [role |-> "admin", sv |-> 1, password |-> id, email |-> address[id],
                        outdated |-> outdated]]
        /\ setupToken = FALSE /\ owner \in {0, 1, 2}
        /\ cookie \in [Browsers -> {[uid |-> id, sv |-> 1, knows |-> id] : id \in {1, 2}}]
  /\ links = [i \in Identities |-> NoLink]
  /\ request = [b \in Browsers |-> NoRequest]
  /\ lastSet = [id \in Ids |-> users[id].password]
  /\ odd = {} /\ asked = 0

Next ==
  \E b \in Browsers :
    \/ \E kind \in AdminKinds \cup OwnKinds \cup OpenKinds : Arrive(b, kind)
    \/ CheckRole(b) \/ SetRole(b) \/ CheckRemove(b) \/ RemoveUser(b)
    \/ CreateUser(b) \/ SetEmail(b) \/ CheckOwner(b) \/ AssignOwner(b)
    \/ CheckSetup(b) \/ SetupSubmit(b)
    \/ Authenticate(b) \/ Rehash(b) \/ StartSession(b) \/ Logout(b)
    \/ ChangePassword(b) \/ RestartSession(b)
    \/ FindLinkedUser(b) \/ CheckGroup(b) \/ ResolveByEmail(b) \/ CreateSsoUser(b)
    \/ AskLink(b) \/ Link(b) \/ Unlink(b)

Spec == Init /\ [][Next]_vars

-----------------------------------------------------------------------------
(* The type of every variable; what a table refers to is there.            *)
TypeOK ==
  /\ users \in [Ids -> [role : Roles \cup {"none"}, sv : Nat, password : 0 .. MaxPassword,
                        email : Emails \cup {"none"}, outdated : BOOLEAN]]
  /\ links \in [Identities -> [id : {0} \cup Accounts, how : {"none", "oidc", "link"}]]
  /\ owner \in {0} \cup Accounts
  /\ setupToken \in BOOLEAN
  /\ cookie \in [Browsers -> [uid : {0} \cup Ids, sv : Nat, knows : 0 .. MaxPassword]]
  /\ \A b \in Browsers : request[b].kind \in AdminKinds \cup OwnKinds \cup OpenKinds \cup {"none"}
  /\ lastSet \in [Ids -> 0 .. MaxPassword]
  /\ odd \subseteq {"overlapping admins", "assigned meanwhile", "id given again", "late rehash",
                    "late restart", "before setup"}
  /\ asked \in 0 .. MaxAsked

(* An installation with accounts has an admin (users_change_role and       *)
(* users_remove refuse the last one), except where the admins changed      *)
(* between such a check and its write, or somebody signed in through the   *)
(* provider before the first admin was set up.                             *)
AdminRemains ==
  Accounts # {} /\ Admins = {} => odd \cap {"overlapping admins", "before setup"} # {}

(* users_remove takes no account that still owns a device, except where    *)
(* the device was assigned between the count of its devices and the write. *)
OwnersRemain ==
  [][\A id \in Ids : Exists(id) /\ owner = id /\ users'[id] = NoUser => "assigned meanwhile" \in odd']_vars

(* A change of the password ends every other session: one that is still    *)
(* good was begun with the password of now, unless a change began its own  *)
(* session again only after a later change (account_password_change), a    *)
(* sign-in stored the old password anew (authenticate), or the row's id    *)
(* was somebody else's before.                                             *)
SessionKnowsPassword ==
  \A b \in Browsers :
    SessionUser(cookie[b]) /\ cookie[b].knows # 0 /\ cookie[b].knows # users[cookie[b].uid].password =>
      odd \cap {"late restart", "late rehash", "id given again"} # {}

(* An account has been taken over by at most one of the provider's         *)
(* identities on the strength of an address alone, whatever its owner      *)
(* linked besides: two callbacks never check and link at once.             *)
OneIdentityByAddress ==
  \A id \in Accounts : Cardinality({i \in LinkedTo(id) : links[i].how = "oidc"}) <= 1

(* The tables, whatever requests overlap.                                  *)
AccountsInv == TypeOK /\ AdminRemains /\ OneIdentityByAddress
=============================================================================
