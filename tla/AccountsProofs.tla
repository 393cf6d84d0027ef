--------------------------- MODULE AccountsProofs ---------------------------
(***************************************************************************)
(* Theorems about Accounts, for any number of browsers, accounts,          *)
(* identities and requests.                                                *)
(***************************************************************************)
EXTENDS Accounts, FiniteSetTheorems, TLAPS

User == [role : Roles \cup {"none"}, sv : Nat, password : 0 .. MaxPassword,
         email : Emails \cup {"none"}, outdated : BOOLEAN]
Stages == {"none", "begin", "write", "rehash", "verified", "restart", "group", "email", "register",
           "link", "signed"}
Request == [kind : AdminKinds \cup OwnKinds \cup OpenKinds \cup {"none"}, pc : Stages,
            uid : {0} \cup Ids, sv : Nat, target : {0} \cup Ids,
            what : Roles \cup Identities \cup {"none"}, knows : 0 .. MaxPassword,
            admins : SUBSET Ids, owner : {0} \cup Ids]
Session == [uid : {0} \cup Ids, sv : Nat, knows : 0 .. MaxPassword]
Odd == {"overlapping admins", "assigned meanwhile", "id given again", "late rehash",
        "late restart", "before setup"}

(* A row without a role is no row.                                         *)
UsersType ==
  /\ users \in [Ids -> User]
  /\ \A id \in Ids : users[id].role = "none" => users[id] = NoUser

(* A request that waits to write says what: whose role, which identity.    *)
RequestOK(r) ==
  /\ r.pc = "write" /\ r.kind \in {"role", "remove"} => r.target \in Ids
  /\ r.pc = "write" /\ r.kind = "role" => r.what \in Roles
  /\ r.pc \in {"group", "email", "register", "link"} => r.what \in Identities
  /\ r.pc = "link" => r.uid \in Ids /\ r.kind \in {"oidc", "link"}
RequestType == request \in [Browsers -> Request] /\ \A b \in Browsers : RequestOK(request[b])

OthersType ==
  /\ links \in [Identities -> [id : {0} \cup Ids, how : {"none", "oidc", "link"}]]
  /\ owner \in {0} \cup Ids
  /\ setupToken \in BOOLEAN
  /\ cookie \in [Browsers -> Session]
  /\ lastSet \in [Ids -> 0 .. MaxPassword]
  /\ odd \subseteq Odd
  /\ asked \in 0 .. MaxAsked

TypeInv == UsersType /\ RequestType /\ OthersType

-----------------------------------------------------------------------------
(* The rows there are, and the row ids that are given.                     *)

LEMMA AccountsAreRows ==
  ASSUME UsersType
  PROVE  /\ Accounts \subseteq Ids /\ IsFiniteSet(Accounts)
         /\ Admins \subseteq Accounts /\ IsFiniteSet(Admins)
         /\ \A id \in Ids : id \in Accounts <=> users[id].role # "none"
         /\ \A id \in Ids : id \in Admins <=> users[id].role = "admin"
<1>1. Accounts \subseteq Ids /\ Admins \subseteq Accounts
  BY DEF Accounts, Admins, Exists
<1>2. IsFiniteSet(Ids)
  BY AccountsAssumption, FS_Interval DEF Ids
<1>3. IsFiniteSet(Accounts) /\ IsFiniteSet(Admins)
  BY <1>1, <1>2, FS_Subset
<1>4. NoUser.role = "none"
  BY DEF NoUser
<1>5. \A id \in Ids : id \in Accounts <=> users[id].role # "none"
  BY <1>4 DEF Accounts, Exists, UsersType
<1>6. \A id \in Ids : id \in Admins <=> users[id].role = "admin"
  BY <1>5 DEF Admins
<1> QED BY <1>1, <1>3, <1>5, <1>6

(* The next row id is nobody's: were it an account's, as many smaller or   *)
(* equal ids would have been counted before it.                            *)
LEMMA NextIdIsFree ==
  ASSUME UsersType
  PROVE  NextId \in Nat \ {0} /\ NextId \notin Accounts
<1> DEFINE S == {n \in Ids : \E id \in Accounts : n <= id}
<1>1. IsFiniteSet(S) /\ Cardinality(S) \in Nat
  <2>1. IsFiniteSet(Ids)
    BY AccountsAssumption, FS_Interval DEF Ids
  <2>2. S \subseteq Ids
    OBVIOUS
  <2>3. IsFiniteSet(S)
    BY <2>1, <2>2, FS_Subset
  <2> QED BY <2>3, FS_CardinalityType
<1>2. NextId = 1 + Cardinality(S)
  BY DEF NextId
<1>3. ASSUME NextId \in Accounts
      PROVE  FALSE
  <2> DEFINE k == NextId
  <2>1. k \in Ids
    BY <1>3, AccountsAreRows
  <2>2. k \in Nat /\ MaxId \in Nat /\ k <= MaxId
    BY <2>1, AccountsAssumption DEF Ids
  <2>3. 1 .. k \subseteq S
    <3> SUFFICES ASSUME NEW n \in 1 .. k PROVE n \in S
      OBVIOUS
    <3>1. n \in Ids /\ n <= k
      BY <2>2 DEF Ids
    <3> QED BY <3>1, <1>3
  <2>4. Cardinality(1 .. k) = k
    <3> HIDE DEF k
    <3> QED BY <2>1, <2>2, FS_Interval DEF Ids
  <2>5. Cardinality(1 .. k) <= Cardinality(S)
    BY <2>3, <1>1, FS_Subset
  <2>6. k = 1 + Cardinality(S)
    BY <1>2
  <2> HIDE DEF k, S
  <2> QED BY <2>2, <2>4, <2>5, <2>6, <1>1
<1> QED BY <1>1, <1>2, <1>3

LEMMA NextPasswordType ==
  ASSUME OthersType
  PROVE  NextPassword \in Nat \ {0}
<1> DEFINE S == {n \in 1 .. MaxPassword : \E id \in Ids : n <= lastSet[id]}
<1>1. IsFiniteSet(1 .. MaxPassword)
  BY AccountsAssumption, FS_Interval
<1>2. S \subseteq 1 .. MaxPassword
  OBVIOUS
<1>3. Cardinality(S) \in Nat
  BY <1>1, <1>2, FS_Subset, FS_CardinalityType
<1> QED BY <1>3 DEF NextPassword

(* A row that is written, or taken away.                                   *)
LEMMA RowWritten ==
  ASSUME UsersType, NEW id \in Ids, NEW u \in User, u.role = "none" => u = NoUser,
         users' = [users EXCEPT ![id] = u]
  PROVE  /\ UsersType'
         /\ Accounts' = IF u.role = "none" THEN Accounts \ {id} ELSE Accounts \cup {id}
         /\ Admins' = IF u.role = "admin" THEN Admins \cup {id} ELSE Admins \ {id}
<1>1. UsersType'
  BY DEF UsersType
<1>2. \A n \in Ids : users'[n] = IF n = id THEN u ELSE users[n]
  BY DEF UsersType
<1>3. /\ Accounts' = {n \in Ids : users'[n].role # "none"}
      /\ Accounts = {n \in Ids : users[n].role # "none"}
  <2>1. NoUser.role = "none"
    BY DEF NoUser
  <2>2. \A n \in Ids : users[n].role # "none" <=> users[n] # NoUser
    BY <2>1 DEF UsersType
  <2>3. \A n \in Ids : users'[n].role # "none" <=> users'[n] # NoUser
    BY <1>1, <2>1 DEF UsersType
  <2> QED BY <2>2, <2>3 DEF Accounts, Exists
<1>4. /\ Admins' = {n \in Ids : users'[n].role = "admin"}
      /\ Admins = {n \in Ids : users[n].role = "admin"}
  BY <1>3 DEF Admins
<1> QED BY <1>1, <1>2, <1>3, <1>4

(* What the statements that change the table do to its rows.               *)
LEMMA RoleReplaced ==
  ASSUME NEW r \in User, NEW role \in Roles, NEW sv \in Nat
  PROVE  LET u == [r EXCEPT !.role = role, !.sv = sv] IN u \in User /\ u.role = role
BY DEF User

LEMMA SetRoleRow ==
  ASSUME TypeInv, NEW b \in Browsers, SetRole(b)
  PROVE  LET id == request[b].target IN
         /\ UsersType' /\ id \in Ids /\ Accounts' = Accounts
         /\ Admins' = IF id \notin Accounts THEN Admins
                      ELSE IF request[b].what = "admin" THEN Admins \cup {id} ELSE Admins \ {id}
<1> DEFINE id == request[b].target
           sv == users[id].sv + 1
           u == [users[id] EXCEPT !.role = request[b].what, !.sv = sv]
<1>1. id \in Ids /\ request[b].what \in Roles
  BY DEF TypeInv, RequestType, RequestOK, SetRole, At
<1>2. CASE Exists(id)
  <2>1. users' = [users EXCEPT ![id] = u]
    BY <1>2 DEF SetRole
  <2>2. u \in User /\ u.role = request[b].what
    <3>1. users[id] \in User
      BY <1>1 DEF TypeInv, UsersType
    <3>2. sv \in Nat
      BY <3>1 DEF User
    <3> HIDE DEF sv
    <3> QED BY ZenonT(30), <1>1, <3>1, <3>2, RoleReplaced
  <2>3. id \in Accounts
    BY <1>1, <1>2 DEF Accounts
  <2> HIDE DEF u
  <2> QED BY ZenonT(30), <1>1, <2>1, <2>2, <2>3, RowWritten, AccountsAreRows DEF TypeInv, Roles
<1>3. CASE ~Exists(id)
  <2>1. users' = users
    BY <1>3 DEF SetRole
  <2> QED BY <1>1, <1>3, <2>1 DEF TypeInv, UsersType, Accounts, Admins, Exists
<1> QED BY <1>2, <1>3

LEMMA RemoveUserRow ==
  ASSUME TypeInv, NEW b \in Browsers, RemoveUser(b)
  PROVE  LET id == request[b].target IN
         UsersType' /\ id \in Ids /\ Accounts' = Accounts \ {id} /\ Admins' = Admins \ {id}
<1> DEFINE id == request[b].target
<1>1. id \in Ids
  BY DEF TypeInv, RequestType, RequestOK, RemoveUser, At
<1>2. NoUser \in User /\ NoUser.role = "none"
  BY AccountsAssumption DEF NoUser, User
<1> QED BY <1>1, <1>2, RowWritten DEF RemoveUser, TypeInv

LEMMA InsertedRow ==
  ASSUME TypeInv, NEW role \in Roles, NEW email \in Emails, NEW password \in 0 .. MaxPassword, NEW what,
         Inserted(role, email, password, what)
  PROVE  /\ UsersType' /\ NextId \in Ids \ Accounts /\ Accounts' = Accounts \cup {NextId}
         /\ Admins' = IF role = "admin" THEN Admins \cup {NextId} ELSE Admins
         /\ lastSet' \in [Ids -> 0 .. MaxPassword]
<1> DEFINE u == [role |-> role, sv |-> 1, password |-> password, email |-> email, outdated |-> FALSE]
<1>1. NextId \in Ids \ Accounts
  <2>1. NextId \in Nat \ {0} /\ NextId \notin Accounts
    BY NextIdIsFree DEF TypeInv
  <2>2. NextId <= MaxId /\ MaxId \in Nat
    BY AccountsAssumption DEF Inserted
  <2> QED BY <2>1, <2>2 DEF Ids
<1>2. u \in User /\ u.role # "none" /\ u.role = role
  BY DEF User, Roles
<1>3. users' = [users EXCEPT ![NextId] = u]
  BY DEF Inserted
<1>4. lastSet' \in [Ids -> 0 .. MaxPassword]
  BY <1>1 DEF Inserted, TypeInv, OthersType
<1> HIDE DEF u
<1> QED BY <1>1, <1>2, <1>3, <1>4, RowWritten, AccountsAreRows DEF TypeInv

(* Any other change leaves every row there, in its role.                   *)
LEMMA SameRoles ==
  ASSUME UsersType, UsersType', \A id \in Ids : users'[id].role = users[id].role
  PROVE  Accounts' = Accounts /\ Admins' = Admins
<1>1. NoUser.role = "none"
  BY DEF NoUser
<1>2. \A n \in Ids : (users[n] # NoUser) <=> (users'[n] # NoUser)
  BY <1>1 DEF UsersType
<1>3. Accounts' = Accounts
  BY <1>2 DEF Accounts, Exists
<1> QED BY <1>3 DEF Admins, Accounts

(* A password or an address is written into a row that is there.           *)
LEMMA RowEdited ==
  ASSUME UsersType, NEW id \in Ids, Exists(id), NEW sv \in Nat, NEW password \in 0 .. MaxPassword,
         NEW email \in Emails \cup {"none"},
         \/ users' = [users EXCEPT ![id].password = password, ![id].outdated = FALSE]
         \/ users' = [users EXCEPT ![id].password = password, ![id].sv = sv, ![id].outdated = FALSE]
         \/ users' = [users EXCEPT ![id].email = email]
  PROVE  UsersType' /\ Accounts' = Accounts /\ Admins' = Admins
<1>1. users \in [Ids -> User] /\ users[id] \in User /\ users[id].role # "none"
  BY DEF UsersType, Exists
<1>2. /\ [users[id] EXCEPT !.password = password, !.outdated = FALSE] \in User
      /\ [users[id] EXCEPT !.password = password, !.sv = sv, !.outdated = FALSE] \in User
      /\ [users[id] EXCEPT !.email = email] \in User
  BY <1>1 DEF User
<1>3. users' \in [Ids -> User]
  BY <1>1, <1>2
<1>4. users'[id].role = users[id].role /\ \A n \in Ids \ {id} : users'[n] = users[n]
  BY <1>1 DEF User
<1>5. UsersType'
  BY <1>1, <1>3, <1>4 DEF UsersType
<1> QED BY <1>4, <1>5, SameRoles

-----------------------------------------------------------------------------
(* The types, statement by statement. First what a step does to its        *)
(* request.                                                                *)

LEMMA Answered ==
  ASSUME RequestType, NEW b \in Browsers, NEW r \in Request, RequestOK(r), request' = [request EXCEPT ![b] = r]
  PROVE  RequestType'
<1>1. request' \in [Browsers -> Request]
  BY DEF RequestType
<1>2. \A c \in Browsers : request'[c] = r \/ request'[c] = request[c]
  BY DEF RequestType
<1>3. \A c \in Browsers : RequestOK(request'[c])
  BY <1>2 DEF RequestType
<1> QED BY <1>1, <1>3 DEF RequestType

LEMMA NothingAsked == NoRequest \in Request /\ RequestOK(NoRequest)
<1>1. 0 \in 0 .. MaxPassword /\ {} \in SUBSET Ids /\ "none" \in Stages
  BY AccountsAssumption DEF Stages
<1> QED BY <1>1 DEF NoRequest, Request, RequestOK

LEMMA Ended ==
  ASSUME RequestType, NEW b \in Browsers, Ends(b)
  PROVE  RequestType'
BY NothingAsked, Answered DEF Ends

LEMMA Moved ==
  ASSUME RequestType, NEW b \in Browsers, NEW pc \in Stages, Moves(b, pc), pc # "link",
         pc = "write" => request[b].kind \notin {"role", "remove"},
         pc \in {"group", "email", "register"} => request[b].what \in Identities
  PROVE  RequestType'
<1> DEFINE r == [request[b] EXCEPT !.pc = pc]
<1>1. request[b] \in Request /\ RequestOK(request[b])
  BY DEF RequestType
<1>2. r \in Request /\ r.pc = pc /\ r.kind = request[b].kind /\ r.what = request[b].what
  BY <1>1 DEF Request
<1>3. RequestOK(r)
  BY <1>2 DEF RequestOK
<1>4. request' = [request EXCEPT ![b] = r]
  BY DEF Moves
<1> HIDE DEF r
<1> QED BY <1>2, <1>3, <1>4, Answered

LEMMA TypesInit == Init => TypeInv
<1> SUFFICES ASSUME Init PROVE TypeInv
  OBVIOUS
<1> USE AccountsAssumption
<1>1. NoUser \in User /\ NoUser.role = "none" /\ NoUser.password = 0
  BY DEF NoUser, User
<1>2. UsersType /\ lastSet \in [Ids -> 0 .. MaxPassword] /\ cookie \in [Browsers -> Session] /\ owner \in {0} \cup Ids
  <2>1. CASE users = [id \in Ids |-> NoUser] /\ owner = 0 /\ cookie = [b \in Browsers |-> NoSession]
    <3>1. NoSession \in Session
      BY DEF NoSession, Session
    <3> QED BY <1>1, <2>1, <3>1 DEF UsersType, Init
  <2>2. ASSUME NEW address \in [{1, 2} -> Emails], NEW outdated \in BOOLEAN,
               users = [id \in Ids |->
                  IF id > 2 THEN NoUser
                  ELSE [role |-> "admin", sv |-> 1, password |-> id, email |-> address[id],
                        outdated |-> outdated]],
               owner \in {0, 1, 2},
               cookie \in [Browsers -> {[uid |-> id, sv |-> 1, knows |-> id] : id \in {1, 2}}]
        PROVE  UsersType /\ lastSet \in [Ids -> 0 .. MaxPassword] /\ cookie \in [Browsers -> Session] /\ owner \in {0} \cup Ids
    <3>1. {1, 2} \subseteq Ids /\ {1, 2} \subseteq 0 .. MaxPassword
      BY DEF Ids
    <3>2. \A id \in Ids : id > 2 \/ id \in {1, 2}
      BY DEF Ids
    <3>3. \A id \in {1, 2} : [role |-> "admin", sv |-> 1, password |-> id, email |-> address[id],
                              outdated |-> outdated] \in User
      BY <3>1 DEF User, Roles
    <3>4. \A id \in Ids : users[id] \in User /\ (users[id].role = "none" => users[id] = NoUser)
      BY <1>1, <2>2, <3>2, <3>3
    <3>5. UsersType
      BY <2>2, <3>4 DEF UsersType
    <3>6. \A id \in Ids : users[id].password \in 0 .. MaxPassword
      BY <3>4 DEF User
    <3>7. \A id \in {1, 2} : [uid |-> id, sv |-> 1, knows |-> id] \in Session
      BY <3>1 DEF Session
    <3> QED BY <2>2, <3>1, <3>5, <3>6, <3>7 DEF Init
  <2> QED BY <2>1, <2>2 DEF Init
<1>3. RequestType
  BY NothingAsked DEF Init, RequestType
<1>4. links \in [Identities -> [id : {0} \cup Ids, how : {"none", "oidc", "link"}]]
  BY DEF Init, NoLink
<1>5. odd \subseteq Odd /\ asked \in 0 .. MaxAsked
  BY DEF Init
<1>6. setupToken \in BOOLEAN
  BY Zenon DEF Init
<1> QED BY <1>2, <1>3, <1>4, <1>5, <1>6 DEF TypeInv, OthersType

LEMMA Begun ==
  ASSUME NEW kind \in AdminKinds \cup OwnKinds \cup OpenKinds, NEW uid \in {0} \cup Ids
  PROVE  LET r == [NoRequest EXCEPT !.kind = kind, !.pc = "begin", !.uid = uid]
         IN  r \in Request /\ RequestOK(r)
<1> DEFINE r == [NoRequest EXCEPT !.kind = kind, !.pc = "begin", !.uid = uid]
<1>1. r.pc = "begin" /\ r \in Request
  BY ZenonT(30), NothingAsked DEF Request, Stages
<1> HIDE DEF r
<1>2. RequestOK(r)
  BY <1>1 DEF RequestOK
<1> QED BY <1>1, <1>2 DEF r

(* The step of request b keeps the types: users, requests, and the rest.   *)
LEMMA ArriveTypes ==
  ASSUME TypeInv, NEW b \in Browsers, NEW kind \in AdminKinds \cup OwnKinds \cup OpenKinds, Arrive(b, kind)
  PROVE  TypeInv'
<1> DEFINE r == [NoRequest EXCEPT !.kind = kind, !.pc = "begin",
                                  !.uid = IF kind \in OpenKinds THEN 0 ELSE cookie[b].uid]
<1>1. UsersType' /\ OthersType'
  BY AccountsAssumption DEF Arrive, TypeInv, UsersType, OthersType, tables
<1>2. cookie[b].uid \in {0} \cup Ids
  BY DEF TypeInv, OthersType, Session
<1>3. r \in Request /\ RequestOK(r)
  <2> DEFINE uid == IF kind \in OpenKinds THEN 0 ELSE cookie[b].uid
  <2>1. uid \in {0} \cup Ids
    BY <1>2
  <2>2. r = [NoRequest EXCEPT !.kind = kind, !.pc = "begin", !.uid = uid]
    OBVIOUS
  <2> HIDE DEF uid, r
  <2> QED BY <2>1, <2>2, Begun
<1>4. request' = [request EXCEPT ![b] = r]
  BY DEF Arrive
<1> HIDE DEF r
<1> QED BY <1>1, <1>3, <1>4, Answered DEF TypeInv

LEMMA AdminTypes ==
  ASSUME TypeInv, NEW b \in Browsers,
         \/ CheckRole(b) \/ SetRole(b) \/ CheckRemove(b) \/ RemoveUser(b)
         \/ CreateUser(b) \/ SetEmail(b) \/ CheckOwner(b) \/ AssignOwner(b)
  PROVE  TypeInv'
<1>0. request[b] \in Request /\ RequestOK(request[b]) /\ Accounts \subseteq Ids /\ Admins \subseteq Ids
  BY AccountsAreRows DEF TypeInv, RequestType
<1>1. CASE CheckRole(b)
  <2>1. UsersType' /\ OthersType'
    BY <1>1 DEF CheckRole, TypeInv, UsersType, OthersType, tables
  <2>2. ASSUME NEW id \in Accounts, NEW role \in Roles,
               request' = [request EXCEPT ![b].pc = "write", ![b].target = id, ![b].what = role,
                                          ![b].admins = Admins]
        PROVE  RequestType'
    <3> DEFINE r == [request[b] EXCEPT !.pc = "write", !.target = id, !.what = role, !.admins = Admins]
    <3>1. r \in Request /\ RequestOK(r)
      BY ZenonT(30), <1>0 DEF Request, RequestOK, Stages
    <3>2. request' = [request EXCEPT ![b] = r]
      BY <2>2
    <3> HIDE DEF r
    <3> QED BY <3>1, <3>2, Answered DEF TypeInv
  <2> QED BY <1>1, <2>1, <2>2, Ended DEF CheckRole, TypeInv
<1>2. CASE SetRole(b)
  <2>1. odd' \subseteq Odd
    BY <1>2 DEF SetRole, Overlapped, TypeInv, OthersType, Odd
  <2>2. OthersType'
    BY <1>2, <2>1 DEF SetRole, TypeInv, OthersType
  <2> QED BY <1>2, <2>2, SetRoleRow, Ended DEF SetRole, TypeInv
<1>3. CASE CheckRemove(b)
  <2>1. UsersType' /\ OthersType'
    BY <1>3 DEF CheckRemove, TypeInv, UsersType, OthersType, tables
  <2>2. ASSUME NEW id \in Accounts,
               request' = [request EXCEPT ![b].pc = "write", ![b].target = id, ![b].admins = Admins,
                                          ![b].owner = owner]
        PROVE  RequestType'
    <3> DEFINE r == [request[b] EXCEPT !.pc = "write", !.target = id, !.admins = Admins, !.owner = owner]
    <3>0. owner \in {0} \cup Ids /\ request[b].kind = "remove"
      BY <1>3 DEF TypeInv, OthersType, CheckRemove, At
    <3>1. r \in Request /\ r.kind = "remove" /\ r.target \in Ids /\ r.pc = "write"
      BY <1>0, <3>0 DEF Request, Stages
    <3>3. RequestOK(r)
      BY <3>1 DEF RequestOK
    <3>2. request' = [request EXCEPT ![b] = r]
      BY <2>2
    <3> HIDE DEF r
    <3> QED BY <3>1, <3>2, <3>3, Answered DEF TypeInv
  <2> QED BY <1>3, <2>1, <2>2, Ended DEF CheckRemove, TypeInv
<1>4. CASE RemoveUser(b)
  <2>1. odd' \subseteq Odd
    BY <1>4 DEF RemoveUser, Overlapped, TypeInv, OthersType, Odd
  <2>2. links' \in [Identities -> [id : {0} \cup Ids, how : {"none", "oidc", "link"}]]
    BY <1>4 DEF RemoveUser, TypeInv, OthersType, NoLink
  <2>3. OthersType'
    BY <1>4, <2>1, <2>2 DEF RemoveUser, TypeInv, OthersType
  <2> QED BY <1>4, <2>3, RemoveUserRow, Ended DEF RemoveUser, TypeInv
<1>5. CASE CreateUser(b)
  <2>1. ASSUME NEW role \in Roles, NEW email \in Emails, NextPassword <= MaxPassword,
               Inserted(role, email, NextPassword, {})
        PROVE  UsersType' /\ OthersType'
    <3>1. NextPassword \in 0 .. MaxPassword
      BY <2>1, NextPasswordType, AccountsAssumption DEF TypeInv
    <3>2. UsersType' /\ lastSet' \in [Ids -> 0 .. MaxPassword]
      BY <2>1, <3>1, InsertedRow
    <3>3. odd' \subseteq Odd
      BY <2>1 DEF Inserted, TypeInv, OthersType, Odd
    <3> QED BY <1>5, <3>2, <3>3 DEF CreateUser, TypeInv, OthersType
  <2>2. CASE UNCHANGED <<users, lastSet, odd>>
    BY <1>5, <2>2, Ended DEF CreateUser, TypeInv, UsersType, OthersType
  <2> QED BY <1>5, <2>1, <2>2, Ended DEF CreateUser, TypeInv
<1>6. CASE SetEmail(b)
  <2>1. UsersType'
    <3>1. PICK id \in Accounts, email \in Emails :
            users' = IF WithEmail(email) \subseteq {id} THEN [users EXCEPT ![id].email = email] ELSE users
      BY <1>6 DEF SetEmail
    <3>2. CASE users' = users
      BY <3>2 DEF TypeInv, UsersType
    <3>3. CASE users' = [users EXCEPT ![id].email = email]
      <4>1. id \in Ids /\ Exists(id) /\ 0 \in Nat /\ 0 \in 0 .. MaxPassword
        BY <1>0, AccountsAssumption DEF Accounts
      <4> QED BY <3>3, <4>1, RowEdited DEF TypeInv
    <3> QED BY <3>1, <3>2, <3>3
  <2> QED BY <1>6, <2>1, Ended DEF SetEmail, TypeInv, OthersType
<1>7. CASE CheckOwner(b)
  <2>1. UsersType' /\ OthersType'
    BY <1>7 DEF CheckOwner, TypeInv, UsersType, OthersType, tables
  <2>2. PICK id \in {0} \cup Accounts : request' = [request EXCEPT ![b].pc = "write", ![b].target = id]
    BY <1>7 DEF CheckOwner
  <2> DEFINE r == [request[b] EXCEPT !.pc = "write", !.target = id]
  <2>3. request[b].kind = "assign"
    BY <1>7 DEF CheckOwner, At
  <2>4. r \in Request /\ r.kind = "assign" /\ r.pc = "write"
    <3>1. id \in {0} \cup Ids
      BY <1>0
    <3> QED BY <1>0, <2>3, <3>1 DEF Request, Stages
  <2>5. RequestOK(r)
    BY <2>4 DEF RequestOK
  <2>6. request' = [request EXCEPT ![b] = r]
    BY <2>2
  <2> HIDE DEF r
  <2> QED BY <2>1, <2>4, <2>5, <2>6, Answered DEF TypeInv
<1>8. CASE AssignOwner(b)
  <2>1. owner' \in {0} \cup Ids
    BY <1>0, <1>8 DEF AssignOwner, TypeInv, OthersType
  <2> QED BY <1>8, <2>1, Ended DEF AssignOwner, TypeInv, UsersType, OthersType
<1> QED BY <1>1, <1>2, <1>3, <1>4, <1>5, <1>6, <1>7, <1>8

LEMMA PasswordTypes ==
  ASSUME TypeInv, NEW b \in Browsers,
         \/ CheckSetup(b) \/ SetupSubmit(b) \/ Authenticate(b) \/ Rehash(b)
         \/ StartSession(b) \/ Logout(b) \/ ChangePassword(b) \/ RestartSession(b)
  PROVE  TypeInv'
<1>0. request[b] \in Request /\ RequestOK(request[b]) /\ Accounts \subseteq Ids /\ AccountsAssumption
  BY AccountsAreRows, AccountsAssumption DEF TypeInv, RequestType
<1>1. CASE CheckSetup(b)
  <2>1. UsersType' /\ OthersType'
    BY <1>1 DEF CheckSetup, TypeInv, UsersType, OthersType, tables
  <2>2. request[b].kind = "setup" /\ "write" \in Stages
    BY <1>1 DEF CheckSetup, At, Stages
  <2> QED BY <1>1, <2>1, <2>2, Ended, Moved DEF CheckSetup, TypeInv
<1>2. CASE SetupSubmit(b)
  <2>1. PICK email \in Emails :
          IF WithEmail(email) # {} THEN UNCHANGED <<users, lastSet, odd, setupToken, cookie>>
          ELSE /\ Inserted("admin", email, NextPassword, {})
               /\ setupToken' = FALSE
               /\ Signs(b, NextId, 1, NextPassword)
    BY <1>2 DEF SetupSubmit
  <2>2. CASE UNCHANGED <<users, lastSet, odd, setupToken, cookie>>
    BY <1>2, <2>2, Ended DEF SetupSubmit, TypeInv, UsersType, OthersType
  <2>3. CASE Inserted("admin", email, NextPassword, {}) /\ setupToken' = FALSE /\ Signs(b, NextId, 1, NextPassword)
    <3>1. NextPassword \in 0 .. MaxPassword
      BY <1>2, NextPasswordType, AccountsAssumption DEF TypeInv, SetupSubmit
    <3>2. UsersType' /\ NextId \in Ids /\ lastSet' \in [Ids -> 0 .. MaxPassword]
      BY <2>3, <3>1, InsertedRow DEF Roles
    <3>3. odd' \subseteq Odd
      BY <2>3 DEF Inserted, TypeInv, OthersType, Odd
    <3>4. [uid |-> NextId, sv |-> 1, knows |-> NextPassword] \in Session
      BY <3>1, <3>2 DEF Session
    <3>5. cookie' \in [Browsers -> Session]
      BY <2>3, <3>4 DEF Signs, TypeInv, OthersType
    <3> QED BY <1>2, <2>3, <3>2, <3>3, <3>5, Ended DEF SetupSubmit, TypeInv, OthersType
  <2> QED BY <2>1, <2>2, <2>3
<1>3. CASE Authenticate(b)
  <2>1. UsersType' /\ OthersType'
    BY <1>3 DEF Authenticate, TypeInv, UsersType, OthersType, tables
  <2>2. ASSUME NEW id \in Accounts,
               request' = [request EXCEPT ![b].pc = IF users[id].outdated THEN "rehash" ELSE "verified",
                             ![b].uid = id, ![b].sv = users[id].sv, ![b].knows = users[id].password]
        PROVE  RequestType'
    <3> DEFINE pc == IF users[id].outdated THEN "rehash" ELSE "verified"
               r == [request[b] EXCEPT !.pc = pc, !.uid = id, !.sv = users[id].sv,
                                       !.knows = users[id].password]
    <3>1. request' = [request EXCEPT ![b] = r]
      BY <2>2
    <3>2. pc \in {"rehash", "verified"}
      OBVIOUS
    <3>3. users[id].sv \in Nat /\ users[id].password \in 0 .. MaxPassword /\ id \in Ids
      BY <1>0 DEF TypeInv, UsersType, User
    <3> HIDE DEF pc
    <3>4. r \in Request /\ r.pc = pc
      BY <1>0, <3>2, <3>3 DEF Request, Stages
    <3> HIDE DEF r
    <3>5. RequestOK(r)
      BY <3>2, <3>4 DEF RequestOK
    <3> QED BY <3>1, <3>4, <3>5, Answered DEF TypeInv
  <2> QED BY <1>3, <2>1, <2>2, Ended DEF Authenticate, TypeInv
<1>4. CASE Rehash(b)
  <2>1. UsersType'
    <3>1. CASE ~Exists(request[b].uid)
      BY <1>4, <3>1 DEF Rehash, TypeInv, UsersType
    <3>2. CASE Exists(request[b].uid)
      <4>1. request[b].uid \in Ids /\ request[b].knows \in 0 .. MaxPassword
        BY <1>0, <3>2 DEF Exists, Request
      <4>2. 0 \in Nat /\ "none" \in Emails \cup {"none"}
        OBVIOUS
      <4>3. users' = [users EXCEPT ![request[b].uid].password = request[b].knows, ![request[b].uid].outdated = FALSE]
        BY <1>4, <3>2 DEF Rehash
      <4> QED BY <3>2, <4>1, <4>2, <4>3, RowEdited DEF TypeInv
    <3> QED BY <3>1, <3>2
  <2>2. odd' \subseteq Odd
    BY <1>4 DEF Rehash, TypeInv, OthersType, Odd
  <2>3. RequestType'
    BY <1>4, Moved DEF Rehash, TypeInv, Stages
  <2> QED BY <1>4, <2>1, <2>2, <2>3 DEF Rehash, TypeInv, OthersType
<1>5. CASE StartSession(b)
  <2>1. [uid |-> request[b].uid, sv |-> request[b].sv, knows |-> request[b].knows] \in Session
    BY <1>0 DEF Request, Session
  <2>2. cookie' \in [Browsers -> Session]
    BY <1>5, <2>1 DEF StartSession, Signs, TypeInv, OthersType
  <2> QED BY <1>5, <2>2, Ended DEF StartSession, TypeInv, UsersType, OthersType, tables
<1>6. CASE Logout(b)
  <2>1. NoSession \in Session
    BY AccountsAssumption DEF NoSession, Session
  <2>2. cookie' \in [Browsers -> Session]
    BY <1>6, <2>1 DEF Logout, TypeInv, OthersType
  <2> QED BY <1>6, <2>2, Ended DEF Logout, TypeInv, UsersType, OthersType, tables
<1>7. CASE ChangePassword(b)
  <2> DEFINE id == request[b].uid  new == NextPassword
  <2>1. CASE ~Exists(id)
    BY <1>7, <2>1, Ended DEF ChangePassword, TypeInv, UsersType, OthersType
  <2>2. CASE Exists(id)
    <3>1. id \in Ids /\ new \in 0 .. MaxPassword
      BY <1>7, <2>2, NextPasswordType, AccountsAssumption DEF TypeInv, ChangePassword, Exists
    <3>2. users[id].sv + 1 \in Nat /\ "none" \in Emails \cup {"none"}
      BY <3>1 DEF TypeInv, UsersType, User
    <3>3. users' = [users EXCEPT ![id].password = new, ![id].sv = users[id].sv + 1, ![id].outdated = FALSE]
      BY <1>7, <2>2 DEF ChangePassword
    <3>4. UsersType'
      BY <2>2, <3>1, <3>2, <3>3, RowEdited DEF TypeInv
    <3>5. lastSet' \in [Ids -> 0 .. MaxPassword]
      BY <1>7, <2>2, <3>1 DEF ChangePassword, TypeInv, OthersType
    <3> DEFINE r == [request[b] EXCEPT !.pc = "restart", !.knows = new]
    <3>6. request' = [request EXCEPT ![b] = r]
      BY <1>7, <2>2 DEF ChangePassword
    <3> HIDE DEF new
    <3>7. r \in Request /\ r.pc = "restart"
      BY <1>0, <3>1 DEF Request, Stages
    <3> HIDE DEF r
    <3>8. RequestOK(r)
      BY <3>7 DEF RequestOK
    <3>9. RequestType'
      BY <3>6, <3>7, <3>8, Answered DEF TypeInv
    <3> QED BY <1>7, <3>4, <3>5, <3>9 DEF ChangePassword, TypeInv, OthersType
  <2> QED BY <2>1, <2>2
<1>8. CASE RestartSession(b)
  <2> DEFINE id == request[b].uid
  <2>1. odd' \subseteq Odd
    BY <1>8 DEF RestartSession, TypeInv, OthersType, Odd
  <2>2. cookie' \in [Browsers -> Session]
    <3>1. CASE ~Exists(id)
      BY <1>8, <3>1 DEF RestartSession, TypeInv, OthersType
    <3>2. CASE Exists(id)
      <4>1. users[id].sv \in Nat /\ id \in Ids
        BY <3>2 DEF TypeInv, UsersType, User, Exists
      <4>2. [uid |-> id, sv |-> users[id].sv, knows |-> request[b].knows] \in Session
        BY <1>0, <4>1 DEF Request, Session
      <4> QED BY <1>8, <3>2, <4>2 DEF RestartSession, Signs, TypeInv, OthersType
    <3> QED BY <3>1, <3>2
  <2> QED BY <1>8, <2>1, <2>2, Ended DEF RestartSession, TypeInv, UsersType, OthersType, tables
<1> QED BY <1>1, <1>2, <1>3, <1>4, <1>5, <1>6, <1>7, <1>8

LEMMA SsoTypes ==
  ASSUME TypeInv, NEW b \in Browsers,
         \/ FindLinkedUser(b) \/ CheckGroup(b) \/ ResolveByEmail(b) \/ CreateSsoUser(b)
         \/ AskLink(b) \/ Link(b) \/ Unlink(b)
  PROVE  TypeInv'
<1>0. request[b] \in Request /\ RequestOK(request[b]) /\ Accounts \subseteq Ids /\ AccountsAssumption
  BY AccountsAreRows, AccountsAssumption DEF TypeInv, RequestType
<1>1. CASE FindLinkedUser(b)
  <2>1. UsersType' /\ OthersType'
    BY <1>1 DEF FindLinkedUser, TypeInv, UsersType, OthersType, tables
  <2>2. PICK i \in Identities :
          request' = [request EXCEPT ![b].what = i, ![b].pc = "group", ![b].uid = Linked(i).uid,
                                     ![b].sv = Linked(i).sv]
    BY <1>1 DEF FindLinkedUser
  <2>3. Linked(i).uid \in {0} \cup Ids /\ Linked(i).sv \in Nat
    <3>1. links[i].id \in {0} \cup Ids
      BY DEF TypeInv, OthersType
    <3>2. links[i].id # 0 => users[links[i].id].sv \in Nat
      BY <3>1 DEF TypeInv, UsersType, User
    <3> QED BY <3>1, <3>2 DEF Linked
  <2> DEFINE r == [request[b] EXCEPT !.what = i, !.pc = "group", !.uid = Linked(i).uid, !.sv = Linked(i).sv]
  <2>4. request' = [request EXCEPT ![b] = r]
    BY <2>2
  <2>5. r \in Request /\ r.pc = "group" /\ r.what = i
    BY <1>0, <2>3 DEF Request, Stages
  <2> HIDE DEF r
  <2>6. RequestOK(r)
    BY <2>5 DEF RequestOK
  <2> QED BY <2>1, <2>4, <2>5, <2>6, Answered DEF TypeInv
<1>2. CASE CheckGroup(b)
  <2>1. UsersType' /\ OthersType'
    BY <1>2 DEF CheckGroup, TypeInv, UsersType, OthersType, tables
  <2>2. request[b].what \in Identities
    BY <1>0, <1>2 DEF CheckGroup, At, RequestOK
  <2>3. {"email", "signed"} \subseteq Stages
    BY DEF Stages
  <2> QED BY <1>2, <2>1, <2>2, <2>3, Ended, Moved DEF CheckGroup, TypeInv
<1>3. CASE ResolveByEmail(b)
  <2>1. UsersType' /\ OthersType'
    BY <1>3 DEF ResolveByEmail, TypeInv, UsersType, OthersType, tables
  <2>2. request[b].what \in Identities
    BY <1>0, <1>3 DEF ResolveByEmail, At, RequestOK
  <2>3. CASE Moves(b, "register")
    BY <2>1, <2>2, <2>3, Moved DEF TypeInv, Stages
  <2>4. ASSUME NEW id \in Accounts,
               request' = [request EXCEPT ![b].pc = "link", ![b].uid = id, ![b].sv = users[id].sv]
        PROVE  RequestType'
    <3> DEFINE r == [request[b] EXCEPT !.pc = "link", !.uid = id, !.sv = users[id].sv]
    <3>1. request' = [request EXCEPT ![b] = r]
      BY <2>4
    <3>2. users[id].sv \in Nat /\ id \in Ids
      BY <1>0 DEF TypeInv, UsersType, User
    <3>3. r \in Request /\ r.pc = "link" /\ r.what = request[b].what /\ r.uid = id /\ r.kind = "oidc"
      BY <1>0, <1>3, <3>2 DEF Request, Stages, ResolveByEmail, At
    <3> HIDE DEF r
    <3>4. RequestOK(r)
      BY <2>2, <3>2, <3>3 DEF RequestOK
    <3> QED BY <3>1, <3>3, <3>4, Answered DEF TypeInv
  <2> QED BY <1>3, <2>1, <2>3, <2>4, Ended DEF ResolveByEmail, TypeInv, WithEmail
<1>4. CASE CreateSsoUser(b)
  <2> DEFINE i == request[b].what
             what == IF Accounts = {} THEN {"before setup"} ELSE {}
  <2>1. i \in Identities
    BY <1>0, <1>4 DEF CreateSsoUser, At, RequestOK
  <2>2. CASE Ends(b) /\ UNCHANGED <<users, lastSet, odd>>
    BY <1>4, <2>2, Ended DEF CreateSsoUser, TypeInv, UsersType, OthersType
  <2>3. CASE /\ Inserted("member", ClaimedEmail[i], 0, what)
             /\ request' = [request EXCEPT ![b].pc = "link", ![b].uid = NextId, ![b].sv = 1]
    <3>1. ClaimedEmail[i] \in Emails /\ 0 \in 0 .. MaxPassword /\ "member" \in Roles
      BY <1>0, <2>1 DEF AccountsAssumption, Roles
    <3>2. UsersType' /\ lastSet' \in [Ids -> 0 .. MaxPassword] /\ NextId \in Ids
      BY <2>3, <3>1, InsertedRow
    <3>3. odd' \subseteq Odd
      BY <2>3 DEF Inserted, TypeInv, OthersType, Odd
    <3> DEFINE r == [request[b] EXCEPT !.pc = "link", !.uid = NextId, !.sv = 1]
    <3>4. request' = [request EXCEPT ![b] = r]
      BY <2>3
    <3>5. r \in Request /\ r.pc = "link" /\ r.what = i /\ r.uid = NextId /\ r.kind = "oidc"
      BY <1>0, <1>4, <3>2 DEF Request, Stages, CreateSsoUser, At
    <3> HIDE DEF r
    <3>6. RequestOK(r)
      BY <2>1, <3>2, <3>5 DEF RequestOK
    <3>7. RequestType'
      BY <3>4, <3>5, <3>6, Answered DEF TypeInv
    <3> QED BY <1>4, <3>2, <3>3, <3>7 DEF CreateSsoUser, TypeInv, OthersType
  <2> QED BY <1>4, <2>2, <2>3 DEF CreateSsoUser
<1>5. CASE AskLink(b)
  <2>1. UsersType' /\ OthersType'
    BY <1>5 DEF AskLink, TypeInv, UsersType, OthersType, tables
  <2>2. ASSUME NEW i \in Identities, SessionUser(cookie[b]), cookie[b].uid = request[b].uid,
               request' = [request EXCEPT ![b].pc = "link", ![b].what = i]
        PROVE  RequestType'
    <3> DEFINE r == [request[b] EXCEPT !.pc = "link", !.what = i]
    <3>1. request' = [request EXCEPT ![b] = r]
      BY <2>2
    <3>2. request[b].uid \in Ids
      BY <2>2 DEF SessionUser, Exists
    <3>3. r \in Request /\ r.pc = "link" /\ r.what = i /\ r.uid = request[b].uid /\ r.kind = "link"
      BY <1>0, <1>5 DEF Request, Stages, AskLink, At
    <3> HIDE DEF r
    <3>4. RequestOK(r)
      BY <3>2, <3>3 DEF RequestOK
    <3> QED BY <3>1, <3>3, <3>4, Answered DEF TypeInv
  <2> QED BY <1>5, <2>1, <2>2, Ended DEF AskLink, TypeInv
<1>6. CASE Link(b)
  <2> DEFINE id == request[b].uid  i == request[b].what
  <2>1. i \in Identities /\ id \in Ids
    BY <1>0, <1>6 DEF Link, RequestOK
  <2>2. RequestType'
    BY <1>6, Ended, Moved DEF Link, TypeInv, Stages
  <2>3. links' \in [Identities -> [id : {0} \cup Ids, how : {"none", "oidc", "link"}]]
    <3>1. CASE links' = links
      BY <3>1 DEF TypeInv, OthersType
    <3>2. CASE links' # links
      <4>1. request[b].kind \in {"oidc", "link"}
        BY <1>0, <1>6 DEF Link, RequestOK
      <4>2. [id |-> id, how |-> request[b].kind] \in [id : {0} \cup Ids, how : {"none", "oidc", "link"}]
        BY <2>1, <4>1
      <4>3. links' = [links EXCEPT ![i] = [id |-> id, how |-> request[b].kind]]
        BY <1>6, <3>2 DEF Link
      <4> QED BY <4>2, <4>3 DEF TypeInv, OthersType
    <3> QED BY <3>1, <3>2
  <2> QED BY <1>6, <2>2, <2>3 DEF Link, TypeInv, UsersType, OthersType
<1>7. CASE Unlink(b)
  <2>1. links' \in [Identities -> [id : {0} \cup Ids, how : {"none", "oidc", "link"}]]
    BY <1>7 DEF Unlink, TypeInv, OthersType, NoLink
  <2> QED BY <1>7, <2>1, Ended DEF Unlink, TypeInv, UsersType, OthersType
<1> QED BY <1>1, <1>2, <1>3, <1>4, <1>5, <1>6, <1>7

LEMMA TypesStep == TypeInv /\ [Next]_vars => TypeInv'
<1> SUFFICES ASSUME TypeInv, [Next]_vars PROVE TypeInv'
  OBVIOUS
<1>1. CASE UNCHANGED vars
  BY <1>1 DEF vars, tables, TypeInv, UsersType, RequestType, OthersType
<1>2. CASE Next
  BY <1>2, ArriveTypes, AdminTypes, PasswordTypes, SsoTypes DEF Next
<1> QED BY <1>1, <1>2

-----------------------------------------------------------------------------
(* An administrator remains. A request that is about to take a role away   *)
(* saw another admin; while nobody's admins changed under such a request,  *)
(* that one is still there. Without an admin nobody can ask for accounts.  *)

Hedge == odd \cap {"overlapping admins", "before setup"} # {}

Takes(r) == r.pc = "write" /\ (r.kind = "remove" \/ (r.kind = "role" /\ r.what = "member"))
AnotherSeen(r) == Takes(r) /\ r.target \in r.admins => \E a \in r.admins : a # r.target
OthersSeen == \A b \in Browsers : AnotherSeen(request[b])

AdminOrNothing ==
  Admins = {} => Hedge \/ (Accounts = {} /\ \A b \in Browsers : request[b].kind \notin AdminKinds)

(* What a step of request b leaves alone.                                  *)
Step(b) ==
  \/ \E kind \in AdminKinds \cup OwnKinds \cup OpenKinds : Arrive(b, kind)
  \/ CheckRole(b) \/ SetRole(b) \/ CheckRemove(b) \/ RemoveUser(b)
  \/ CreateUser(b) \/ SetEmail(b) \/ CheckOwner(b) \/ AssignOwner(b)
  \/ CheckSetup(b) \/ SetupSubmit(b)
  \/ Authenticate(b) \/ Rehash(b) \/ StartSession(b) \/ Logout(b)
  \/ ChangePassword(b) \/ RestartSession(b)
  \/ FindLinkedUser(b) \/ CheckGroup(b) \/ ResolveByEmail(b) \/ CreateSsoUser(b)
  \/ AskLink(b) \/ Link(b) \/ Unlink(b)

LEMMA OthersWait ==
  ASSUME TypeInv, NEW b \in Browsers, Step(b)
  PROVE  \A c \in Browsers \ {b} : request'[c] = request[c]
<1>1. request \in [Browsers -> Request]
  BY DEF TypeInv, RequestType
<1>2. CASE \E kind \in AdminKinds \cup OwnKinds \cup OpenKinds : Arrive(b, kind)
  BY <1>1, <1>2 DEF Arrive
<1>3. CASE CheckRole(b) \/ SetRole(b) \/ CheckRemove(b) \/ RemoveUser(b)
  BY <1>1, <1>3 DEF CheckRole, SetRole, CheckRemove, RemoveUser, Ends
<1>4. CASE CreateUser(b) \/ SetEmail(b) \/ CheckOwner(b) \/ AssignOwner(b) \/ CheckSetup(b) \/ SetupSubmit(b)
  BY <1>1, <1>4 DEF CreateUser, SetEmail, CheckOwner, AssignOwner, CheckSetup, SetupSubmit, Ends, Moves
<1>5. CASE Authenticate(b) \/ Rehash(b) \/ StartSession(b) \/ Logout(b) \/ ChangePassword(b) \/ RestartSession(b)
  BY <1>1, <1>5 DEF Authenticate, Rehash, StartSession, Logout, ChangePassword, RestartSession, Ends, Moves
<1>6. CASE FindLinkedUser(b) \/ CheckGroup(b) \/ ResolveByEmail(b) \/ CreateSsoUser(b)
  BY <1>1, <1>6 DEF FindLinkedUser, CheckGroup, ResolveByEmail, CreateSsoUser, Ends, Moves
<1>7. CASE AskLink(b) \/ Link(b) \/ Unlink(b)
  BY <1>1, <1>7 DEF AskLink, Link, Unlink, Ends, Moves
<1> QED BY <1>2, <1>3, <1>4, <1>5, <1>6, <1>7 DEF Step

(* A request keeps its kind to its end.                                    *)
LEMMA KindKept ==
  ASSUME TypeInv, NEW b \in Browsers, Step(b)
  PROVE  \/ request'[b].kind \in {request[b].kind, "none"}
         \/ \E kind \in AdminKinds \cup OwnKinds \cup OpenKinds : Arrive(b, kind) /\ request'[b].kind = kind
<1>1. request \in [Browsers -> Request] /\ request[b] \in Request
  BY DEF TypeInv, RequestType
<1>2. Ends(b) => request'[b].kind = "none"
  BY <1>1 DEF Ends, NoRequest
<1>3. ASSUME NEW pc, Moves(b, pc) PROVE request'[b].kind = request[b].kind
  BY <1>1, <1>3 DEF Moves, Request
<1>4. ASSUME NEW kind \in AdminKinds \cup OwnKinds \cup OpenKinds, Arrive(b, kind)
      PROVE  request'[b].kind = kind
  BY <1>1, <1>4 DEF Arrive, NoRequest
<1>5. ASSUME SetRole(b) \/ RemoveUser(b) \/ CreateUser(b) PROVE request'[b].kind \in {request[b].kind, "none"}
  BY <1>1, <1>2, <1>3, <1>5 DEF SetRole, RemoveUser, CreateUser, Request
<1>6. ASSUME SetEmail(b) \/ AssignOwner(b) \/ CheckSetup(b) \/ SetupSubmit(b) PROVE request'[b].kind \in {request[b].kind, "none"}
  BY <1>1, <1>2, <1>3, <1>6 DEF SetEmail, AssignOwner, CheckSetup, SetupSubmit, Request
<1>7. ASSUME Rehash(b) \/ StartSession(b) \/ Logout(b) \/ RestartSession(b) PROVE request'[b].kind \in {request[b].kind, "none"}
  BY <1>1, <1>2, <1>3, <1>7 DEF Rehash, StartSession, Logout, RestartSession, Request
<1>8. ASSUME CheckGroup(b) \/ Link(b) \/ Unlink(b) PROVE request'[b].kind \in {request[b].kind, "none"}
  BY <1>1, <1>2, <1>3, <1>8 DEF CheckGroup, Link, Unlink, Request
<1>9. ASSUME CheckRole(b) PROVE request'[b].kind \in {request[b].kind, "none"}
  BY <1>1, <1>2, <1>3, <1>9 DEF CheckRole, Request
<1>10. ASSUME CheckRemove(b) PROVE request'[b].kind \in {request[b].kind, "none"}
  BY <1>1, <1>2, <1>3, <1>10 DEF CheckRemove, Request
<1>11. ASSUME CheckOwner(b) PROVE request'[b].kind \in {request[b].kind, "none"}
  BY <1>1, <1>2, <1>3, <1>11 DEF CheckOwner, Request
<1>12. ASSUME Authenticate(b) PROVE request'[b].kind \in {request[b].kind, "none"}
  <2>1. ASSUME NEW pc, NEW id, NEW sv, NEW knows,
               request' = [request EXCEPT ![b].pc = pc, ![b].uid = id, ![b].sv = sv, ![b].knows = knows]
        PROVE  request'[b].kind = request[b].kind
    BY <1>1, <2>1 DEF Request
  <2>2. ASSUME NEW id \in Accounts,
               request' = [request EXCEPT ![b].pc = IF users[id].outdated THEN "rehash" ELSE "verified",
                             ![b].uid = id, ![b].sv = users[id].sv, ![b].knows = users[id].password]
        PROVE  request'[b].kind = request[b].kind
    BY <2>1, <2>2
  <2> QED BY <1>2, <1>12, <2>2 DEF Authenticate
<1>13. ASSUME ChangePassword(b) PROVE request'[b].kind \in {request[b].kind, "none"}
  BY <1>1, <1>2, <1>3, <1>13 DEF ChangePassword, Request
<1>14. ASSUME FindLinkedUser(b) PROVE request'[b].kind \in {request[b].kind, "none"}
  BY <1>1, <1>2, <1>3, <1>14 DEF FindLinkedUser, Request
<1>15. ASSUME ResolveByEmail(b) PROVE request'[b].kind \in {request[b].kind, "none"}
  <2>1. ASSUME NEW id, NEW sv, request' = [request EXCEPT ![b].pc = "link", ![b].uid = id, ![b].sv = sv]
        PROVE  request'[b].kind = request[b].kind
    BY <1>1, <2>1 DEF Request
  <2> QED BY <1>2, <1>3, <1>15, <2>1 DEF ResolveByEmail
<1>16. ASSUME CreateSsoUser(b) PROVE request'[b].kind \in {request[b].kind, "none"}
  <2>1. ASSUME NEW id, NEW sv, request' = [request EXCEPT ![b].pc = "link", ![b].uid = id, ![b].sv = sv]
        PROVE  request'[b].kind = request[b].kind
    BY <1>1, <2>1 DEF Request
  <2> QED BY <1>2, <1>16, <2>1 DEF CreateSsoUser
<1>17. ASSUME AskLink(b) PROVE request'[b].kind \in {request[b].kind, "none"}
  BY <1>1, <1>2, <1>3, <1>17 DEF AskLink, Request
<1> QED BY <1>4, <1>5, <1>6, <1>7, <1>8, <1>9, <1>10, <1>11, <1>12, <1>13, <1>14, <1>15, <1>16, <1>17 DEF Step

(* Nothing that happened is forgotten.                                     *)
LEMMA OddGrows ==
  ASSUME NEW b \in Browsers, Step(b)
  PROVE  odd \subseteq odd'
BY DEF Step, Arrive, CheckRole, SetRole, CheckRemove, RemoveUser, CreateUser, Inserted, SetEmail, CheckOwner,
   AssignOwner, CheckSetup, SetupSubmit, Authenticate, Rehash, StartSession, Logout, ChangePassword,
   RestartSession, FindLinkedUser, CheckGroup, ResolveByEmail, CreateSsoUser, AskLink, Link, Unlink

(* Only three statements insert a row, and only two others touch a role.   *)
Inserts(b) == CreateUser(b) \/ SetupSubmit(b) \/ CreateSsoUser(b)

LEMMA RowsKept ==
  ASSUME TypeInv, TypeInv', NEW b \in Browsers, Step(b), ~SetRole(b), ~RemoveUser(b), ~Inserts(b)
  PROVE  Accounts' = Accounts /\ Admins' = Admins
<1>0. UsersType /\ UsersType'
  BY DEF TypeInv
<1>1. CASE users' = users
  BY <1>0, <1>1, SameRoles
<1>2. ASSUME NEW id \in Ids, NEW password \in 0 .. MaxPassword, NEW email \in Emails \cup {"none"}, NEW sv \in Nat,
             Exists(id),
             \/ users' = [users EXCEPT ![id].password = password, ![id].outdated = FALSE]
             \/ users' = [users EXCEPT ![id].password = password, ![id].sv = sv, ![id].outdated = FALSE]
             \/ users' = [users EXCEPT ![id].email = email]
      PROVE  Accounts' = Accounts /\ Admins' = Admins
  BY <1>0, <1>2, RowEdited
<1>3. request[b] \in Request /\ 0 \in 0 .. MaxPassword /\ "none" \in Emails \cup {"none"} /\ 0 \in Nat
  BY AccountsAssumption DEF TypeInv, RequestType
<1>4. CASE SetEmail(b)
  <2>1. PICK id \in Accounts, email \in Emails :
          users' = IF WithEmail(email) \subseteq {id} THEN [users EXCEPT ![id].email = email] ELSE users
    BY <1>4 DEF SetEmail
  <2>2. id \in Ids /\ Exists(id) /\ email \in Emails \cup {"none"}
    BY DEF Accounts
  <2> QED BY <1>1, <1>2, <1>3, <2>1, <2>2
<1>5. CASE Rehash(b)
  <2>1. Exists(request[b].uid) => request[b].uid \in Ids /\ request[b].knows \in 0 .. MaxPassword
    BY <1>3 DEF Exists, Request
  <2> QED BY <1>1, <1>2, <1>3, <1>5, <2>1 DEF Rehash
<1>6. CASE ChangePassword(b)
  <2> DEFINE id == request[b].uid  new == NextPassword
  <2>1. Exists(id) => id \in Ids /\ new \in 0 .. MaxPassword
    BY <1>6, NextPasswordType, AccountsAssumption DEF ChangePassword, TypeInv, Exists
  <2>2. Exists(id) => users[id].sv + 1 \in Nat
    BY <1>0, <2>1 DEF UsersType, User
  <2>3. Exists(id) => users' = [users EXCEPT ![id].password = new, ![id].sv = users[id].sv + 1, ![id].outdated = FALSE]
    BY <1>6 DEF ChangePassword
  <2>4. ~Exists(id) => users' = users
    BY <1>6 DEF ChangePassword
  <2> HIDE DEF id, new
  <2> QED BY <1>1, <1>2, <1>3, <2>1, <2>2, <2>3, <2>4
<1>7. CASE ~SetEmail(b) /\ ~Rehash(b) /\ ~ChangePassword(b)
  <2>1. users' = users
    BY <1>7 DEF Step, Inserts, Arrive, CheckRole, CheckRemove, CheckOwner, AssignOwner, CheckSetup,
       Authenticate, StartSession, Logout, RestartSession, FindLinkedUser, CheckGroup,
       ResolveByEmail, AskLink, Link, Unlink, tables
  <2> QED BY <1>1, <2>1
<1> QED BY <1>4, <1>5, <1>6, <1>7

LEMMA RowInserted ==
  ASSUME TypeInv, TypeInv', NEW b \in Browsers, Inserts(b)
  PROVE  \/ Accounts' = Accounts /\ Admins' = Admins
         \/ /\ NextId \in Ids \ Accounts /\ Accounts' = Accounts \cup {NextId}
            /\ \/ Admins' = Admins \cup {NextId}
               \/ /\ Admins' = Admins
                  /\ \/ request[b].kind = "create"
                     \/ Accounts = {} => "before setup" \in odd'
<1>1. CASE users' = users
  BY <1>1, SameRoles DEF TypeInv
<1>2. ASSUME NEW role \in Roles, NEW email \in Emails, NEW password \in 0 .. MaxPassword, NEW what,
             Inserted(role, email, password, what)
      PROVE  /\ NextId \in Ids \ Accounts /\ Accounts' = Accounts \cup {NextId}
             /\ Admins' = IF role = "admin" THEN Admins \cup {NextId} ELSE Admins
             /\ what \subseteq odd'
  <2>1. what \subseteq odd'
    BY <1>2 DEF Inserted
  <2> QED BY <1>2, <2>1, InsertedRow
<1>3. NextPassword <= MaxPassword => NextPassword \in 0 .. MaxPassword
  BY NextPasswordType, AccountsAssumption DEF TypeInv
<1>4. CASE CreateUser(b)
  BY <1>1, <1>2, <1>3, <1>4 DEF CreateUser, At
<1>5. CASE SetupSubmit(b)
  <2>1. "admin" \in Roles
    BY DEF Roles
  <2> QED BY <1>1, <1>2, <1>3, <1>5, <2>1 DEF SetupSubmit
<1>6. CASE CreateSsoUser(b)
  <2> DEFINE i == request[b].what
             what == IF Accounts = {} THEN {"before setup"} ELSE {}
  <2>1. i \in Identities
    BY <1>6 DEF CreateSsoUser, At, TypeInv, RequestType, RequestOK
  <2>2. ClaimedEmail[i] \in Emails /\ 0 \in 0 .. MaxPassword /\ "member" \in Roles
    BY <2>1, AccountsAssumption DEF Roles
  <2>3. users' = users \/ Inserted("member", ClaimedEmail[i], 0, what)
    BY <1>6 DEF CreateSsoUser
  <2>4. Accounts = {} => "before setup" \in what
    OBVIOUS
  <2> HIDE DEF what
  <2> QED BY <1>1, <1>2, <2>2, <2>3, <2>4
<1> QED BY <1>4, <1>5, <1>6 DEF Inserts

LEMMA AnotherAdmin ==
  ASSUME UsersType, NEW id \in Admins, ~LastAdmin(id)
  PROVE  \E a \in Admins : a # id
<1> SUFFICES ASSUME Admins = {id} PROVE FALSE
  OBVIOUS
<1>1. Cardinality(Admins) = 1
  BY FS_Singleton
<1> QED BY <1>1 DEF LastAdmin

(* A request that is not one of the two takes nothing.                     *)
LEMMA TakesNothing ==
  ASSUME TypeInv, NEW b \in Browsers, Step(b), ~CheckRole(b), ~CheckRemove(b)
  PROVE  ~Takes(request'[b])
<1>1. request \in [Browsers -> Request] /\ request[b] \in Request
  BY DEF TypeInv, RequestType
<1>2. Ends(b) => request'[b].pc = "none"
  BY <1>1 DEF Ends, NoRequest
<1>3. ASSUME NEW pc, Moves(b, pc) PROVE request'[b].pc = pc /\ request'[b].kind = request[b].kind
  BY <1>1, <1>3 DEF Moves, Request
<1>4. ASSUME NEW kind \in AdminKinds \cup OwnKinds \cup OpenKinds, Arrive(b, kind)
      PROVE  request'[b].pc = "begin"
  BY <1>1, <1>4 DEF Arrive, NoRequest
<1>5. ASSUME NEW pc, NEW uid, NEW sv, NEW knows,
             \/ request' = [request EXCEPT ![b].pc = pc, ![b].uid = uid, ![b].sv = sv, ![b].knows = knows]
             \/ request' = [request EXCEPT ![b].pc = pc, ![b].uid = uid, ![b].sv = sv]
             \/ request' = [request EXCEPT ![b].pc = pc, ![b].knows = knows]
      PROVE  request'[b].pc = pc
  BY <1>1, <1>5 DEF Request
<1>6. ASSUME SetRole(b) \/ RemoveUser(b) \/ CreateUser(b) \/ SetEmail(b) \/ AssignOwner(b) \/ SetupSubmit(b)
      PROVE  request'[b].pc = "none"
  BY <1>2, <1>6 DEF SetRole, RemoveUser, CreateUser, SetEmail, AssignOwner, SetupSubmit
<1>7. ASSUME StartSession(b) \/ Logout(b) \/ RestartSession(b) \/ Unlink(b)
      PROVE  request'[b].pc = "none"
  BY <1>2, <1>7 DEF StartSession, Logout, RestartSession, Unlink
<1>8. ASSUME Rehash(b) \/ CheckGroup(b) \/ Link(b) PROVE request'[b].pc # "write"
  <2>1. Rehash(b) => request'[b].pc = "verified"
    BY <1>3 DEF Rehash
  <2>2. ASSUME CheckGroup(b) PROVE request'[b].pc \in {"none", "email", "signed"}
    <3> DEFINE pc == IF request[b].uid = 0 THEN "email" ELSE "signed"
    <3>1. Moves(b, pc) \/ Ends(b)
      BY <2>2 DEF CheckGroup
    <3>2. pc \in {"email", "signed"}
      OBVIOUS
    <3> HIDE DEF pc
    <3> QED BY <1>2, <1>3, <3>1, <3>2
  <2>3. Link(b) => Moves(b, "signed") \/ Ends(b)
    BY DEF Link
  <2> QED BY <1>2, <1>3, <1>8, <2>1, <2>2, <2>3
<1>9. ASSUME CheckOwner(b) PROVE request'[b].kind = "assign"
  BY <1>1, <1>9 DEF CheckOwner, At, Request
<1>10. ASSUME CheckSetup(b) PROVE request'[b].pc = "none" \/ request'[b].kind = "setup"
  BY <1>2, <1>3, <1>10 DEF CheckSetup, At
<1>11. ASSUME Authenticate(b) PROVE request'[b].pc # "write"
  <2>1. ASSUME NEW id \in Accounts,
               request' = [request EXCEPT ![b].pc = IF users[id].outdated THEN "rehash" ELSE "verified",
                             ![b].uid = id, ![b].sv = users[id].sv, ![b].knows = users[id].password]
        PROVE  request'[b].pc = IF users[id].outdated THEN "rehash" ELSE "verified"
    BY ZenonT(30), <1>5, <2>1
  <2> QED BY <1>2, <1>11, <2>1 DEF Authenticate
<1>12. ASSUME ChangePassword(b) PROVE request'[b].pc # "write"
  BY <1>2, <1>5, <1>12 DEF ChangePassword
<1>13. ASSUME FindLinkedUser(b) PROVE request'[b].pc # "write"
  BY <1>1, <1>13 DEF FindLinkedUser, Request
<1>14. ASSUME ResolveByEmail(b) PROVE request'[b].pc # "write"
  <2>1. ASSUME NEW id, NEW sv, request' = [request EXCEPT ![b].pc = "link", ![b].uid = id, ![b].sv = sv]
        PROVE  request'[b].pc = "link"
    BY <1>5, <2>1
  <2>2. \/ Moves(b, "register") \/ Ends(b)
        \/ \E id \in Accounts :
             request' = [request EXCEPT ![b].pc = "link", ![b].uid = id, ![b].sv = users[id].sv]
    BY <1>14 DEF ResolveByEmail, WithEmail
  <2>3. request'[b].pc \in {"register", "none", "link"}
    BY <1>2, <1>3, <2>1, <2>2
  <2> QED BY <2>3
<1>15. ASSUME CreateSsoUser(b) PROVE request'[b].pc # "write"
  <2>1. ASSUME NEW id, NEW sv, request' = [request EXCEPT ![b].pc = "link", ![b].uid = id, ![b].sv = sv]
        PROVE  request'[b].pc = "link"
    BY <1>5, <2>1
  <2> QED BY <1>2, <1>15, <2>1 DEF CreateSsoUser
<1>16. ASSUME AskLink(b) PROVE request'[b].pc # "write"
  BY <1>1, <1>2, <1>16 DEF AskLink, Request
<1> QED BY <1>4, <1>6, <1>7, <1>8, <1>9, <1>10, <1>11, <1>12, <1>13, <1>14, <1>15, <1>16 DEF Step, Takes

LEMMA OthersSeenStep ==
  ASSUME TypeInv, OthersSeen, NEW b \in Browsers, Step(b)
  PROVE  OthersSeen'
<1>1. request \in [Browsers -> Request] /\ request[b] \in Request /\ UsersType
  BY DEF TypeInv, RequestType
<1>2. AnotherSeen(request'[b])
  <2>1. CASE ~CheckRole(b) /\ ~CheckRemove(b)
    BY <2>1, TakesNothing DEF AnotherSeen
  <2>2. CASE CheckRole(b)
    <3>1. PICK id \in Accounts, role \in Roles :
            IF role = "member" /\ LastAdmin(id) THEN Ends(b)
            ELSE request' = [request EXCEPT ![b].pc = "write", ![b].target = id, ![b].what = role,
                                            ![b].admins = Admins]
      BY <2>2 DEF CheckRole
    <3>2. CASE Ends(b)
      BY <1>1, <3>2 DEF Ends, NoRequest, AnotherSeen, Takes
    <3>3. CASE /\ ~(role = "member" /\ LastAdmin(id))
               /\ request' = [request EXCEPT ![b].pc = "write", ![b].target = id, ![b].what = role,
                                            ![b].admins = Admins]
      <4>1. request'[b].kind = "role" /\ request'[b].what = role /\ request'[b].target = id /\ request'[b].admins = Admins
        BY <1>1, <2>2, <3>3 DEF CheckRole, At, Request
      <4>2. role = "member" /\ id \in Admins => \E a \in Admins : a # id
        BY <1>1, <3>3, AnotherAdmin
      <4> QED BY <4>1, <4>2 DEF AnotherSeen, Takes
    <3> QED BY <3>1, <3>2, <3>3
  <2>3. CASE CheckRemove(b)
    <3>1. PICK id \in Accounts :
            IF Removable(b, id)
            THEN request' = [request EXCEPT ![b].pc = "write", ![b].target = id, ![b].admins = Admins,
                                            ![b].owner = owner]
            ELSE Ends(b)
      BY <2>3 DEF CheckRemove
    <3>2. CASE Ends(b)
      BY <1>1, <3>2 DEF Ends, NoRequest, AnotherSeen, Takes
    <3>3. CASE /\ Removable(b, id)
               /\ request' = [request EXCEPT ![b].pc = "write", ![b].target = id, ![b].admins = Admins,
                                            ![b].owner = owner]
      <4>1. request'[b].target = id /\ request'[b].admins = Admins
        BY <1>1, <3>3 DEF Request
      <4>2. id \in Admins => \E a \in Admins : a # id
        BY <1>1, <3>3, AnotherAdmin DEF Removable
      <4> QED BY <4>1, <4>2 DEF AnotherSeen
    <3> QED BY <3>1, <3>2, <3>3
  <2> QED BY <2>1, <2>2, <2>3
<1> QED BY <1>2, OthersWait DEF OthersSeen

LEMMA AdminOrNothingStep ==
  ASSUME TypeInv, TypeInv', OthersSeen, AdminOrNothing, NEW b \in Browsers, Step(b)
  PROVE  AdminOrNothing'
<1>1. Hedge => Hedge'
  BY OddGrows DEF Hedge
<1>2. CASE Admins = {} /\ Hedge
  BY <1>1, <1>2 DEF AdminOrNothing
<1>3. CASE Admins = {} /\ ~Hedge
  <2>1. Accounts = {} /\ \A c \in Browsers : request[c].kind \notin AdminKinds
    BY <1>3 DEF AdminOrNothing
  <2>2. \A c \in Browsers : request'[c].kind \notin AdminKinds
    <3>1. \A kind \in AdminKinds : ~Arrive(b, kind)
      BY <1>3 DEF Arrive, AdminKinds, OwnKinds, OpenKinds
    <3>2. request'[b].kind \notin AdminKinds
      BY <2>1, <3>1, KindKept DEF AdminKinds
    <3> QED BY <2>1, <3>2, OthersWait
  <2>3. ~SetRole(b) /\ ~RemoveUser(b) /\ request[b].kind # "create"
    BY <2>1 DEF SetRole, RemoveUser, At, AdminKinds
  <2>4. CASE Inserts(b)
    BY <2>1, <2>2, <2>3, <2>4, RowInserted DEF AdminOrNothing, Hedge
  <2>5. CASE ~Inserts(b)
    BY <2>1, <2>2, <2>3, <2>5, RowsKept DEF AdminOrNothing
  <2> QED BY <2>4, <2>5
<1>4. CASE Admins # {}
  <2>1. CASE Inserts(b)
    BY <1>4, <2>1, RowInserted DEF AdminOrNothing
  <2>2. CASE SetRole(b) \/ RemoveUser(b)
    <3> DEFINE id == request[b].target
    <3>1. (Admins' = Admins \ {id} /\ Takes(request[b])) \/ Admins \subseteq Admins'
      BY <2>2, SetRoleRow, RemoveUserRow DEF SetRole, RemoveUser, At, Takes, Roles, TypeInv, RequestType, RequestOK
    <3>2. request[b].admins = Admins \/ "overlapping admins" \in odd'
      BY <2>2 DEF SetRole, RemoveUser, Overlapped
    <3>3. CASE "overlapping admins" \in odd'
      BY <3>3 DEF AdminOrNothing, Hedge
    <3>4. CASE request[b].admins = Admins /\ Takes(request[b]) /\ Admins' = Admins \ {id}
      <4>1. id \in Admins => \E a \in Admins : a # id
        BY <3>4 DEF OthersSeen, AnotherSeen
      <4> QED BY <1>4, <3>4, <4>1 DEF AdminOrNothing
    <3> QED BY <1>4, <3>1, <3>2, <3>3, <3>4 DEF AdminOrNothing
  <2>3. CASE ~Inserts(b) /\ ~SetRole(b) /\ ~RemoveUser(b)
    BY <1>4, <2>3, RowsKept DEF AdminOrNothing
  <2> QED BY <2>1, <2>2, <2>3
<1> QED BY <1>2, <1>3, <1>4

AdminInv == TypeInv /\ OthersSeen /\ AdminOrNothing

LEMMA AdminInvAlways == Spec => []AdminInv
<1>1. Init => AdminInv
  <2> SUFFICES ASSUME Init PROVE AdminInv
    OBVIOUS
  <2>1. TypeInv
    BY TypesInit
  <2>2. \A b \in Browsers : request[b] = NoRequest
    BY DEF Init
  <2>3. OthersSeen
    BY <2>2 DEF OthersSeen, AnotherSeen, Takes, NoRequest
  <2>4. ASSUME Accounts = {} PROVE AdminOrNothing
    BY <2>2, <2>4 DEF AdminOrNothing, NoRequest, AdminKinds
  <2>5. ASSUME Accounts # {} PROVE AdminOrNothing
    <3>1. PICK id \in Accounts : TRUE
      BY <2>5
    <3>2. users[id] # NoUser /\ id \in Ids
      BY DEF Accounts, Exists
    <3>3. users[id].role = "admin"
      BY <3>2 DEF Init
    <3>4. Admins # {}
      BY <3>3 DEF Admins
    <3> QED BY <3>4 DEF AdminOrNothing
  <2> QED BY <2>1, <2>3, <2>4, <2>5 DEF AdminInv
<1>2. AdminInv /\ [Next]_vars => AdminInv'
  <2> SUFFICES ASSUME AdminInv, [Next]_vars PROVE AdminInv'
    OBVIOUS
  <2>1. TypeInv /\ TypeInv' /\ OthersSeen /\ AdminOrNothing
    BY TypesStep DEF AdminInv
  <2>2. CASE UNCHANGED vars
    BY <2>1, <2>2 DEF vars, tables, AdminInv, OthersSeen, AnotherSeen, Takes, AdminOrNothing, Hedge, Admins,
       Accounts, Exists
  <2>3. CASE \E b \in Browsers : Step(b)
    BY <2>1, <2>3, OthersSeenStep, AdminOrNothingStep DEF AdminInv
  <2> QED BY <2>2, <2>3 DEF Next, Step
<1> QED BY <1>1, <1>2, PTL DEF Spec

(* users_change_role and users_remove (app.py): whatever requests overlap, *)
(* the accounts there are have an administrator - except where the admins  *)
(* changed between the check and the write of a request, or a sign-on came *)
(* before the first set-up.                                                *)
THEOREM AdminRemainsAlways == Spec => []AdminRemains
<1>1. AdminInv => AdminRemains
  BY DEF AdminInv, AdminOrNothing, AdminRemains, Hedge
<1> QED BY <1>1, AdminInvAlways, PTL

-----------------------------------------------------------------------------
(* An account that owns a device stays.                                    *)

OwnerSeen == \A b \in Browsers : At(b, "remove", "write") => request[b].owner # request[b].target

LEMMA OwnerSeenStep ==
  ASSUME TypeInv, OwnerSeen, NEW b \in Browsers, Step(b)
  PROVE  OwnerSeen'
<1>1. request \in [Browsers -> Request] /\ request[b] \in Request
  BY DEF TypeInv, RequestType
<1>2. request'[b].kind = "remove" /\ request'[b].pc = "write" => request'[b].owner # request'[b].target
  <2>1. CASE ~CheckRole(b) /\ ~CheckRemove(b)
    BY <2>1, TakesNothing DEF Takes
  <2>2. CASE CheckRole(b)
    <3>1. request[b].kind = "role" /\ request[b] # NoRequest
      BY <2>2 DEF CheckRole, At, NoRequest
    <3>2. \A kind : ~Arrive(b, kind)
      BY <3>1 DEF Arrive
    <3> QED BY <3>1, <3>2, KindKept
  <2>3. CASE CheckRemove(b)
    <3>1. PICK id \in Accounts :
            IF Removable(b, id)
            THEN request' = [request EXCEPT ![b].pc = "write", ![b].target = id, ![b].admins = Admins,
                                            ![b].owner = owner]
            ELSE Ends(b)
      BY <2>3 DEF CheckRemove
    <3>2. CASE Ends(b)
      BY <1>1, <3>2 DEF Ends, NoRequest
    <3>3. CASE /\ Removable(b, id)
               /\ request' = [request EXCEPT ![b].pc = "write", ![b].target = id, ![b].admins = Admins,
                                            ![b].owner = owner]
      BY <1>1, <3>3 DEF Request, Removable
    <3> QED BY <3>1, <3>2, <3>3
  <2> QED BY <2>1, <2>2, <2>3
<1> QED BY <1>2, OthersWait DEF OwnerSeen, At

(* users_remove (app.py): it takes no account that owns a device, unless   *)
(* the device was assigned after its devices were counted.                 *)
THEOREM OwnersRemainAlways == Spec => OwnersRemain
<1> DEFINE Inv == TypeInv /\ OwnerSeen
           Stays == \A id \in Ids : Exists(id) /\ owner = id /\ users'[id] = NoUser => "assigned meanwhile" \in odd'
<1>1. Init => Inv
  <2>1. Init => OwnerSeen
    BY DEF Init, OwnerSeen, At, NoRequest
  <2> QED BY <2>1, TypesInit
<1>2. Inv /\ [Next]_vars => Inv'
  <2>1. Inv /\ UNCHANGED vars => OwnerSeen'
    BY DEF vars, OwnerSeen, At
  <2>2. ASSUME Inv, NEW b \in Browsers, Step(b) PROVE OwnerSeen'
    BY <2>2, OwnerSeenStep
  <2> QED BY <2>1, <2>2, TypesStep DEF Next, Step
<1>3. Inv /\ [Next]_vars => [Stays]_vars
  <2> SUFFICES ASSUME Inv, NEW b \in Browsers, Step(b), NEW id \in Ids, Exists(id), owner = id, users'[id] = NoUser
               PROVE  "assigned meanwhile" \in odd'
    BY DEF Next, Step
  <2>1. TypeInv /\ TypeInv'
    BY TypesStep DEF Next, Step
  <2>2. id \in Accounts /\ id \notin Accounts'
    BY DEF Accounts, Exists
  <2>3. ~SetRole(b)
    BY <2>1, <2>2, SetRoleRow
  <2>4. RemoveUser(b)
    BY <2>1, <2>2, <2>3, RowsKept, RowInserted
  <2>5. id = request[b].target
    BY <2>1, <2>2, <2>4, RemoveUserRow
  <2>6. request[b].owner # owner
    BY <2>4, <2>5 DEF OwnerSeen, RemoveUser
  <2> QED BY <2>4, <2>6 DEF RemoveUser
<1> QED BY <1>1, <1>2, <1>3, PTL DEF Spec, OwnersRemain

-----------------------------------------------------------------------------
(* One identity by address. Between the check that an account has no other *)
(* identity and the link, no other callback runs; what the threads do      *)
(* meanwhile only takes links away, and a new row has none.                *)

InLoop == {"email", "register", "link", "signed"}

Referred == owner \in {0} \cup Accounts /\ \A i \in Identities : links[i].id \in {0} \cup Accounts
Alone == \A b, c \in Browsers : request[b].pc \in InLoop /\ request[c].pc \in InLoop => b = c
ByAddress(link, id) == link.id = id /\ link.how = "oidc"
Claimed ==
  \A b \in Browsers : request[b].kind = "oidc" /\ request[b].pc = "link" =>
    \A i \in Identities : ByAddress(links[i], request[b].uid) => i = request[b].what
OneEach == \A id \in Ids, i, j \in Identities : ByAddress(links[i], id) /\ ByAddress(links[j], id) => i = j

LEMMA AccountsStay ==
  ASSUME TypeInv, TypeInv', NEW b \in Browsers, Step(b), ~RemoveUser(b)
  PROVE  Accounts \subseteq Accounts'
<1>1. CASE SetRole(b)
  BY <1>1, SetRoleRow
<1>2. CASE Inserts(b)
  BY <1>2, RowInserted
<1>3. CASE ~SetRole(b) /\ ~Inserts(b)
  BY <1>3, RowsKept
<1> QED BY <1>1, <1>2, <1>3

LEMMA LinksTakenAway ==
  ASSUME TypeInv, NEW b \in Browsers, Step(b), ~Link(b)
  PROVE  \A i \in Identities : links'[i] = links[i] \/ links'[i] = NoLink
<1>1. links \in [Identities -> [id : {0} \cup Ids, how : {"none", "oidc", "link"}]]
  BY DEF TypeInv, OthersType
<1>2. CASE RemoveUser(b)
  BY <1>2 DEF RemoveUser
<1>3. CASE Unlink(b)
  BY <1>1, <1>3 DEF Unlink
<1>4. CASE ~RemoveUser(b) /\ ~Unlink(b)
  <2>1. links' = links
    BY <1>4 DEF Step, Arrive, CheckRole, SetRole, CheckRemove, CreateUser, SetEmail, CheckOwner,
       AssignOwner, CheckSetup, SetupSubmit, Authenticate, Rehash, StartSession, Logout, ChangePassword,
       RestartSession, FindLinkedUser, CheckGroup, ResolveByEmail, CreateSsoUser, AskLink, tables
  <2> QED BY <2>1
<1> QED BY <1>2, <1>3, <1>4

LEMMA ReferredStep ==
  ASSUME TypeInv, TypeInv', Referred, NEW b \in Browsers, Step(b)
  PROVE  Referred'
<1>1. CASE RemoveUser(b)
  <2>1. Accounts' = Accounts \ {request[b].target}
    BY <1>1, RemoveUserRow
  <2> QED BY <1>1, <2>1 DEF RemoveUser, Referred, NoLink
<1>2. CASE ~RemoveUser(b)
  <2>1. Accounts \subseteq Accounts'
    BY <1>2, AccountsStay
  <2>2. owner' \in {0} \cup Accounts
    <3>1. CASE AssignOwner(b)
      BY <3>1 DEF AssignOwner, Referred
    <3>2. CASE ~AssignOwner(b)
      <4>1. owner' = owner
        BY <1>2, <3>2 DEF Step, Arrive, CheckRole, SetRole, CheckRemove, CreateUser, SetEmail, CheckOwner,
           CheckSetup, SetupSubmit, Authenticate, Rehash, StartSession, Logout, ChangePassword,
           RestartSession, FindLinkedUser, CheckGroup, ResolveByEmail, CreateSsoUser, AskLink, Link, Unlink, tables
      <4> QED BY <4>1 DEF Referred
    <3> QED BY <3>1, <3>2
  <2>3. \A i \in Identities : links'[i].id \in {0} \cup Accounts
    <3>1. CASE ~Link(b)
      BY <3>1, LinksTakenAway DEF Referred, NoLink
    <3>2. CASE Link(b)
      <4> DEFINE id == request[b].uid
      <4>1. links \in [Identities -> [id : {0} \cup Ids, how : {"none", "oidc", "link"}]]
        BY DEF TypeInv, OthersType
      <4>2. links' = links \/ (id \in Accounts /\ links' = [links EXCEPT ![request[b].what] = [id |-> id, how |-> request[b].kind]])
        BY <3>2 DEF Link, Referred, Accounts, Exists
      <4> QED BY <4>1, <4>2 DEF Referred
    <3> QED BY <3>1, <3>2
  <2> QED BY <2>1, <2>2, <2>3 DEF Referred
<1> QED BY <1>1, <1>2

(* Only five steps end up in the callback's last part, ...                 *)
LEMMA OtherwiseOutside ==
  ASSUME TypeInv, NEW b \in Browsers, Step(b), request'[b].pc \in InLoop
  PROVE  CheckGroup(b) \/ AskLink(b) \/ ResolveByEmail(b) \/ CreateSsoUser(b) \/ Link(b)
<1>1. request \in [Browsers -> Request] /\ request[b] \in Request
  BY DEF TypeInv, RequestType
<1>2. ~Ends(b)
  BY <1>1 DEF Ends, NoRequest, InLoop
<1>3. ASSUME NEW pc, Moves(b, pc) PROVE pc \in InLoop
  BY <1>1, <1>3 DEF Moves, Request
<1>4. ASSUME NEW pc, NEW uid, NEW sv, NEW knows,
             \/ request' = [request EXCEPT ![b].pc = pc, ![b].uid = uid, ![b].sv = sv, ![b].knows = knows]
             \/ request' = [request EXCEPT ![b].pc = pc, ![b].knows = knows]
      PROVE  pc \in InLoop
  BY <1>1, <1>4 DEF Request
<1>5. \A kind \in AdminKinds \cup OwnKinds \cup OpenKinds : ~Arrive(b, kind)
  BY <1>1 DEF Arrive, NoRequest, InLoop
<1>6. /\ ~SetRole(b) /\ ~RemoveUser(b) /\ ~CreateUser(b) /\ ~SetEmail(b) /\ ~AssignOwner(b) /\ ~SetupSubmit(b)
      /\ ~StartSession(b) /\ ~Logout(b) /\ ~RestartSession(b) /\ ~Unlink(b)
  BY <1>2 DEF SetRole, RemoveUser, CreateUser, SetEmail, AssignOwner, SetupSubmit,
     StartSession, Logout, RestartSession, Unlink
<1>7. ~Rehash(b) /\ ~CheckSetup(b)
  <2>1. "verified" \notin InLoop /\ "write" \notin InLoop
    BY DEF InLoop
  <2>2. Rehash(b) => Moves(b, "verified")
    BY DEF Rehash
  <2>3. CheckSetup(b) => Moves(b, "write") \/ Ends(b)
    BY DEF CheckSetup
  <2> QED BY <1>2, <1>3, <2>1, <2>2, <2>3
<1>8. ASSUME CheckRole(b) PROVE FALSE
  <2>1. ASSUME NEW id, NEW role, NEW admins,
               request' = [request EXCEPT ![b].pc = "write", ![b].target = id, ![b].what = role, ![b].admins = admins]
        PROVE  request'[b].pc = "write"
    BY <1>1, <2>1 DEF Request
  <2>2. request'[b].pc = "write"
    BY <1>2, <1>8, <2>1 DEF CheckRole
  <2> QED BY <2>2 DEF InLoop
<1>9. ASSUME CheckRemove(b) PROVE FALSE
  <2>1. ASSUME NEW id, NEW admins, NEW o,
               request' = [request EXCEPT ![b].pc = "write", ![b].target = id, ![b].admins = admins, ![b].owner = o]
        PROVE  request'[b].pc = "write"
    BY <1>1, <2>1 DEF Request
  <2>2. request'[b].pc = "write"
    BY <1>2, <1>9, <2>1 DEF CheckRemove
  <2> QED BY <2>2 DEF InLoop
<1>10. ~CheckOwner(b)
  BY <1>1 DEF CheckOwner, Request, InLoop
<1>11. ASSUME Authenticate(b) PROVE FALSE
  <2>1. ASSUME NEW id \in Accounts,
               request' = [request EXCEPT ![b].pc = IF users[id].outdated THEN "rehash" ELSE "verified",
                             ![b].uid = id, ![b].sv = users[id].sv, ![b].knows = users[id].password]
        PROVE  FALSE
    <3> DEFINE pc == IF users[id].outdated THEN "rehash" ELSE "verified"
    <3>1. pc \in InLoop
      BY <1>4, <2>1
    <3> QED BY <3>1 DEF InLoop
  <2> QED BY <1>2, <1>11, <2>1 DEF Authenticate
<1>12. ASSUME ChangePassword(b) PROVE FALSE
  <2>1. request' = [request EXCEPT ![b].pc = "restart", ![b].knows = NextPassword]
    BY <1>2, <1>12 DEF ChangePassword
  <2>2. "restart" \in InLoop
    BY <1>4, <2>1
  <2> QED BY <2>2 DEF InLoop
<1>13. ASSUME FindLinkedUser(b) PROVE FALSE
  <2>1. request'[b].pc = "group"
    BY <1>1, <1>13 DEF FindLinkedUser, Request
  <2> QED BY <2>1 DEF InLoop
<1> QED BY <1>5, <1>6, <1>7, <1>8, <1>9, <1>10, <1>11, <1>12, <1>13 DEF Step

(* ... and two of them enter it, when nobody is in it.                     *)
LEMMA EntersAlone ==
  ASSUME TypeInv, NEW b \in Browsers, Step(b), request'[b].pc \in InLoop
  PROVE  LoopFree \/ request[b].pc \in InLoop
<1>1. CheckGroup(b) \/ AskLink(b) => LoopFree
  BY DEF CheckGroup, AskLink
<1>2. ResolveByEmail(b) \/ CreateSsoUser(b) \/ Link(b) => request[b].pc \in InLoop
  BY DEF ResolveByEmail, CreateSsoUser, Link, At, InLoop
<1> QED BY <1>1, <1>2, OtherwiseOutside

LEMMA AloneStep ==
  ASSUME TypeInv, Alone, NEW b \in Browsers, Step(b)
  PROVE  Alone'
<1>1. LoopFree => \A c \in Browsers : request[c].pc \notin InLoop
  BY DEF LoopFree, InLoop
<1> QED BY <1>1, EntersAlone, OthersWait DEF Alone

(* A callback is about to link only after its check, or to its new row.    *)
LEMMA AboutToLink ==
  ASSUME TypeInv, TypeInv', Referred, NEW b \in Browsers, Step(b),
         request'[b].kind = "oidc", request'[b].pc = "link"
  PROVE  ~Link(b) /\ \A i \in Identities : ByAddress(links[i], request'[b].uid) => i = request'[b].what
<1>1. request \in [Browsers -> Request] /\ request[b] \in Request
  BY DEF TypeInv, RequestType
<1>2. ~Ends(b)
  BY <1>1 DEF Ends, NoRequest
<1>3. ASSUME NEW pc, Moves(b, pc) PROVE pc = "link"
  BY <1>1, <1>3 DEF Moves, Request
<1>4. ~Link(b)
  <2>1. Link(b) => Moves(b, "signed") \/ Ends(b)
    BY DEF Link
  <2> QED BY <1>2, <1>3, <2>1
<1>5. ASSUME NEW id, NEW sv, request' = [request EXCEPT ![b].pc = "link", ![b].uid = id, ![b].sv = sv]
      PROVE  request'[b].uid = id /\ request'[b].what = request[b].what
  BY <1>1, <1>5 DEF Request
<1>6. CASE ResolveByEmail(b)
  <2>1. Moves(b, "register") => FALSE
    BY <1>3
  <2>2. PICK id \in Accounts :
          /\ MayBind(id, request[b].what)
          /\ request' = [request EXCEPT ![b].pc = "link", ![b].uid = id, ![b].sv = users[id].sv]
    BY <1>2, <1>6, <2>1 DEF ResolveByEmail, WithEmail
  <2> QED BY <1>4, <1>5, <2>2 DEF MayBind, LinkedTo, ByAddress
<1>7. CASE CreateSsoUser(b)
  <2>1. request' = [request EXCEPT ![b].pc = "link", ![b].uid = NextId, ![b].sv = 1]
    BY <1>2, <1>7 DEF CreateSsoUser
  <2>2. NextId \in Nat \ {0} /\ NextId \notin Accounts
    BY NextIdIsFree DEF TypeInv
  <2>3. \A i \in Identities : links[i].id # NextId
    BY <2>2 DEF Referred
  <2> QED BY <1>4, <1>5, <2>1, <2>3 DEF ByAddress
<1>8. CASE ~ResolveByEmail(b) /\ ~CreateSsoUser(b)
  <2>2. ~CheckGroup(b)
    <3> DEFINE pc == IF request[b].uid = 0 THEN "email" ELSE "signed"
    <3>1. CheckGroup(b) => Moves(b, pc)
      BY <1>2 DEF CheckGroup
    <3>2. pc # "link"
      OBVIOUS
    <3> HIDE DEF pc
    <3> QED BY <1>3, <3>1, <3>2
  <2>3. ~AskLink(b)
    <3>1. ASSUME AskLink(b) PROVE request'[b].kind = "link"
      BY <1>1, <1>2, <3>1 DEF AskLink, At, Request
    <3> QED BY <3>1
  <2> QED BY <1>4, <1>8, <2>2, <2>3, OtherwiseOutside DEF InLoop
<1> QED BY <1>6, <1>7, <1>8

LEMMA ClaimedStep ==
  ASSUME TypeInv, TypeInv', Referred, Alone, Claimed, NEW b \in Browsers, Step(b)
  PROVE  Claimed'
<1> SUFFICES ASSUME NEW c \in Browsers, request'[c].kind = "oidc", request'[c].pc = "link",
                    NEW i \in Identities, ByAddress(links'[i], request'[c].uid)
             PROVE  i = request'[c].what
  BY DEF Claimed
<1>1. request'[c].uid \in Ids
  BY DEF TypeInv, RequestType, RequestOK
<1>2. CASE ~Link(b)
  <2>1. ByAddress(links[i], request'[c].uid)
    <3>1. 0 \notin Ids
      BY DEF Ids
    <3>2. links'[i] = links[i] \/ links'[i] = NoLink
      BY <1>2, LinksTakenAway
    <3> QED BY <1>1, <3>1, <3>2 DEF ByAddress, NoLink
  <2>2. CASE c = b
    BY <2>1, <2>2, AboutToLink
  <2>3. CASE c # b
    BY <2>1, <2>3, OthersWait DEF Claimed
  <2> QED BY <2>2, <2>3
<1>3. CASE Link(b)
  <2>1. c # b
    BY <1>3, AboutToLink
  <2>2. request[c].pc = "link" /\ request[b].pc = "link"
    BY <1>3, <2>1, OthersWait DEF Link
  <2> QED BY <2>1, <2>2 DEF Alone, InLoop
<1> QED BY <1>2, <1>3

LEMMA OneEachStep ==
  ASSUME TypeInv, Claimed, OneEach, NEW b \in Browsers, Step(b)
  PROVE  OneEach'
<1>1. links \in [Identities -> [id : {0} \cup Ids, how : {"none", "oidc", "link"}]] /\ 0 \notin Ids
  BY DEF TypeInv, OthersType, Ids
<1>2. CASE ~Link(b)
  <2>1. \A id \in Ids, i \in Identities : ByAddress(links'[i], id) => ByAddress(links[i], id)
    BY <1>1, <1>2, LinksTakenAway DEF ByAddress, NoLink
  <2> QED BY <2>1 DEF OneEach
<1>3. CASE Link(b)
  <2> DEFINE id == request[b].uid  new == request[b].what
  <2>1. new \in Identities /\ id \in Ids /\ request[b].pc = "link"
    BY <1>3 DEF Link, TypeInv, RequestType, RequestOK
  <2>2. CASE links' = links
    BY <2>2 DEF OneEach, ByAddress
  <2>3. CASE links' = [links EXCEPT ![new] = [id |-> id, how |-> request[b].kind]]
    <3>1. \A i \in Identities \ {new} : links'[i] = links[i]
      BY <1>1, <2>3
    <3>2. links'[new].id = id /\ links'[new].how = request[b].kind
      BY <1>1, <2>1, <2>3
    <3>3. \A n \in Ids, i \in Identities \ {new} : ByAddress(links'[i], n) => ByAddress(links[i], n)
      BY <3>1 DEF ByAddress
    <3>4. \A n \in Ids : ByAddress(links'[new], n) => n = id /\ request[b].kind = "oidc"
      BY <3>2 DEF ByAddress
    <3>5. \A n \in Ids, i \in Identities \ {new} : ~(ByAddress(links'[new], n) /\ ByAddress(links'[i], n))
      BY <2>1, <3>3, <3>4 DEF Claimed
    <3> QED BY <3>3, <3>5 DEF OneEach
  <2> QED BY <1>3, <2>2, <2>3 DEF Link
<1> QED BY <1>2, <1>3

LinkInv == TypeInv /\ Referred /\ Alone /\ Claimed /\ OneEach

LEMMA LinkInvAlways == Spec => []LinkInv
<1>1. Init => LinkInv
  <2> SUFFICES ASSUME Init PROVE LinkInv
    OBVIOUS
  <2>1. TypeInv
    BY TypesInit
  <2>2. /\ \A b \in Browsers : request[b].pc = "none"
        /\ \A i \in Identities : links[i].id = 0 /\ links[i].how = "none"
    BY DEF Init, NoRequest, NoLink
  <2>3. owner \in {0} \cup Accounts
    <3>1. owner # 0 => owner \in {1, 2} /\ users[1] # NoUser /\ users[2] # NoUser
      <4>1. {1, 2} \subseteq Ids
        BY AccountsAssumption DEF Ids
      <4> QED BY <4>1 DEF Init, NoUser
    <3>2. {1, 2} \subseteq Ids
      BY AccountsAssumption DEF Ids
    <3> QED BY <3>1, <3>2 DEF Accounts, Exists
  <2> QED BY <2>1, <2>2, <2>3 DEF LinkInv, Referred, Alone, InLoop, Claimed, OneEach, ByAddress
<1>2. LinkInv /\ [Next]_vars => LinkInv'
  <2> SUFFICES ASSUME LinkInv, [Next]_vars PROVE LinkInv'
    OBVIOUS
  <2>1. TypeInv /\ TypeInv' /\ Referred /\ Alone /\ Claimed /\ OneEach
    BY TypesStep DEF LinkInv
  <2>2. CASE UNCHANGED vars
    BY <2>1, <2>2 DEF vars, tables, LinkInv, Referred, Accounts, Exists, Alone, Claimed, OneEach, ByAddress
  <2>3. CASE \E b \in Browsers : Step(b)
    BY <2>1, <2>3, ReferredStep, AloneStep, ClaimedStep, OneEachStep DEF LinkInv
  <2> QED BY <2>2, <2>3 DEF Next, Step
<1> QED BY <1>1, <1>2, PTL DEF Spec

(* What the tables refer to is there, an administrator remains, and no     *)
(* account is taken over by two identities on the strength of an address   *)
(* (bind and link, oidc.py), whatever requests overlap.                    *)
THEOREM AccountsInvAlways == Spec => []AccountsInv
<1>1. LinkInv => TypeOK
  BY DEF LinkInv, TypeInv, UsersType, RequestType, OthersType, Referred, TypeOK, User, Request, Session, Odd
<1>2. LinkInv => OneIdentityByAddress
  <2> SUFFICES ASSUME LinkInv, NEW id \in Accounts
               PROVE  Cardinality({i \in LinkedTo(id) : links[i].how = "oidc"}) <= 1
    BY DEF OneIdentityByAddress
  <2> DEFINE S == {i \in LinkedTo(id) : links[i].how = "oidc"}
  <2>1. \A i, j \in S : i = j
    <3>1. id \in Ids
      BY DEF Accounts
    <3> QED BY <3>1 DEF LinkInv, OneEach, ByAddress, LinkedTo
  <2>2. CASE S = {}
    BY <2>2, FS_EmptySet
  <2>3. CASE S # {}
    <3>1. PICK i \in S : TRUE
      BY <2>3
    <3>2. S = {i}
      BY <2>1, <3>1
    <3>3. Cardinality(S) = 1
      BY <3>2, FS_Singleton
    <3> QED BY <3>3
  <2> QED BY <2>2, <2>3
<1> QED BY <1>1, <1>2, LinkInvAlways, AdminRemainsAlways, PTL DEF AccountsInv

-----------------------------------------------------------------------------
(* A changed password ends sessions. A session or a sign-in on its way     *)
(* that knows a password has a version the row is at or has passed; while  *)
(* the row is at it, the password is the row's.                            *)

Excused == odd \cap {"late restart", "late rehash", "id given again"} # {}

GoodIn(rows, given, t) ==
  t.knows # 0 =>
    /\ t.uid \in Ids /\ given[t.uid] # 0
    /\ rows[t.uid].role # "none" =>
         /\ t.sv <= rows[t.uid].sv
         /\ t.sv = rows[t.uid].sv => t.knows = rows[t.uid].password

Knowing == {"rehash", "verified", "restart"}

GoodSessions == \A b \in Browsers : GoodIn(users, lastSet, cookie[b])
GoodRequests == \A b \in Browsers : request[b].pc # "restart" => GoodIn(users, lastSet, request[b])
GivenPasswords == \A id \in Ids : users[id].password # 0 => lastSet[id] # 0
Places == \A b \in Browsers : request[b].knows # 0 => request[b].pc \in Knowing

Kept == GoodSessions /\ GoodRequests /\ GivenPasswords
KnowInv == TypeInv /\ Places /\ (Excused \/ Kept)

(* A row that once had a password grows older: its version never falls,    *)
(* and its password changes with its version - or a step is excused.       *)
Older(id) ==
  /\ lastSet'[id] # 0
  /\ users'[id].role # "none" =>
       /\ users[id].role # "none" /\ users[id].sv <= users'[id].sv
       /\ users[id].sv = users'[id].sv => users'[id].password = users[id].password

LEMMA InsertedAges ==
  ASSUME TypeInv, NEW role \in Roles, NEW email \in Emails, NEW password \in 0 .. MaxPassword, NEW what,
         Inserted(role, email, password, what), ~Excused'
  PROVE  /\ NextId \in Ids /\ lastSet[NextId] = 0 /\ lastSet'[NextId] = password
         /\ users'[NextId].password = password /\ users'[NextId].sv = 1
         /\ \A id \in Ids \ {NextId} : lastSet'[id] = lastSet[id] /\ users'[id] = users[id]
<1>1. NextId \in Ids
  BY InsertedRow
<1>2. users \in [Ids -> User] /\ lastSet \in [Ids -> 0 .. MaxPassword]
  BY DEF TypeInv, UsersType, OthersType
<1>3. lastSet[NextId] = 0
  BY DEF Inserted, Excused
<1> QED BY <1>1, <1>2, <1>3 DEF Inserted

LEMMA RowsAge ==
  ASSUME TypeInv, GivenPasswords, NEW b \in Browsers, Step(b), ~Excused'
  PROVE  GivenPasswords' /\ \A id \in Ids : lastSet[id] # 0 => Older(id)
<1>0. /\ users \in [Ids -> User] /\ lastSet \in [Ids -> 0 .. MaxPassword]
      /\ request[b] \in Request /\ RequestOK(request[b])
      /\ \A id \in Ids : users[id].sv \in Nat
  BY DEF TypeInv, UsersType, OthersType, RequestType, User
<1>1. ASSUME NEW role \in Roles, NEW email \in Emails, NEW password \in 0 .. MaxPassword, NEW what,
             Inserted(role, email, password, what)
      PROVE  GivenPasswords' /\ \A id \in Ids : lastSet[id] # 0 => Older(id)
  BY <1>0, <1>1, InsertedAges DEF GivenPasswords, Older
<1>2. ASSUME users' = users, lastSet' = lastSet
      PROVE  GivenPasswords' /\ \A id \in Ids : lastSet[id] # 0 => Older(id)
  BY <1>0, <1>2 DEF GivenPasswords, Older
<1>3. NextPassword \in Nat
  BY NextPasswordType DEF TypeInv
<1>4. CASE CreateUser(b)
  BY <1>1, <1>2, <1>3, <1>4, AccountsAssumption DEF CreateUser
<1>5. CASE SetupSubmit(b)
  <2>1. "admin" \in Roles /\ (NextPassword <= MaxPassword => NextPassword \in 0 .. MaxPassword)
    BY <1>3, AccountsAssumption DEF Roles
  <2> QED BY <1>1, <1>2, <1>5, <2>1 DEF SetupSubmit
<1>6. CASE CreateSsoUser(b)
  <2> DEFINE i == request[b].what
             what == IF Accounts = {} THEN {"before setup"} ELSE {}
  <2>1. ClaimedEmail[i] \in Emails /\ 0 \in 0 .. MaxPassword /\ "member" \in Roles
    <3>1. i \in Identities
      BY <1>0, <1>6 DEF CreateSsoUser, At, RequestOK
    <3> QED BY <3>1, AccountsAssumption DEF Roles
  <2>2. UNCHANGED <<users, lastSet>> \/ Inserted("member", ClaimedEmail[i], 0, what)
    BY <1>6 DEF CreateSsoUser
  <2> HIDE DEF what
  <2> QED BY <1>1, <1>2, <2>1, <2>2
<1>7. ASSUME NEW id \in Ids, \A n \in Ids \ {id} : users'[n] = users[n],
             users[id].sv <= users'[id].sv, users[id].sv = users'[id].sv => users'[id].password = users[id].password,
             users[id].role # "none", lastSet'[id] # 0 \/ users'[id].password = users[id].password,
             \A n \in Ids : lastSet'[n] = lastSet[n] \/ (n = id /\ lastSet'[n] # 0)
      PROVE  GivenPasswords' /\ \A n \in Ids : lastSet[n] # 0 => Older(n)
  BY <1>0, <1>7 DEF GivenPasswords, Older
<1>8. CASE SetRole(b)
  <2> DEFINE id == request[b].target
             u == [users[id] EXCEPT !.role = request[b].what, !.sv = users[id].sv + 1]
  <2>1. CASE users' = users
    BY <1>2, <1>8, <2>1 DEF SetRole
  <2>2. CASE users' # users
    <3>1. id \in Ids /\ users[id].role # "none" /\ users[id] \in User
      BY <1>0, <1>8, <2>2 DEF SetRole, Exists, TypeInv, UsersType
    <3>2. users' = [users EXCEPT ![id] = u]
      BY <1>8, <2>2 DEF SetRole
    <3>8. users'[id] = u /\ \A n \in Ids \ {id} : users'[n] = users[n]
      BY <1>0, <3>1, <3>2
    <3>3. u.sv = users[id].sv + 1 /\ u.password = users[id].password
      BY <3>1 DEF User
    <3>4. lastSet' = lastSet
      BY <1>8 DEF SetRole
    <3> HIDE DEF u
    <3> QED BY <1>0, <1>7, <3>1, <3>3, <3>4, <3>8
  <2> QED BY <2>1, <2>2
<1>9. CASE RemoveUser(b)
  <2>1. request[b].target \in Ids
    BY <1>0, <1>9 DEF RemoveUser, At, RequestOK
  <2>2. NoUser.role = "none" /\ NoUser.password = 0
    BY DEF NoUser
  <2>3. users'[request[b].target] = NoUser /\ \A n \in Ids \ {request[b].target} : users'[n] = users[n]
    BY <1>0, <1>9, <2>1 DEF RemoveUser
  <2>4. lastSet' = lastSet
    BY <1>9 DEF RemoveUser
  <2> QED BY <1>0, <2>1, <2>2, <2>3, <2>4 DEF GivenPasswords, Older
<1>10. CASE SetEmail(b)
  <2>1. PICK id \in Accounts, email \in Emails :
          users' = IF WithEmail(email) \subseteq {id} THEN [users EXCEPT ![id].email = email] ELSE users
    BY <1>10 DEF SetEmail
  <2>2. CASE users' = users
    BY <1>2, <1>10, <2>2 DEF SetEmail
  <2>3. CASE users' = [users EXCEPT ![id].email = email]
    <3> DEFINE u == [users[id] EXCEPT !.email = email]
    <3>1. id \in Ids /\ users[id].role # "none" /\ users[id] \in User
      BY <1>0, AccountsAreRows DEF TypeInv
    <3>2. users' = [users EXCEPT ![id] = u]
      BY <2>3
    <3>8. users'[id] = u /\ \A n \in Ids \ {id} : users'[n] = users[n]
      BY <1>0, <3>1, <3>2
    <3>3. u.sv = users[id].sv /\ u.password = users[id].password
      BY <3>1 DEF User
    <3>4. lastSet' = lastSet
      BY <1>10 DEF SetEmail
    <3> HIDE DEF u
    <3> QED BY <1>0, <1>7, <3>1, <3>3, <3>4, <3>8
  <2> QED BY <2>1, <2>2, <2>3
<1>11. CASE Rehash(b)
  <2> DEFINE id == request[b].uid
             u == [users[id] EXCEPT !.password = request[b].knows, !.outdated = FALSE]
  <2>1. CASE ~Exists(id)
    BY <1>2, <1>11, <2>1 DEF Rehash
  <2>2. CASE Exists(id)
    <3>1. id \in Ids /\ users[id].role # "none" /\ users[id] \in User
      BY <1>0, <2>2 DEF Exists, TypeInv, UsersType
    <3>2. users' = [users EXCEPT ![id] = u]
      BY <1>11, <2>2 DEF Rehash
    <3>8. users'[id] = u /\ \A n \in Ids \ {id} : users'[n] = users[n]
      BY <1>0, <3>1, <3>2
    <3>3. request[b].knows = users[id].password
      BY <1>11, <2>2 DEF Rehash, Excused
    <3>4. u.sv = users[id].sv /\ u.password = users[id].password
      BY <3>1, <3>3 DEF User
    <3>5. lastSet' = lastSet
      BY <1>11 DEF Rehash
    <3> HIDE DEF u
    <3> QED BY <1>0, <1>7, <3>1, <3>4, <3>5, <3>8
  <2> QED BY <2>1, <2>2
<1>12. CASE ChangePassword(b)
  <2> DEFINE id == request[b].uid  new == NextPassword
             u == [users[id] EXCEPT !.password = new, !.sv = users[id].sv + 1, !.outdated = FALSE]
  <2>1. CASE ~Exists(id)
    BY <1>2, <1>12, <2>1 DEF ChangePassword
  <2>2. CASE Exists(id)
    <3>1. id \in Ids /\ users[id].role # "none" /\ users[id] \in User
      BY <1>0, <2>2 DEF Exists, TypeInv, UsersType
    <3>2. users' = [users EXCEPT ![id] = u]
      BY <1>12, <2>2 DEF ChangePassword
    <3>8. users'[id] = u /\ \A n \in Ids \ {id} : users'[n] = users[n]
      BY <1>0, <3>1, <3>2
    <3>3. u.sv = users[id].sv + 1
      BY <3>1 DEF User
    <3>4. new # 0
      BY NextPasswordType DEF TypeInv
    <3>5. lastSet' = [lastSet EXCEPT ![id] = new]
      BY <1>12, <2>2 DEF ChangePassword
    <3> HIDE DEF new, u
    <3>6. \A n \in Ids : lastSet'[n] = lastSet[n] \/ (n = id /\ lastSet'[n] # 0)
      BY <1>0, <3>1, <3>4, <3>5
    <3>7. lastSet'[id] # 0
      BY <1>0, <3>1, <3>4, <3>5
    <3> QED BY <1>0, <1>7, <3>1, <3>3, <3>6, <3>7, <3>8
  <2> QED BY <2>1, <2>2
<1>13. CASE /\ ~Inserts(b) /\ ~SetRole(b) /\ ~RemoveUser(b) /\ ~SetEmail(b) /\ ~Rehash(b) /\ ~ChangePassword(b)
  <2>1. users' = users /\ lastSet' = lastSet
    BY <1>13 DEF Step, Inserts, Arrive, CheckRole, CheckRemove, CheckOwner, AssignOwner, CheckSetup,
       Authenticate, StartSession, Logout, RestartSession, FindLinkedUser, CheckGroup,
       ResolveByEmail, AskLink, Link, Unlink, tables
  <2> QED BY <1>2, <2>1
<1> QED BY <1>4, <1>5, <1>6, <1>8, <1>9, <1>10, <1>11, <1>12, <1>13 DEF Inserts

LEMMA StaysGood ==
  ASSUME TypeInv, TypeInv', \A id \in Ids : lastSet[id] # 0 => Older(id),
         NEW t, t.sv \in Nat, GoodIn(users, lastSet, t)
  PROVE  GoodIn(users', lastSet', t)
<1>1. \A id \in Ids : users[id].sv \in Nat /\ users'[id].sv \in Nat
  BY DEF TypeInv, UsersType, User
<1> QED BY <1>1 DEF GoodIn, Older

(* A request gets to know a password from its form alone: when it was      *)
(* verified, or when it was given.                                         *)
LEMMA LearnsPassword ==
  ASSUME TypeInv, Places, NEW b \in Browsers, Step(b), ~Authenticate(b), ~Rehash(b), ~ChangePassword(b)
  PROVE  request'[b].knows = 0 \/ request'[b] = request[b]
<1>1. request \in [Browsers -> Request] /\ request[b] \in Request
  BY DEF TypeInv, RequestType
<1>2. Ends(b) => request'[b].knows = 0
  BY <1>1 DEF Ends, NoRequest
<1>3. ASSUME request[b].pc \notin Knowing PROVE request[b].knows = 0
  BY <1>3 DEF Places
<1>4. ASSUME NEW pc, Moves(b, pc) PROVE request'[b].knows = request[b].knows
  BY <1>1, <1>4 DEF Moves, Request
<1>5. ASSUME NEW kind \in AdminKinds \cup OwnKinds \cup OpenKinds, Arrive(b, kind)
      PROVE  request'[b].knows = 0
  BY <1>1, <1>5 DEF Arrive, NoRequest
<1>6. CASE \/ SetRole(b) \/ RemoveUser(b) \/ CreateUser(b) \/ SetEmail(b) \/ AssignOwner(b) \/ SetupSubmit(b)
           \/ StartSession(b) \/ Logout(b) \/ RestartSession(b) \/ Unlink(b)
  BY <1>2, <1>6 DEF SetRole, RemoveUser, CreateUser, SetEmail, AssignOwner, SetupSubmit,
     StartSession, Logout, RestartSession, Unlink
<1>7. CASE CheckRole(b)
  <2>1. ASSUME NEW id, NEW role, NEW admins,
               request' = [request EXCEPT ![b].pc = "write", ![b].target = id, ![b].what = role, ![b].admins = admins]
        PROVE  request'[b].knows = request[b].knows
    BY <1>1, <2>1 DEF Request
  <2>2. request[b].knows = 0
    BY <1>3, <1>7 DEF CheckRole, At, Knowing
  <2> QED BY <1>2, <1>7, <2>1, <2>2 DEF CheckRole
<1>8. CASE CheckRemove(b)
  <2>1. ASSUME NEW id, NEW admins, NEW o,
               request' = [request EXCEPT ![b].pc = "write", ![b].target = id, ![b].admins = admins, ![b].owner = o]
        PROVE  request'[b].knows = request[b].knows
    BY <1>1, <2>1 DEF Request
  <2>2. request[b].knows = 0
    BY <1>3, <1>8 DEF CheckRemove, At, Knowing
  <2> QED BY <1>2, <1>8, <2>1, <2>2 DEF CheckRemove
<1>9. CASE CheckOwner(b)
  <2>1. request[b].knows = 0
    BY <1>3, <1>9 DEF CheckOwner, At, Knowing
  <2> QED BY <1>1, <1>9, <2>1 DEF CheckOwner, Request
<1>10. CASE CheckSetup(b) \/ CheckGroup(b)
  <2>1. request[b].knows = 0
    BY <1>3, <1>10 DEF CheckSetup, CheckGroup, At, Knowing
  <2> QED BY <1>2, <1>4, <1>10, <2>1 DEF CheckSetup, CheckGroup
<1>11. CASE FindLinkedUser(b)
  <2>1. ASSUME NEW i, NEW uid, NEW sv,
               request' = [request EXCEPT ![b].what = i, ![b].pc = "group", ![b].uid = uid, ![b].sv = sv]
        PROVE  request'[b].knows = request[b].knows
    BY <1>1, <2>1 DEF Request
  <2>2. request[b].knows = 0
    BY <1>3, <1>11 DEF FindLinkedUser, At, Knowing
  <2> QED BY <1>11, <2>1, <2>2 DEF FindLinkedUser
<1>12. ASSUME NEW id, NEW sv, request' = [request EXCEPT ![b].pc = "link", ![b].uid = id, ![b].sv = sv]
       PROVE  request'[b].knows = request[b].knows
  BY <1>1, <1>12 DEF Request
<1>13. CASE ResolveByEmail(b)
  <2>1. request[b].knows = 0
    BY <1>3, <1>13 DEF ResolveByEmail, At, Knowing
  <2> QED BY <1>2, <1>4, <1>12, <1>13, <2>1 DEF ResolveByEmail
<1>14. CASE CreateSsoUser(b)
  <2>1. request[b].knows = 0
    BY <1>3, <1>14 DEF CreateSsoUser, At, Knowing
  <2> QED BY <1>2, <1>12, <1>14, <2>1 DEF CreateSsoUser
<1>15. CASE AskLink(b)
  <2>1. request[b].knows = 0
    BY <1>3, <1>15 DEF AskLink, At, Knowing
  <2> QED BY <1>1, <1>2, <1>15, <2>1 DEF AskLink, Request
<1>16. CASE Link(b)
  <2>1. request[b].knows = 0
    BY <1>3, <1>16 DEF Link, Knowing
  <2> QED BY <1>2, <1>4, <1>16, <2>1 DEF Link
<1> QED BY <1>5, <1>6, <1>7, <1>8, <1>9, <1>10, <1>11, <1>13, <1>14, <1>15, <1>16 DEF Step

LEMMA PlacesStep ==
  ASSUME TypeInv, Places, NEW b \in Browsers, Step(b)
  PROVE  Places'
<1>1. request \in [Browsers -> Request] /\ request[b] \in Request
  BY DEF TypeInv, RequestType
<1>2. CASE ~Authenticate(b) /\ ~Rehash(b) /\ ~ChangePassword(b)
  BY <1>2, LearnsPassword, OthersWait DEF Places
<1>3. Ends(b) => request'[b].knows = 0
  BY <1>1 DEF Ends, NoRequest
<1>4. CASE Authenticate(b)
  <2>1. ASSUME NEW pc, NEW id, NEW sv, NEW knows,
               request' = [request EXCEPT ![b].pc = pc, ![b].uid = id, ![b].sv = sv, ![b].knows = knows]
        PROVE  request'[b].pc = pc
    BY <1>1, <2>1 DEF Request
  <2>2. ASSUME NEW id \in Accounts,
               request' = [request EXCEPT ![b].pc = IF users[id].outdated THEN "rehash" ELSE "verified",
                             ![b].uid = id, ![b].sv = users[id].sv, ![b].knows = users[id].password]
        PROVE  request'[b].pc \in Knowing
    <3> DEFINE pc == IF users[id].outdated THEN "rehash" ELSE "verified"
    <3>1. request'[b].pc = pc
      BY <2>1, <2>2
    <3>2. pc \in Knowing
      BY DEF Knowing
    <3> QED BY <3>1, <3>2
  <2>3. request'[b].knows = 0 \/ request'[b].pc \in Knowing
    BY <1>3, <1>4, <2>2 DEF Authenticate
  <2> QED BY <2>3, OthersWait DEF Places
<1>5. CASE Rehash(b)
  <2>1. request'[b].pc = "verified"
    BY <1>1, <1>5 DEF Rehash, Moves, Request
  <2> QED BY <2>1, OthersWait DEF Places, Knowing
<1>6. CASE ChangePassword(b)
  <2>1. ASSUME NEW knows, request' = [request EXCEPT ![b].pc = "restart", ![b].knows = knows]
        PROVE  request'[b].pc = "restart"
    BY <1>1, <2>1 DEF Request
  <2>2. request'[b].knows = 0 \/ request'[b].pc = "restart"
    BY <1>3, <1>6, <2>1 DEF ChangePassword
  <2> QED BY <2>2, OthersWait DEF Places, Knowing
<1> QED BY <1>2, <1>4, <1>5, <1>6

LEMMA RequestsStayGood ==
  ASSUME TypeInv, TypeInv', Places, Kept, NEW b \in Browsers, Step(b),
         \A id \in Ids : lastSet[id] # 0 => Older(id)
  PROVE  GoodRequests'
<1>1. request \in [Browsers -> Request] /\ request[b] \in Request
  BY DEF TypeInv, RequestType
<1>2. ASSUME NEW c \in Browsers, request[c].pc # "restart"
      PROVE  GoodIn(users', lastSet', request[c])
  <2>1. request[c].sv \in Nat
    BY DEF TypeInv, RequestType, Request
  <2> QED BY <1>2, <2>1, StaysGood DEF Kept, GoodRequests
<1>3. \A c \in Browsers \ {b} : request'[c].pc # "restart" => GoodIn(users', lastSet', request'[c])
  BY <1>2, OthersWait
<1>4. ASSUME request'[b].knows = 0 PROVE GoodIn(users', lastSet', request'[b])
  BY <1>4 DEF GoodIn
<1>5. CASE ~Authenticate(b) /\ ~Rehash(b) /\ ~ChangePassword(b)
  BY <1>2, <1>3, <1>4, <1>5, LearnsPassword DEF GoodRequests
<1>6. CASE Authenticate(b)
  <2>1. CASE Ends(b)
    BY <1>1, <1>3, <1>4, <2>1 DEF Ends, NoRequest, GoodRequests
  <2>2. ASSUME NEW id \in Accounts, users[id].password # 0,
               request' = [request EXCEPT ![b].pc = IF users[id].outdated THEN "rehash" ELSE "verified",
                             ![b].uid = id, ![b].sv = users[id].sv, ![b].knows = users[id].password]
        PROVE  GoodIn(users', lastSet', request'[b])
    <3> DEFINE pc == IF users[id].outdated THEN "rehash" ELSE "verified"
               sv == users[id].sv
               knows == users[id].password
               t == request'[b]
    <3>1. request' = [request EXCEPT ![b].pc = pc, ![b].uid = id, ![b].sv = sv, ![b].knows = knows]
      BY <2>2
    <3>2. id \in Ids /\ sv \in Nat /\ lastSet[id] # 0
      BY <2>2 DEF Accounts, TypeInv, UsersType, User, Kept, GivenPasswords
    <3> HIDE DEF pc, sv, knows
    <3>3. t.uid = id /\ t.sv = sv /\ t.knows = knows
      BY <1>1, <3>1 DEF Request
    <3> HIDE DEF t
    <3>4. GoodIn(users, lastSet, t)
      BY <3>2, <3>3 DEF GoodIn, sv, knows
    <3>5. GoodIn(users', lastSet', t)
      BY <3>2, <3>3, <3>4, StaysGood
    <3> QED BY <3>5 DEF t
  <2> QED BY <1>3, <1>6, <2>1, <2>2 DEF Authenticate, GoodRequests
<1>7. CASE Rehash(b)
  <2> DEFINE t == request'[b]
  <2>1. t.uid = request[b].uid /\ t.sv = request[b].sv /\ t.knows = request[b].knows
    BY <1>1, <1>7 DEF Rehash, Moves, Request
  <2>2. GoodIn(users', lastSet', request[b])
    BY <1>2, <1>7 DEF Rehash
  <2> HIDE DEF t
  <2>3. GoodIn(users', lastSet', t)
    BY <2>1, <2>2 DEF GoodIn
  <2> QED BY <1>3, <2>3 DEF t, GoodRequests
<1>8. CASE ChangePassword(b)
  <2>1. ASSUME NEW knows, request' = [request EXCEPT ![b].pc = "restart", ![b].knows = knows]
        PROVE  request'[b].pc = "restart"
    BY <1>1, <2>1 DEF Request
  <2>2. Ends(b) => request'[b].knows = 0
    BY <1>1 DEF Ends, NoRequest
  <2>3. request'[b].knows = 0 \/ request'[b].pc = "restart"
    BY <1>8, <2>1, <2>2 DEF ChangePassword
  <2> QED BY <1>3, <1>4, <2>3 DEF GoodRequests
<1> QED BY <1>5, <1>6, <1>7, <1>8

LEMMA SessionsStayGood ==
  ASSUME TypeInv, TypeInv', Places, Kept, NEW b \in Browsers, Step(b), ~Excused',
         GivenPasswords', \A id \in Ids : lastSet[id] # 0 => Older(id)
  PROVE  GoodSessions'
<1>1. /\ request[b] \in Request /\ RequestOK(request[b]) /\ cookie \in [Browsers -> Session]
      /\ users \in [Ids -> User]
  BY DEF TypeInv, UsersType, RequestType, OthersType
<1>2. ASSUME NEW c \in Browsers
      PROVE  GoodIn(users', lastSet', cookie[c])
  <2>1. cookie[c].sv \in Nat
    BY <1>1 DEF Session
  <2> QED BY <2>1, StaysGood DEF Kept, GoodSessions
<1>3. ASSUME cookie' = cookie PROVE GoodSessions'
  BY <1>2, <1>3 DEF GoodSessions
<1>4. ASSUME NEW t, cookie' = [cookie EXCEPT ![b] = t], GoodIn(users', lastSet', t)
      PROVE  GoodSessions'
  BY <1>1, <1>2, <1>4 DEF GoodSessions
<1>5. CASE SetupSubmit(b)
  <2>1. CASE cookie' = cookie
    BY <1>3, <2>1
  <2>2. CASE cookie' # cookie
    <3> DEFINE t == [uid |-> NextId, sv |-> 1, knows |-> NextPassword]
    <3>1. PICK email \in Emails : Inserted("admin", email, NextPassword, {})
      BY <1>5, <2>2 DEF SetupSubmit
    <3>2. cookie' = [cookie EXCEPT ![b] = t]
      BY <1>5, <2>2 DEF SetupSubmit, Signs
    <3>3. "admin" \in Roles /\ NextPassword \in 0 .. MaxPassword
      BY <1>5, NextPasswordType, AccountsAssumption DEF SetupSubmit, TypeInv, Roles
    <3>4. /\ NextId \in Ids /\ lastSet'[NextId] = NextPassword
          /\ users'[NextId].password = NextPassword /\ users'[NextId].sv = 1
      BY <3>1, <3>3, InsertedAges
    <3>5. GoodIn(users', lastSet', t)
      BY <3>4 DEF GoodIn
    <3> HIDE DEF t
    <3> QED BY <1>4, <3>2, <3>5
  <2> QED BY <2>1, <2>2
<1>6. CASE StartSession(b)
  <2> DEFINE t == [uid |-> request[b].uid, sv |-> request[b].sv, knows |-> request[b].knows]
  <2>1. cookie' = [cookie EXCEPT ![b] = t]
    BY <1>6 DEF StartSession, Signs
  <2>2. request[b].pc # "restart" /\ request[b].sv \in Nat
    BY <1>1, <1>6 DEF StartSession, At, Request
  <2>3. GoodIn(users', lastSet', request[b])
    BY <2>2, StaysGood DEF Kept, GoodRequests
  <2>4. GoodIn(users', lastSet', t)
    BY <2>3 DEF GoodIn
  <2> HIDE DEF t
  <2> QED BY <1>4, <2>1, <2>4
<1>7. CASE Logout(b)
  <2>1. cookie' = [cookie EXCEPT ![b] = NoSession]
    BY <1>7 DEF Logout
  <2>2. GoodIn(users', lastSet', NoSession)
    BY DEF GoodIn, NoSession
  <2> QED BY <1>4, <2>1, <2>2
<1>8. CASE RestartSession(b)
  <2> DEFINE id == request[b].uid
             t == [uid |-> id, sv |-> users[id].sv, knows |-> request[b].knows]
  <2>1. CASE ~Exists(id)
    BY <1>3, <1>8, <2>1 DEF RestartSession
  <2>2. CASE Exists(id)
    <3>1. cookie' = [cookie EXCEPT ![b] = t] /\ users[id].password = request[b].knows
      BY <1>8, <2>2 DEF RestartSession, Signs, Excused
    <3>2. id \in Ids /\ users[id].sv \in Nat
      BY <1>1, <2>2 DEF Exists, User
    <3>3. lastSet' = lastSet /\ users' = users
      BY <1>8 DEF RestartSession, tables
    <3>4. users[id].password # 0 => lastSet[id] # 0
      BY <3>2 DEF Kept, GivenPasswords
    <3>5. GoodIn(users', lastSet', t)
      BY <3>1, <3>2, <3>3, <3>4 DEF GoodIn
    <3> HIDE DEF t
    <3> QED BY <1>4, <3>1, <3>5
  <2> QED BY <2>1, <2>2
<1>9. CASE ~SetupSubmit(b) /\ ~StartSession(b) /\ ~Logout(b) /\ ~RestartSession(b)
  <2>1. cookie' = cookie
    BY <1>9 DEF Step, Arrive, CheckRole, SetRole, CheckRemove, RemoveUser, CreateUser, SetEmail, CheckOwner,
       AssignOwner, CheckSetup, Authenticate, Rehash, ChangePassword, FindLinkedUser, CheckGroup,
       ResolveByEmail, CreateSsoUser, AskLink, Link, Unlink
  <2> QED BY <1>3, <2>1
<1> QED BY <1>5, <1>6, <1>7, <1>8, <1>9

LEMMA KnowInvAlways == Spec => []KnowInv
<1>1. Init => KnowInv
  <2> SUFFICES ASSUME Init PROVE KnowInv
    OBVIOUS
  <2>1. TypeInv
    BY TypesInit
  <2>2. Places
    BY DEF Init, Places, NoRequest
  <2>3. GoodRequests
    BY DEF Init, GoodRequests, GoodIn, NoRequest
  <2>4. GivenPasswords
    BY DEF Init, GivenPasswords
  <2>5. GoodSessions
    <3>1. CASE cookie = [b \in Browsers |-> NoSession]
      BY <3>1 DEF GoodSessions, GoodIn, NoSession
    <3>2. CASE cookie # [b \in Browsers |-> NoSession]
      <4>1. /\ cookie \in [Browsers -> {[uid |-> id, sv |-> 1, knows |-> id] : id \in {1, 2}}]
            /\ 1 \in Ids /\ 2 \in Ids
            /\ \A id \in {1, 2} : users[id].sv = 1 /\ users[id].password = id /\ lastSet[id] = id
        BY <3>2, AccountsAssumption DEF Init, Ids
      <4>2. \A id \in {1, 2} : GoodIn(users, lastSet, [uid |-> id, sv |-> 1, knows |-> id])
        BY <4>1 DEF GoodIn
      <4> QED BY <4>1, <4>2 DEF GoodSessions
    <3> QED BY <3>1, <3>2
  <2> QED BY <2>1, <2>2, <2>3, <2>4, <2>5 DEF KnowInv, Kept
<1>2. KnowInv /\ [Next]_vars => KnowInv'
  <2> SUFFICES ASSUME KnowInv, [Next]_vars PROVE KnowInv'
    OBVIOUS
  <2>1. TypeInv /\ TypeInv' /\ Places
    BY TypesStep DEF KnowInv
  <2>2. CASE UNCHANGED vars
    BY <2>2, <2>1 DEF KnowInv, Places, Excused, Kept, GoodSessions, GoodRequests, GivenPasswords, vars, tables
  <2>3. ASSUME NEW b \in Browsers, Step(b) PROVE KnowInv'
    <3>1. Places'
      BY <2>1, <2>3, PlacesStep
    <3>2. CASE Excused'
      BY <2>1, <3>1, <3>2 DEF KnowInv
    <3>3. CASE ~Excused'
      <4>1. Kept
        BY <2>3, <3>3, OddGrows DEF KnowInv, Excused
      <4>2. GivenPasswords' /\ \A id \in Ids : lastSet[id] # 0 => Older(id)
        BY <2>1, <2>3, <3>3, <4>1, RowsAge DEF Kept
      <4>3. GoodRequests' /\ GoodSessions'
        BY <2>1, <2>3, <3>3, <4>1, <4>2, RequestsStayGood, SessionsStayGood
      <4> QED BY <2>1, <3>1, <4>2, <4>3 DEF KnowInv, Kept
    <3> QED BY <3>2, <3>3
  <2>4. Next => \E b \in Browsers : Step(b)
    BY DEF Next, Step
  <2> QED BY <2>2, <2>3, <2>4
<1> QED BY <1>1, <1>2, PTL DEF Spec

(* SessionKnowsPassword: a session that is still good was begun with the   *)
(* password of now (account_password_change and current_user), except      *)
(* where a change overlapped another, a sign-in stored an old password     *)
(* anew, or a row's id was given again.                                    *)
THEOREM SessionKnowsPasswordAlways == Spec => []SessionKnowsPassword
<1>1. KnowInv => SessionKnowsPassword
  <2> SUFFICES ASSUME KnowInv, ~Excused, NEW b \in Browsers, SessionUser(cookie[b]), cookie[b].knows # 0
               PROVE  cookie[b].knows = users[cookie[b].uid].password
    BY DEF SessionKnowsPassword, Excused
  <2>1. users[cookie[b].uid].role # "none" /\ cookie[b].sv = users[cookie[b].uid].sv
    BY DEF SessionUser, Exists, KnowInv, TypeInv, UsersType
  <2> QED BY <2>1 DEF KnowInv, Kept, GoodSessions, GoodIn
<1> QED BY <1>1, KnowInvAlways, PTL
=============================================================================
