----------------------------- MODULE KeysProofs -----------------------------
(***************************************************************************)
(* For any identities, addresses, rows, logins, keys and requests: one     *)
(* account for each identity whose address did not change, and sessions of *)
(* their own; a revoked key stays out, and what a key lets in belongs to   *)
(* the identity that made it.                                              *)
(***************************************************************************)
EXTENDS ApiKeys, TLAPS

-----------------------------------------------------------------------------
(* Accounts: the logins of any identities, addresses and rows.               *)

\* An empty table and no logins.
LEMMA AccountsStart == AccountsInit => AccountsInv
  BY DEF AccountsInit, AccountsInv, AccountsTypeOK, Login, AddressKnown, AddressesUnique,
         SessionIsOwn, Sessions, Row

\* A step that changes login l alone, to x, and no row, keeps the invariant if x says the
\* truth of its identity.
LEMMA LoginStep ==
  ASSUME AccountsInv, NEW l \in Logins, NEW x \in Login,
         login' = [login EXCEPT ![l] = x], UNCHANGED <<email, moved, users>>,
         x.pc \in {"lookup", "create"} =>
           x.email = email[x.identity] \/ x.identity \in moved,
         x.pc = "signedin" =>
           x.user \in Users /\ Row(x.user) /\ users[x.user].identity = x.identity
  PROVE  AccountsInv'
  <1>1. AccountsTypeOK'
    BY DEF AccountsInv, AccountsTypeOK
  <1>2. login'[l] = x /\ \A k \in Logins \ {l} : login'[k] = login[k]
    BY DEF AccountsInv, AccountsTypeOK
  <1>3. \A u : Row(u)' <=> Row(u)
    BY DEF Row
  <1>4. AddressKnown' /\ AddressesUnique'
    BY <1>2, <1>3 DEF AccountsInv, AddressKnown, AddressesUnique
  <1>5. SessionIsOwn'
    BY <1>2, <1>3 DEF AccountsInv, SessionIsOwn, Sessions
  <1> QED
    BY <1>1, <1>4, <1>5 DEF AccountsInv

\* GetUserByProvider.
LEMMA LookupNext ==
  ASSUME AccountsInv, NEW l \in Logins, GetUserByProvider(l) \/ GetUserByProviderFails(l)
  PROVE  AccountsInv'
  <1>1. /\ login[l].pc = "lookup" /\ login[l] \in Login
        /\ login[l].email = email[login[l].identity] \/ login[l].identity \in moved
        /\ UNCHANGED <<email, moved, users>>
    BY DEF AccountsInv, AccountsTypeOK, AddressKnown, GetUserByProvider,
           GetUserByProviderFails
  <1>2. CASE \E u \in Found(l) : SignIn(l, u)
    <2>1. PICK u \in Users : /\ Row(u) /\ users[u].identity = login[l].identity
                            /\ SignIn(l, u)
      BY <1>2 DEF Found, Matches
    <2> DEFINE x == [login[l] EXCEPT !.pc = "signedin", !.user = u]
    <2>2. x \in Login /\ x.pc = "signedin" /\ x.user = u /\ x.identity = login[l].identity
      BY <1>1 DEF Login
    <2>3. login' = [login EXCEPT ![l] = x]
      BY <2>1 DEF SignIn
    <2> QED
      BY <1>1, <2>1, <2>2, <2>3, LoginStep
  <1>3. CASE login' = [login EXCEPT ![l].pc = "create"]
    <2> DEFINE x == [login[l] EXCEPT !.pc = "create"]
    <2>1. /\ x \in Login /\ x.pc = "create" /\ x.email = login[l].email
          /\ x.identity = login[l].identity
      BY <1>1 DEF Login
    <2> QED
      BY <1>1, <1>3, <2>1, LoginStep
  <1> QED
    BY <1>2, <1>3 DEF GetUserByProvider, GetUserByProviderFails

\* CreateUser: the UNIQUE constraint lets the row in.
LEMMA CreateNext ==
  ASSUME AccountsInv, NEW l \in Logins, NEW u \in Users, NEW answered \in BOOLEAN,
         CreateUser(l, u, answered)
  PROVE  AccountsInv'
  <1> DEFINE row == [email |-> login[l].email, identity |-> login[l].identity]
  <1>0. AccountsTypeOK /\ AddressKnown /\ AddressesUnique /\ SessionIsOwn
    BY DEF AccountsInv
  <1>1. /\ login[l].pc = "create" /\ login[l] \in Login
        /\ users' = [users EXCEPT ![u] = row] /\ ~Row(u) /\ ~Taken(login[l].email)
        /\ UNCHANGED <<email, moved>>
    BY <1>0 DEF CreateUser, AccountsTypeOK
  <1>2. row \in UserRow /\ row # NoUser
    <2>1. login[l].email \in Emails /\ login[l].identity \in Identities
      BY <1>1 DEF Login
    <2>2. row \in UserRow
      BY <2>1 DEF UserRow
    <2> QED
      BY <2>2, AccountsAssumption
  <1> HIDE DEF row
  <1>3. PICK x \in Login :
          /\ login' = [login EXCEPT ![l] = x]
          /\ x.pc = "out" \/ (x.pc = "signedin" /\ x.user = u /\ x.identity = login[l].identity)
    <2> DEFINE in  == [login[l] EXCEPT !.pc = "signedin", !.user = u]
               out == [login[l] EXCEPT !.pc = "out"]
    <2>1. /\ in \in Login /\ in.pc = "signedin" /\ in.user = u
          /\ in.identity = login[l].identity
          /\ out \in Login /\ out.pc = "out"
      BY <1>1 DEF Login
    <2>2. login' = [login EXCEPT ![l] = in] \/ login' = [login EXCEPT ![l] = out]
      BY DEF CreateUser, SignIn
    <2> QED
      BY <2>1, <2>2
  <1>4. /\ login'[l] = x /\ \A k \in Logins \ {l} : login'[k] = login[k]
        /\ users'[u] = row /\ \A v \in Users \ {u} : users'[v] = users[v]
        /\ row.email = login[l].email /\ row.identity = login[l].identity
    BY <1>0, <1>1, <1>3 DEF AccountsTypeOK, row
  <1>5. \A v \in Users : Row(v)' <=> Row(v) \/ v = u
    BY <1>2, <1>4 DEF Row
  <1>6. AccountsTypeOK'
    BY <1>0, <1>1, <1>2, <1>3 DEF AccountsTypeOK
  <1>7. AddressKnown'
    <2>1. row.email = email[row.identity] \/ row.identity \in moved
      BY <1>0, <1>1, <1>4 DEF AddressKnown
    <2> QED
      BY <1>0, <1>1, <1>3, <1>4, <1>5, <2>1 DEF AddressKnown
  <1>8. AddressesUnique'
    BY <1>0, <1>1, <1>4, <1>5 DEF AddressesUnique, Taken
  <1>9. SessionIsOwn'
    <2>1. ASSUME NEW k \in Sessions' \ {l}
          PROVE  /\ users'[login'[k].user] # NoUser
                 /\ users'[login'[k].user].identity = login'[k].identity
      <3>1. k \in Sessions /\ login'[k] = login[k]
        BY <1>4, <2>1 DEF Sessions
      <3>2. login[k].user \in Users
        BY <1>0, <3>1 DEF Sessions, AccountsTypeOK, Login
      <3>3. Row(login[k].user) /\ login[k].user # u
        BY <1>0, <1>1, <3>1 DEF SessionIsOwn
      <3> QED
        BY <1>0, <1>4, <3>1, <3>2, <3>3 DEF SessionIsOwn, Row
    <2>2. l \in Sessions' => users'[x.user] # NoUser /\ users'[x.user].identity = x.identity
      BY <1>2, <1>3, <1>4 DEF Sessions
    <2> QED
      BY <1>4, <2>1, <2>2 DEF SessionIsOwn, Row
  <1> QED
    BY <1>6, <1>7, <1>8, <1>9 DEF AccountsInv

\* Every step of the logins, the sessions and the providers keeps the invariant.
LEMMA AccountsStep == AccountsInv /\ [AccountsNext]_accounts => AccountsInv'
  <1> SUFFICES ASSUME AccountsInv, [AccountsNext]_accounts PROVE AccountsInv'
    OBVIOUS
  <1>0. AccountsTypeOK /\ AddressKnown /\ AddressesUnique /\ SessionIsOwn
    BY DEF AccountsInv
  <1>1. ASSUME NEW i \in Identities, NEW address \in Emails, ChangeEmail(i, address)
        PROVE  AccountsInv'
    <2>1. /\ email' \in [Identities -> Emails] /\ moved' = moved \cup {i}
          /\ \A k \in Identities \ {i} : email'[k] = email[k]
          /\ UNCHANGED <<users, login>>
      BY <1>0, <1>1 DEF ChangeEmail, AccountsTypeOK
    <2>2. AddressKnown'
      <3>1. ASSUME NEW l \in Logins, login[l].pc \in {"lookup", "create"}
            PROVE  login[l].identity \in Identities
        BY <1>0, <3>1 DEF AccountsTypeOK, Login
      <3>2. ASSUME NEW u \in Users, Row(u) PROVE users[u].identity \in Identities
        BY <1>0, <3>2 DEF AccountsTypeOK, Row, UserRow
      <3> QED
        BY <1>0, <2>1, <3>1, <3>2 DEF AddressKnown, Row
    <2>3. AccountsTypeOK' /\ AddressesUnique' /\ SessionIsOwn'
      BY <1>0, <2>1 DEF AccountsTypeOK, AddressesUnique, SessionIsOwn, Sessions, Row
    <2> QED
      BY <2>2, <2>3 DEF AccountsInv
  <1>2. ASSUME NEW l \in Logins, NEW i \in Identities, Callback(l, i) PROVE AccountsInv'
    <2> DEFINE x == [login[l] EXCEPT !.pc = "lookup", !.identity = i, !.email = email[i]]
    <2>1. /\ login' = [login EXCEPT ![l] = x] /\ login[l].pc = "new" /\ login[l] \in Login
          /\ email[i] \in Emails /\ UNCHANGED <<email, moved, users>>
      BY <1>0, <1>2 DEF Callback, AccountsTypeOK
    <2>2. x \in Login /\ x.pc = "lookup" /\ x.email = email[i] /\ x.identity = i
      BY <2>1 DEF Login
    <2> QED
      BY <2>1, <2>2, LoginStep
  <1>3. ASSUME NEW l \in Logins, CallbackFails(l) \/ CreateUserFails(l) \/ SignOut(l)
        PROVE  AccountsInv'
    <2> DEFINE x == [login[l] EXCEPT !.pc = "out"]
    <2>1. /\ login' = [login EXCEPT ![l] = x] /\ login[l] \in Login
          /\ UNCHANGED <<email, moved, users>>
      BY <1>0, <1>3 DEF CallbackFails, CreateUserFails, SignOut, AccountsTypeOK
    <2>2. x \in Login /\ x.pc = "out"
      BY <2>1 DEF Login
    <2> QED
      BY <2>1, <2>2, LoginStep
  <1>4. ASSUME NEW l \in Logins, RefreshToken(l) PROVE AccountsInv'
    <2>1. /\ login[l].pc = "signedin" /\ login[l] \in Login
          /\ Row(login[l].user) /\ users[login[l].user].identity = login[l].identity
          /\ UNCHANGED <<email, moved, users>>
      BY <1>0, <1>4 DEF RefreshToken, AccountsTypeOK, SessionIsOwn, Sessions
    <2> DEFINE x == [login[l] EXCEPT !.pc = "signedin", !.user = login[l].user]
    <2>2. login' = [login EXCEPT ![l] = x]
      BY <1>4 DEF RefreshToken, Refreshed, SignIn
    <2>3. /\ x \in Login /\ x.pc = "signedin" /\ x.user = login[l].user
          /\ x.user \in Users /\ x.identity = login[l].identity
      BY <2>1 DEF Login
    <2> QED
      BY <2>1, <2>2, <2>3, LoginStep
  <1>5. CASE UNCHANGED accounts
    BY <1>0, <1>5 DEF accounts, AccountsInv, AccountsTypeOK, AddressKnown, AddressesUnique,
                      SessionIsOwn, Sessions, Row
  <1> QED
    BY <1>1, <1>2, <1>3, <1>4, <1>5, LookupNext, CreateNext DEF AccountsNext

\* In every reachable state the rows of users and the sessions are whose they say.
THEOREM AccountsInvariant == AccountsSpec => []AccountsInv
  BY AccountsStart, AccountsStep, PTL DEF AccountsSpec

\* handleOAuthUser creates no second account of an identity whose address did not change,
\* whatever logins overlap and whatever lookups fail.
THEOREM OneAccount == AccountsSpec => []OneAccountUnlessMoved
  <1>1. AccountsInv => OneAccountUnlessMoved
    BY DEF AccountsInv, AddressKnown, AddressesUnique, OneAccountUnlessMoved
  <1> QED
    BY <1>1, AccountsInvariant, PTL

\* GetUserByProvider, CreateUser and RefreshToken sign an identity in to its own account.
THEOREM OwnSession == AccountsSpec => []SessionIsOwn
  <1>1. AccountsInv => SessionIsOwn
    BY DEF AccountsInv
  <1> QED
    BY <1>1, AccountsInvariant, PTL

-----------------------------------------------------------------------------
(* Keys: what is made, revoked and presented on top of the accounts.         *)

\* An empty table of keys.
LEMMA KeysStart == Init => KeysInv
  <1> SUFFICES ASSUME Init PROVE KeysInv
    OBVIOUS
  <1>1. AccountsInv
    BY AccountsStart DEF Init
  <1>2. TypeOK
    BY <1>1 DEF Init, TypeOK, AccountsInv, Request
  <1>3. RowsAreMade /\ RevocationsStick /\ LateRequestsMeetThem /\ RequestsMatchRows
    BY DEF Init, RowsAreMade, RevocationsStick, LateRequestsMeetThem, RequestsMatchRows
  <1> QED
    BY <1>1, <1>2, <1>3 DEF KeysInv

\* A row of users, once there, stays as it is.
LEMMA RowsStay ==
  ASSUME AccountsInv, [AccountsNext]_accounts, NEW u, Row(u)
  PROVE  users'[u] = users[u]
  <1>1. ASSUME NEW l \in Logins, NEW v \in Users, NEW answered \in BOOLEAN,
               CreateUser(l, v, answered)
        PROVE  users'[u] = users[u]
    BY <1>1 DEF CreateUser, AccountsInv, AccountsTypeOK, Row
  <1>2. CASE UNCHANGED users
    BY <1>2
  <1> QED
    BY <1>1, <1>2 DEF AccountsNext, accounts, ChangeEmail, Callback, CallbackFails,
       GetUserByProvider, GetUserByProviderFails, CreateUserFails, RefreshToken, SignOut

\* Logins and providers leave the keys as they are.
LEMMA AccountsUnderKeys ==
  ASSUME KeysInv, AccountsNext, UNCHANGED keys PROVE KeysInv'
  <1>0. /\ AccountsInv /\ TypeOK /\ RowsAreMade /\ RevocationsStick
        /\ LateRequestsMeetThem /\ RequestsMatchRows
        /\ UNCHANGED <<table, maker, told, revoking, request, toucher, late>>
    BY DEF KeysInv, keys
  <1>1. AccountsInv'
    BY <1>0, AccountsStep
  <1>2. TypeOK'
    BY <1>0, <1>1 DEF TypeOK, AccountsInv
  <1>3. RowsAreMade'
    <2>1. \A k \in Keys : table[k] # NoRow =>
            users'[table[k].user] = users[table[k].user]
      BY <1>0, RowsStay DEF RowsAreMade
    <2> QED
      BY <1>0, <2>1 DEF RowsAreMade, Row
  <1>4. RevocationsStick' /\ LateRequestsMeetThem' /\ RequestsMatchRows'
    BY <1>0 DEF RevocationsStick, LateRequestsMeetThem, RequestsMatchRows
  <1> QED
    BY <1>0, <1>1, <1>2, <1>3, <1>4 DEF KeysInv

\* A row of api_keys is none of the other values.
LEMMA KeyRows ==
  /\ \A row \in KeyRow : row # NoRow /\ row.user \in Users /\ row.is_revoked \in BOOLEAN
  /\ \A user \in Users, revoked \in BOOLEAN, used \in BOOLEAN :
       [user |-> user, is_revoked |-> revoked, last_used |-> used] \in KeyRow
  BY KeyAssumption DEF KeyRow

\* A step of the handlers of the dashboard on key k, after which its row is row.
LEMMA KeyStep ==
  ASSUME KeysInv, NEW k \in Keys, NEW row \in KeyRow \cup {NoRow},
         UNCHANGED <<accounts, request, toucher, late>>,
         table' = [table EXCEPT ![k] = row],
         table[k] # NoRow => row # NoRow /\ row.user = table[k].user,
         TypeOK', RowsAreMade', RevocationsStick',
         \A x \in Keys : revoking[x] = "revoked" => revoking'[x] = "revoked"
  PROVE  KeysInv'
  <1>0. /\ AccountsInv /\ TypeOK /\ LateRequestsMeetThem /\ RequestsMatchRows
        /\ UNCHANGED <<email, moved, users, login>>
    BY DEF KeysInv, accounts
  <1>1. AccountsInv'
    BY <1>0, AccountsStep DEF accounts
  <1>2. \A r \in Requests : request[r].pc # "new" => request[r].key \in Keys
    BY <1>0 DEF TypeOK, Request
  <1>3. LateRequestsMeetThem'
    BY <1>0, <1>2 DEF LateRequestsMeetThem, TypeOK
  <1>4. RequestsMatchRows'
    BY <1>0, <1>2 DEF RequestsMatchRows, TypeOK
  <1> QED
    BY <1>1, <1>3, <1>4 DEF KeysInv

\* CreateAPIKey: a row for the account of the session.
LEMMA CreateKeyNext ==
  ASSUME KeysInv, NEW k \in Keys, NEW l \in Logins, NEW ok \in BOOLEAN, CreateAPIKey(k, l, ok)
  PROVE  KeysInv'
  <1> DEFINE row == [user |-> login[l].user, is_revoked |-> FALSE, last_used |-> FALSE]
  <1>0. /\ AccountsInv /\ TypeOK /\ RowsAreMade /\ RevocationsStick
        /\ table[k] = NoRow /\ login[l].pc = "signedin" /\ login[l] \in Login
        /\ table' = [table EXCEPT ![k] = row]
        /\ maker' = [maker EXCEPT ![k] = login[l].identity]
        /\ told' \in {told, told \cup {k}}
        /\ UNCHANGED <<email, moved, users, login, revoking, request, toucher, late>>
    BY DEF KeysInv, CreateAPIKey, Authorized, accounts, AccountsInv, AccountsTypeOK
  <1>1. /\ login[l].user \in Users /\ login[l].identity \in Identities
        /\ Row(login[l].user) /\ users[login[l].user].identity = login[l].identity
    BY <1>0 DEF Login, AccountsInv, SessionIsOwn, Sessions
  <1>2. row \in KeyRow /\ row # NoRow
    BY <1>1, KeyRows
  <1>3. TypeOK'
    <2>1. AccountsTypeOK'
      BY <1>0 DEF AccountsInv, AccountsTypeOK
    <2>2. table' \in [Keys -> KeyRow \cup {NoRow}] /\ maker' \in [Keys -> Identities \cup {NoUser}]
      BY <1>0, <1>1, <1>2 DEF TypeOK
    <2> QED
      BY <1>0, <2>1, <2>2 DEF TypeOK
  <1>4. RowsAreMade'
    <2>1. /\ table'[k] = row /\ maker'[k] = login[l].identity
          /\ \A x \in Keys \ {k} : table'[x] = table[x] /\ maker'[x] = maker[x]
      BY <1>0 DEF TypeOK
    <2> HIDE DEF row
    <2>2. row.user = login[l].user
      BY DEF row
    <2> QED
      BY <1>0, <1>1, <1>2, <2>1, <2>2 DEF RowsAreMade, Row
  <1>5. RevocationsStick'
    BY <1>0 DEF RevocationsStick, RowsAreMade, TypeOK
  <1> QED
    BY <1>0, <1>2, <1>3, <1>4, <1>5, KeyStep DEF accounts

\* The steps of RevokeAPIKey.
LEMMA RevokeNext ==
  ASSUME KeysInv, NEW k \in Keys,
         \/ RevokeAPIKey(k) \/ RevokeFails(k)
         \/ \E resp \in {"200", "404"} : RevokeAnswered(k, resp)
  PROVE  KeysInv'
  <1>0. /\ AccountsInv /\ TypeOK /\ RowsAreMade /\ RevocationsStick
        /\ UNCHANGED <<email, moved, users, login, maker, told, request, toucher, late>>
    BY DEF KeysInv, RevokeAPIKey, RevokeFails, RevokeAnswered, accounts
  <1>1. PICK row \in KeyRow \cup {NoRow}, phase \in {"stored", "revoked", "failed"} :
          /\ table' = [table EXCEPT ![k] = row]
          /\ revoking' = [revoking EXCEPT ![k] = phase]
          /\ table[k] # NoRow /\ row # NoRow /\ row.user = table[k].user
          /\ phase \in {"stored", "revoked"} => row.is_revoked
          /\ revoking[k] # "revoked"
    <2>1. CASE RevokeAPIKey(k)
      <3> DEFINE row == [table[k] EXCEPT !.is_revoked = TRUE]
      <3>1. table[k] \in KeyRow /\ table[k] # NoRow
        BY <1>0, <2>1 DEF RevokeAPIKey, TypeOK
      <3>2. row \in KeyRow /\ row # NoRow /\ row.user = table[k].user /\ row.is_revoked
        <4>1. row \in KeyRow /\ row.user = table[k].user /\ row.is_revoked
          BY <3>1 DEF KeyRow
        <4> QED
          BY <4>1, KeyRows
      <3> QED
        BY <2>1, <3>1, <3>2 DEF RevokeAPIKey
    <2>2. CASE RevokeFails(k) \/ \E resp \in {"200", "404"} : RevokeAnswered(k, resp)
      <3>1. table' = [table EXCEPT ![k] = table[k]] /\ table[k] \in KeyRow \cup {NoRow}
        BY <1>0, <2>2 DEF RevokeFails, RevokeAnswered, TypeOK
      <3>2. table[k] # NoRow
        BY <1>0, <2>2 DEF RevokeFails, RevokeAnswered, RevocationsStick
      <3>3. PICK phase \in {"revoked", "failed"} :
              /\ revoking' = [revoking EXCEPT ![k] = phase]
              /\ phase = "revoked" => revoking[k] = "stored"
              /\ revoking[k] # "revoked"
        BY <2>2 DEF RevokeFails, RevokeAnswered
      <3> QED
        BY <1>0, <3>1, <3>2, <3>3 DEF RevocationsStick
    <2> QED
      BY <2>1, <2>2
  <1>2. /\ table'[k] = row /\ revoking'[k] = phase
        /\ \A x \in Keys \ {k} : table'[x] = table[x] /\ revoking'[x] = revoking[x]
    BY <1>0, <1>1 DEF TypeOK
  <1>3. TypeOK'
    <2>1. AccountsTypeOK'
      BY <1>0 DEF AccountsInv, AccountsTypeOK
    <2> QED
      BY <1>0, <1>1, <2>1 DEF TypeOK
  <1>4. RowsAreMade' /\ RevocationsStick'
    BY <1>0, <1>1, <1>2 DEF RowsAreMade, RevocationsStick, Row
  <1>5. \A x \in Keys : revoking[x] = "revoked" => revoking'[x] = "revoked"
    BY <1>1, <1>2
  <1> QED
    BY <1>0, <1>1, <1>3, <1>4, <1>5, KeyStep DEF accounts

\* A step of request r, after which it is q, that does not write the table.
LEMMA RequestStep ==
  ASSUME KeysInv, NEW r \in Requests, NEW q \in Request,
         UNCHANGED <<accounts, table, maker, told, revoking>>,
         request' = [request EXCEPT ![r] = q],
         toucher' \in [Requests -> {"none", "started", "ended"}], late' \in SUBSET Requests,
         \A x \in Requests \ {r} : (toucher'[x] = toucher[x]) /\ (x \in late' <=> x \in late),
         q.pc # "new" => table[q.key] # NoRow,
         q.pc = "admitted" => q.row.user = table[q.key].user,
         toucher'[r] = "started" => q.pc = "admitted",
         r \in late' => q.pc \in {"sent", "refused"} /\ revoking[q.key] = "revoked"
  PROVE  KeysInv'
  <1>0. /\ AccountsInv /\ TypeOK /\ RowsAreMade /\ RevocationsStick
        /\ LateRequestsMeetThem /\ RequestsMatchRows
        /\ UNCHANGED <<email, moved, users, login>>
    BY DEF KeysInv, accounts
  <1>1. AccountsInv'
    BY <1>0, AccountsStep DEF accounts
  <1>2. request'[r] = q /\ \A x \in Requests \ {r} : request'[x] = request[x]
    BY <1>0 DEF TypeOK
  <1>3. TypeOK'
    BY <1>0, <1>1 DEF TypeOK, AccountsInv
  <1>4. RowsAreMade' /\ RevocationsStick'
    BY <1>0 DEF RowsAreMade, RevocationsStick, Row
  <1>5. LateRequestsMeetThem'
    BY <1>0, <1>2 DEF LateRequestsMeetThem
  <1>6. RequestsMatchRows'
    BY <1>0, <1>2 DEF RequestsMatchRows
  <1> QED
    BY <1>1, <1>3, <1>4, <1>5, <1>6 DEF KeysInv

\* A request arrives with a key its sender has.
LEMMA SendKeyNext ==
  ASSUME KeysInv, NEW r \in Requests, NEW k \in Keys, Send(r, k) PROVE KeysInv'
  <1> DEFINE q == [pc |-> "sent", key |-> k, row |-> NoRow]
  <1>0. /\ TypeOK /\ LateRequestsMeetThem
        /\ request[r].pc = "new" /\ k \in told /\ table[k] # NoRow
        /\ request' = [request EXCEPT ![r] = q]
        /\ late' = IF revoking[k] = "revoked" THEN late \cup {r} ELSE late
        /\ UNCHANGED <<accounts, table, maker, told, revoking>> /\ toucher' = toucher
    BY DEF KeysInv, Send, RowsAreMade
  <1>1. q \in Request
    BY DEF Request
  <1>2. r \notin late /\ toucher[r] # "started"
    BY <1>0 DEF LateRequestsMeetThem, KeysInv, RequestsMatchRows
  <1>3. toucher' \in [Requests -> {"none", "started", "ended"}] /\ late' \in SUBSET Requests
    BY <1>0 DEF TypeOK
  <1> QED
    BY <1>0, <1>1, <1>2, <1>3, RequestStep

\* The check of APIKeyMiddleware, or its failure.
LEMMA CheckKeyNext ==
  ASSUME KeysInv, NEW r \in Requests, Check(r) \/ CheckFails(r) PROVE KeysInv'
  <1>0. PICK k : k = request[r].key
    OBVIOUS
  <1>1. /\ TypeOK /\ RevocationsStick /\ LateRequestsMeetThem /\ RequestsMatchRows
        /\ request[r].pc = "sent" /\ request[r] \in Request
        /\ UNCHANGED <<accounts, table, maker, told, revoking>> /\ late' = late
    BY DEF KeysInv, Check, CheckFails, TypeOK
  <1>2. /\ k \in Keys /\ table[k] \in KeyRow /\ table[k] # NoRow
        /\ request[r] = [pc |-> "sent", key |-> k, row |-> NoRow]
    BY <1>0, <1>1 DEF Request, RequestsMatchRows, TypeOK
  <1>3. r \in late => revoking[k] = "revoked" /\ table[k].is_revoked
    BY <1>0, <1>1, <1>2 DEF LateRequestsMeetThem, RevocationsStick
  <1>4. toucher[r] # "started"
    BY <1>1 DEF RequestsMatchRows
  <1>5. PICK q \in Request :
          /\ request' = [request EXCEPT ![r] = q]
          /\ q.key = k /\ q.pc \in {"refused", "admitted"}
          /\ q.pc = "admitted" => q.row = table[k] /\ ~table[k].is_revoked
          /\ toucher'[r] = "started" => q.pc = "admitted"
          /\ toucher' \in [Requests -> {"none", "started", "ended"}]
          /\ \A x \in Requests \ {r} : toucher'[x] = toucher[x]
    <2>1. CASE Check(r) /\ ~table[k].is_revoked
      <3> DEFINE q == [pc |-> "admitted", key |-> k, row |-> table[k]]
      <3>1. q \in Request
        BY <1>2, <2>1 DEF Request
      <3>2. request' = [request EXCEPT ![r] = q] /\ toucher' = [toucher EXCEPT ![r] = "started"]
        BY <1>0, <1>1, <1>2, <2>1 DEF Check, Usable
      <3>3. q.key = k /\ q.pc = "admitted" /\ q.row = table[k]
        OBVIOUS
      <3> HIDE DEF q
      <3> QED
        BY <1>1, <2>1, <3>1, <3>2, <3>3 DEF TypeOK
    <2>2. CASE Check(r) /\ table[k].is_revoked
      <3> DEFINE q == [pc |-> "refused", key |-> k, row |-> table[k]]
      <3>1. q \in Request
        BY <1>2, <2>2 DEF Request
      <3>2. request' = [request EXCEPT ![r] = q] /\ toucher' = toucher
        <4>1. request' = [request EXCEPT ![r] = q]
          BY <1>0, <1>1, <1>2, <2>2 DEF Check, Usable
        <4>2. toucher' = [toucher EXCEPT ![r] = toucher[r]]
          BY <1>0, <1>2, <2>2 DEF Check, Usable
        <4> QED
          BY <1>1, <4>1, <4>2 DEF TypeOK
      <3> QED
        BY <1>1, <1>4, <3>1, <3>2 DEF TypeOK
    <2>3. CASE CheckFails(r)
      <3> DEFINE q == [pc |-> "refused", key |-> k, row |-> NoRow]
      <3>1. q \in Request
        BY <1>2 DEF Request
      <3>2. [request[r] EXCEPT !.pc = "refused"] = q
        BY <1>2
      <3>3. request' = [request EXCEPT ![r] = q] /\ toucher' = toucher
        BY <1>0, <1>1, <1>2, <2>3, <3>2 DEF CheckFails
      <3> QED
        BY <1>1, <1>4, <3>1, <3>3 DEF TypeOK
    <2> QED
      BY <1>2, <2>1, <2>2, <2>3
  <1>6. late' \in SUBSET Requests
    BY <1>1 DEF TypeOK
  <1> QED
    BY <1>1, <1>2, <1>3, <1>4, <1>5, <1>6, RequestStep

\* UpdateLastUsed, or its failure: last_used_at of a row, whatever became of the row since
\* it was read.
LEMMA TouchNext ==
  ASSUME KeysInv, NEW r \in Requests, UpdateLastUsed(r) \/ UpdateLastUsedFails(r)
  PROVE  KeysInv'
  <1>0. PICK k : k = request[r].key
    OBVIOUS
  <1>1. /\ AccountsInv /\ TypeOK /\ RowsAreMade /\ RevocationsStick
        /\ LateRequestsMeetThem /\ RequestsMatchRows
        /\ toucher[r] = "started" /\ toucher' = [toucher EXCEPT ![r] = "ended"]
        /\ UNCHANGED <<email, moved, users, login, maker, told, revoking, request, late>>
    BY DEF KeysInv, UpdateLastUsed, UpdateLastUsedFails, accounts
  <1>2. /\ k \in Keys /\ table[k] \in KeyRow /\ table[k] # NoRow
    BY <1>0, <1>1 DEF Request, RequestsMatchRows, TypeOK
  <1>3. PICK row \in KeyRow : /\ table' = [table EXCEPT ![k] = row] /\ row # NoRow
                              /\ row.user = table[k].user
                              /\ row.is_revoked = table[k].is_revoked
    <2>1. CASE UpdateLastUsed(r)
      <3> DEFINE row == [table[k] EXCEPT !.last_used = TRUE]
      <3>1. /\ row \in KeyRow /\ row.user = table[k].user
            /\ row.is_revoked = table[k].is_revoked
        BY <1>2 DEF KeyRow
      <3>2. table' = [table EXCEPT ![k] = row]
        BY <1>0, <2>1 DEF UpdateLastUsed, Touched
      <3> QED
        BY <3>1, <3>2, KeyRows
    <2>2. CASE UpdateLastUsedFails(r)
      <3>1. table' = [table EXCEPT ![k] = table[k]]
        BY <1>1, <1>2, <2>2 DEF UpdateLastUsedFails, TypeOK
      <3> QED
        BY <1>2, <3>1
    <2> QED
      BY <2>1, <2>2
  <1>4. /\ table'[k] = row /\ \A x \in Keys \ {k} : table'[x] = table[x]
        /\ \A x \in Requests : toucher'[x] = "started" => toucher[x] = "started"
    BY <1>1, <1>2, <1>3 DEF TypeOK
  <1>5. AccountsInv'
    BY <1>1, AccountsStep DEF accounts
  <1>6. TypeOK'
    BY <1>1, <1>3, <1>5 DEF TypeOK, AccountsInv
  <1>7. RowsAreMade' /\ RevocationsStick'
    BY <1>1, <1>2, <1>3, <1>4 DEF RowsAreMade, RevocationsStick, Row
  <1>8. LateRequestsMeetThem'
    BY <1>1 DEF LateRequestsMeetThem
  <1>9. RequestsMatchRows'
    <2>1. \A x \in Requests : request[x].pc # "new" => request[x].key \in Keys
      BY <1>1 DEF TypeOK, Request
    <2> QED
      BY <1>1, <1>3, <1>4, <2>1 DEF RequestsMatchRows
  <1> QED
    BY <1>5, <1>6, <1>7, <1>8, <1>9 DEF KeysInv

\* Every step keeps the invariant.
LEMMA KeysNext == KeysInv /\ [Next]_vars => KeysInv'
  <1> SUFFICES ASSUME KeysInv, [Next]_vars PROVE KeysInv'
    OBVIOUS
  <1>1. CASE UNCHANGED vars
    <2>1. UNCHANGED accounts /\ UNCHANGED keys
      BY <1>1 DEF vars
    <2>2. /\ UNCHANGED <<email, moved, users, login>>
          /\ UNCHANGED <<table, maker, told, revoking, request, toucher, late>>
      BY <2>1 DEF accounts, keys
    <2>3. AccountsInv'
      BY <2>1, AccountsStep DEF KeysInv
    <2>4. TypeOK' /\ RowsAreMade' /\ RevocationsStick'
      BY <2>2, <2>3 DEF KeysInv, TypeOK, AccountsInv, RowsAreMade, RevocationsStick, Row
    <2>5. LateRequestsMeetThem' /\ RequestsMatchRows'
      BY <2>2 DEF KeysInv, LateRequestsMeetThem, RequestsMatchRows
    <2> QED
      BY <2>3, <2>4, <2>5 DEF KeysInv
  <1> QED
    BY <1>1, AccountsUnderKeys, CreateKeyNext, RevokeNext, SendKeyNext, CheckKeyNext, TouchNext
       DEF Next

\* In every reachable state keys, requests and accounts go together.
THEOREM KeysInvariant == Spec => []KeysInv
  BY KeysStart, KeysNext, PTL DEF Spec

\* The types: what APIKeyMiddleware lets through was read unrevoked.
THEOREM KeysTypeCorrect == Spec => []TypeOK
  <1>1. KeysInv => TypeOK
    BY DEF KeysInv
  <1> QED
    BY <1>1, KeysInvariant, PTL

\* No request sent after the answer of RevokeAPIKey is let through by APIKeyMiddleware.
THEOREM RevocationIsFinal == Spec => []RevokedKeyIsRefused
  <1>1. KeysInv => RevokedKeyIsRefused
    BY DEF KeysInv, LateRequestsMeetThem, RevokedKeyIsRefused
  <1> QED
    BY <1>1, KeysInvariant, PTL

\* CreateEvent stores an event for an account of the identity that made the key, the one
\* that identity sees unless its address changed.
THEOREM EventsAreOwned == Spec => []EventsReachTheirOwner
  <1>1. ASSUME KeysInv PROVE EventsReachTheirOwner
    <2> SUFFICES ASSUME NEW r \in Requests, request[r].pc = "admitted"
                 PROVE  LET owner == maker[request[r].key]
                            user  == request[r].row.user
                        IN  /\ users[user].identity = owner
                            /\ \A l \in Sessions :
                                 login[l].identity = owner /\ owner \notin moved
                                   => login[l].user = user
      BY DEF EventsReachTheirOwner
    <2>1. /\ request[r].key \in Keys /\ table[request[r].key] # NoRow
          /\ request[r].row.user = table[request[r].key].user
          /\ request[r].row.user \in Users
      BY <1>1 DEF KeysInv, TypeOK, Request, KeyRow, RequestsMatchRows
    <2>2. /\ Row(request[r].row.user)
          /\ users[request[r].row.user].identity = maker[request[r].key]
      BY <1>1, <2>1 DEF KeysInv, RowsAreMade
    <2>3. OneAccountUnlessMoved /\ SessionIsOwn
      BY <1>1 DEF KeysInv, AccountsInv, AddressKnown, AddressesUnique, OneAccountUnlessMoved
    <2>4. \A l \in Sessions : login[l].user \in Users
      BY <1>1 DEF KeysInv, TypeOK, AccountsTypeOK, Sessions, Login
    <2> QED
      BY <2>1, <2>2, <2>3, <2>4 DEF OneAccountUnlessMoved, SessionIsOwn, Sessions
  <1> QED
    BY <1>1, KeysInvariant, PTL

\* The steps on keys do not touch accounts, whose theorems hold of the whole.
THEOREM KeysLeaveAccountsAlone == Spec => AccountsSpec
  <1>1. Init => AccountsInit
    BY DEF Init
  <1>2. [Next]_vars => [AccountsNext]_accounts
    BY DEF Next, vars, CreateAPIKey, RevokeAPIKey, RevokeAnswered, RevokeFails, Send, Check,
           CheckFails, UpdateLastUsed, UpdateLastUsedFails
  <1> QED
    BY <1>1, <1>2, PTL DEF Spec, AccountsSpec
=============================================================================
