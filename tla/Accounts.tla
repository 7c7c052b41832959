------------------------------ MODULE Accounts ------------------------------
(***************************************************************************)
(* Logging in: the OAuth callbacks and handleOAuthUser                     *)
(* (internal/handler/auth_handler.go) find or create a row of users        *)
(* (internal/model/user.go) in two queries, and the tokens they issue      *)
(* (internal/auth/jwt.go) carry its ID until they expire or are refreshed. *)
(*                                                                         *)
(* users has a UNIQUE e-mail and no uniqueness of (provider, provider_id), *)
(* by which rows are found; no code updates or deletes a row.              *)
(***************************************************************************)
CONSTANTS
  Identities,  \* accounts at a provider: a pair of provider and provider_id
  Emails,      \* the e-mail addresses these may have
  Users,       \* IDs that rows of users may get
  Logins,      \* logins: a callback and the browser session that follows it
  NoUser       \* no row, no e-mail, no identity

UserRow == [email : Emails, identity : Identities]

ASSUME AccountsAssumption == NoUser \notin Users \cup Emails \cup Identities \cup UserRow

VARIABLES
  email,  \* the e-mail address a provider gives for an identity
  moved,  \* history: identities whose e-mail address has changed
  users,  \* the rows of users
  login   \* the callbacks and sessions

accounts == <<email, moved, users, login>>

\* A session is signed in while one of its tokens is valid, the access token (15 minutes)
\* or the refresh token (7 days): AuthMiddleware and RefreshToken take either.
\* user: the user_id claim of both.
Login ==
  [pc : {"new"}, identity : {NoUser}, email : {NoUser}, user : {NoUser}]
    \cup [pc : {"lookup", "create"}, identity : Identities, email : Emails, user : {NoUser}]
    \cup [pc : {"signedin"}, identity : Identities, email : Emails, user : Users]
    \cup [pc : {"out"}, identity : Identities \cup {NoUser}, email : Emails \cup {NoUser},
          user : Users \cup {NoUser}]

AccountsTypeOK ==
  /\ email \in [Identities -> Emails]
  /\ moved \in SUBSET Identities
  /\ users \in [Users -> UserRow \cup {NoUser}]
  /\ login \in [Logins -> Login]

AccountsInit ==
  /\ email \in [Identities -> Emails]
  /\ moved = {}
  /\ users = [u \in Users |-> NoUser]
  /\ login = [l \in Logins |->
                [pc |-> "new", identity |-> NoUser, email |-> NoUser, user |-> NoUser]]

\* The owner changes the address at the provider, who tells nobody.
ChangeEmail(i, address) ==
  /\ email[i] # address
  /\ email' = [email EXCEPT ![i] = address]
  /\ moved' = moved \cup {i}
  /\ UNCHANGED <<users, login>>

-----------------------------------------------------------------------------
(* GoogleCallback, GitHubCallback and handleOAuthUser.                       *)

Row(u) == users[u] # NoUser

SignIn(l, u) == login' = [login EXCEPT ![l] = [@ EXCEPT !.pc = "signedin", !.user = u]]

\* The code is exchanged and the user info fetched: it is the provider's word of now.
Callback(l, i) ==
  /\ login[l].pc = "new"
  /\ login' = [login EXCEPT ![l] = [@ EXCEPT !.pc = "lookup", !.identity = i,
                                             !.email = email[i]]]
  /\ UNCHANGED <<email, moved, users>>

\* No code, a failed exchange or no user info (also a GitHub account with neither a public
\* nor a verified primary address): answered 400, 401 or 500.
CallbackFails(l) ==
  /\ login[l].pc = "new"
  /\ login' = [login EXCEPT ![l].pc = "out"]
  /\ UNCHANGED <<email, moved, users>>

\* Mutant: the account is found by its e-mail address (GetUserByEmail).
MatchesByEmail(row, who) == row.email = who.email

Matches(row, who) == row.identity = who.identity

Found(l) == {u \in Users : Row(u) /\ Matches(users[u], login[l])}

\* GetUserByProvider.  The query has no order: any of several rows may come first.
GetUserByProvider(l) ==
  /\ login[l].pc = "lookup"
  /\ \/ \E u \in Found(l) : SignIn(l, u)
     \/ Found(l) = {} /\ login' = [login EXCEPT ![l].pc = "create"]
  /\ UNCHANGED <<email, moved, users>>

\* Any error of the query is taken for "not found".
GetUserByProviderFails(l) ==
  /\ login[l].pc = "lookup"
  /\ login' = [login EXCEPT ![l].pc = "create"]
  /\ UNCHANGED <<email, moved, users>>

\* Mutant: users.email is not UNIQUE.
NeverTaken(address) == FALSE

\* The UNIQUE constraint of users.email.
Taken(address) == \E u \in Users : Row(u) /\ users[u].email = address

\* CreateUser inserts.  answered: the reply of the database arrives; otherwise the row is
\* committed and the login answered 500.
CreateUser(l, u, answered) ==
  LET who == login[l]
  IN  /\ who.pc = "create"
      /\ ~Taken(who.email)
      /\ ~Row(u)
      /\ users' = [users EXCEPT ![u] = [email |-> who.email, identity |-> who.identity]]
      /\ \/ answered /\ SignIn(l, u)
         \/ ~answered /\ login' = [login EXCEPT ![l].pc = "out"]
      /\ UNCHANGED <<email, moved>>

\* The insert fails, which it does whenever the address is taken: answered 500.
CreateUserFails(l) ==
  /\ login[l].pc = "create"
  /\ login' = [login EXCEPT ![l].pc = "out"]
  /\ UNCHANGED <<email, moved, users>>

-----------------------------------------------------------------------------
(* The session.                                                              *)

\* AuthMiddleware lets a request through that has a valid token.
Authorized(l) == login[l].pc = "signedin"

\* Mutant: the account is looked up again by what its row says of the identity's address.
RefreshedByEmail(l) ==
  {u \in Users : Row(u) /\ users[u].email = email[users[login[l].user].identity]}

\* GetUserByID with the user_id claim of the refresh token.
Refreshed(l) == {u \in Users : Row(u) /\ u = login[l].user}

\* RefreshToken: two new tokens for the row that is found.
RefreshToken(l) ==
  /\ login[l].pc = "signedin"
  /\ \E u \in Refreshed(l) : SignIn(l, u)
  /\ UNCHANGED <<email, moved, users>>

\* Logout, which the server does not remember, the refusal of a refresh (401, also for a
\* failed query) or the end of both tokens: the browser has to log in again.
SignOut(l) ==
  /\ login[l].pc = "signedin"
  /\ login' = [login EXCEPT ![l].pc = "out"]
  /\ UNCHANGED <<email, moved, users>>

AccountsNext ==
  \/ \E i \in Identities, address \in Emails : ChangeEmail(i, address)
  \/ \E l \in Logins :
       \/ \E i \in Identities : Callback(l, i)
       \/ CallbackFails(l)
       \/ GetUserByProvider(l)
       \/ GetUserByProviderFails(l)
       \/ \E u \in Users, answered \in BOOLEAN : CreateUser(l, u, answered)
       \/ CreateUserFails(l)
       \/ RefreshToken(l)
       \/ SignOut(l)

AccountsSpec == AccountsInit /\ [][AccountsNext]_accounts

-----------------------------------------------------------------------------
Sessions == {l \in Logins : login[l].pc = "signedin"}

\* One identity has one account, although nothing in the table says so: overlapping
\* first logins and lookups that fail try to insert a second row, and only the UNIQUE
\* e-mail stops them, unless the owner changed the address in between
\* (handleOAuthUser, CreateUser).
OneAccountUnlessMoved ==
  \A u, v \in Users :
    Row(u) /\ Row(v) /\ users[u].identity = users[v].identity /\ u # v
      => users[u].identity \in moved

\* A session is a session of an account of the identity that logged in, through every
\* refresh, also when another identity has the same address (GetUserByProvider,
\* RefreshToken).
SessionIsOwn ==
  \A l \in Sessions :
    Row(login[l].user) /\ users[login[l].user].identity = login[l].identity

-----------------------------------------------------------------------------
(* What makes these inductive.                                               *)

\* What a login in progress and a row say of an identity is its address, as long as that
\* has not changed.
AddressKnown ==
  /\ \A l \in Logins : login[l].pc \in {"lookup", "create"} =>
       login[l].email = email[login[l].identity] \/ login[l].identity \in moved
  /\ \A u \in Users : Row(u) =>
       users[u].email = email[users[u].identity] \/ users[u].identity \in moved

\* The UNIQUE constraint holds of the table.
AddressesUnique ==
  \A u, v \in Users : Row(u) /\ Row(v) /\ users[u].email = users[v].email => u = v

\* The inductive invariant of KeysProofs for accounts: it follows that two rows of one identity
\* have different addresses, so that one of them is not its address any more.
AccountsInv ==
  /\ AccountsTypeOK
  /\ AddressKnown
  /\ AddressesUnique
  /\ SessionIsOwn
=============================================================================
