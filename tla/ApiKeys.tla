------------------------------ MODULE ApiKeys ------------------------------
(***************************************************************************)
(* API keys: creating and revoking one (internal/handler/                  *)
(* api_key_handler.go, internal/model/api_key.go) while requests of        *)
(* POST /api/v1/events are checked against the table by APIKeyMiddleware   *)
(* (internal/auth/middleware.go).  The check and the update of             *)
(* last_used_at, in a goroutine of its own, are two queries; a revocation  *)
(* may be committed before, between or after them.                         *)
(*                                                                         *)
(* A key stands for its row too: SHA-256 of a random key finds one row.    *)
(* Keys are made and revoked in the sessions of module Accounts.           *)
(***************************************************************************)
EXTENDS Accounts

CONSTANTS
  Keys,      \* keys that may be made
  Requests,  \* requests for an event, each sent with a key
  NoRow,     \* a key that is not in the table
  NoKey      \* the key of a request not sent yet

ASSUME KeyAssumption ==
  /\ NoRow \notin [user : Users, is_revoked : BOOLEAN, last_used : BOOLEAN]
  /\ NoKey \notin Keys

VARIABLES
  table,     \* the rows of api_keys
  maker,     \* history: the identity whose session made a key
  told,      \* the keys whose creation was answered 201: clients have no others
  revoking,  \* how far the DELETE of a key is
  request,   \* the requests, in the middleware
  toucher,   \* the goroutine that a request starts for last_used_at
  late       \* history: requests sent after a revocation of their key was answered

keys == <<table, maker, told, revoking, request, toucher, late>>
vars == <<accounts, keys>>

\* last_used: whether last_used_at is set.
KeyRow == [user : Users, is_revoked : BOOLEAN, last_used : BOOLEAN]

\* row: the APIKey that GetAPIKeyByHash returned; a request let through has one that
\* was not revoked.
Request ==
  [pc : {"new"}, key : {NoKey}, row : {NoRow}]
    \cup [pc : {"sent"}, key : Keys, row : {NoRow}]
    \cup [pc : {"refused"}, key : Keys, row : KeyRow \cup {NoRow}]
    \cup [pc : {"admitted"}, key : Keys, row : {row \in KeyRow : ~row.is_revoked}]

\* The types: what APIKeyMiddleware lets through was read unrevoked.
TypeOK ==
  /\ AccountsTypeOK
  /\ table \in [Keys -> KeyRow \cup {NoRow}]
  /\ maker \in [Keys -> Identities \cup {NoUser}]
  /\ told \in SUBSET Keys
  /\ revoking \in [Keys -> {"none", "stored", "revoked", "failed"}]
  /\ request \in [Requests -> Request]
  /\ toucher \in [Requests -> {"none", "started", "ended"}]
  /\ late \in SUBSET Requests

Init ==
  /\ AccountsInit
  /\ table = [k \in Keys |-> NoRow]
  /\ maker = [k \in Keys |-> NoUser]
  /\ told = {}
  /\ revoking = [k \in Keys |-> "none"]
  /\ request = [r \in Requests |-> [pc |-> "new", key |-> NoKey, row |-> NoRow]]
  /\ toucher = [r \in Requests |-> "none"]
  /\ late = {}

-----------------------------------------------------------------------------
(* The handlers of the dashboard.                                            *)

\* The raw key is in the 201 answer and nowhere else.  The insert may be committed
\* and its reply lost: answered 500, the row has a key that nobody knows.
CreateAPIKey(k, l, ok) ==
  /\ Authorized(l)
  /\ table[k] = NoRow
  /\ table' = [table EXCEPT ![k] = [user |-> login[l].user, is_revoked |-> FALSE,
                                    last_used |-> FALSE]]
  /\ maker' = [maker EXCEPT ![k] = login[l].identity]
  /\ told' = IF ok THEN told \cup {k} ELSE told
  /\ UNCHANGED <<accounts, revoking, request, toucher, late>>

\* The UPDATE commits.  Its ID is on the dashboard whether the key was told or not.
RevokeAPIKey(k) ==
  /\ \E l \in Logins : Authorized(l)
  /\ table[k] # NoRow
  /\ revoking[k] \in {"none", "failed"}
  /\ table' = [table EXCEPT ![k].is_revoked = TRUE]
  /\ revoking' = [revoking EXCEPT ![k] = "stored"]
  /\ UNCHANGED <<accounts, maker, told, request, toucher, late>>

\* 200, or 404 because the reply of the database was lost.
RevokeAnswered(k, resp) ==
  /\ revoking[k] = "stored"
  /\ revoking' = [revoking EXCEPT ![k] = IF resp = "200" THEN "revoked" ELSE "failed"]
  /\ UNCHANGED <<accounts, maker, table, told, request, toucher, late>>

\* The UPDATE fails, answered 404.
RevokeFails(k) ==
  /\ \E l \in Logins : Authorized(l)
  /\ table[k] # NoRow
  /\ revoking[k] = "none"
  /\ revoking' = [revoking EXCEPT ![k] = "failed"]
  /\ UNCHANGED <<accounts, maker, table, told, request, toucher, late>>

-----------------------------------------------------------------------------
(* APIKeyMiddleware.                                                         *)

Send(r, k) ==
  /\ request[r].pc = "new"
  /\ k \in told
  /\ request' = [request EXCEPT ![r] = [pc |-> "sent", key |-> k, row |-> NoRow]]
  /\ late' = IF revoking[k] = "revoked" THEN late \cup {r} ELSE late
  /\ UNCHANGED <<accounts, maker, table, told, revoking, toucher>>

\* Mutant: a key that was found is good.
UsableIfFound(row) == row # NoRow

Usable(row) == row # NoRow /\ ~row.is_revoked

\* GetAPIKeyByHash, the test of IsRevoked and, before the handler runs, the go
\* statement.
Check(r) ==
  LET row == table[request[r].key]
  IN  /\ request[r].pc = "sent"
      /\ request' = [request EXCEPT ![r] =
                       [pc |-> IF Usable(row) THEN "admitted" ELSE "refused",
                        key |-> @.key, row |-> row]]
      /\ toucher' = [toucher EXCEPT ![r] = IF Usable(row) THEN "started" ELSE @]
      /\ UNCHANGED <<accounts, maker, table, told, revoking, late>>

\* The query fails: 401, the key is taken for invalid.
CheckFails(r) ==
  /\ request[r].pc = "sent"
  /\ request' = [request EXCEPT ![r].pc = "refused"]
  /\ UNCHANGED <<accounts, maker, table, told, revoking, toucher, late>>

\* Mutant: the row is written as the middleware read it.
TouchedWhole(now, read) == [read EXCEPT !.last_used = TRUE]

\* UpdateLastUsed sets one column of the row as it is now.
Touched(now, read) == [now EXCEPT !.last_used = TRUE]

UpdateLastUsed(r) ==
  LET k == request[r].key
  IN  /\ toucher[r] = "started"
      /\ toucher' = [toucher EXCEPT ![r] = "ended"]
      /\ table' = [table EXCEPT ![k] = Touched(table[k], request[r].row)]
      /\ UNCHANGED <<accounts, maker, told, revoking, request, late>>

\* Its error is dropped; the process may exit before it runs.
UpdateLastUsedFails(r) ==
  /\ toucher[r] = "started"
  /\ toucher' = [toucher EXCEPT ![r] = "ended"]
  /\ UNCHANGED <<accounts, maker, table, told, revoking, request, late>>

Next ==
  \/ AccountsNext /\ UNCHANGED keys
  \/ \E k \in Keys :
       \/ \E l \in Logins, ok \in BOOLEAN : CreateAPIKey(k, l, ok)
       \/ RevokeAPIKey(k)
       \/ \E resp \in {"200", "404"} : RevokeAnswered(k, resp)
       \/ RevokeFails(k)
       \/ \E r \in Requests : Send(r, k)
  \/ \E r \in Requests :
       \/ Check(r)
       \/ CheckFails(r)
       \/ UpdateLastUsed(r)
       \/ UpdateLastUsedFails(r)

Spec == Init /\ [][Next]_vars

-----------------------------------------------------------------------------
\* Revoking is final: a request sent after the answer "API key revoked" is never let
\* through, whatever checks and last_used_at updates of earlier requests were
\* still under way when the key was revoked (RevokeAPIKey, APIKeyMiddleware).
RevokedKeyIsRefused == \A r \in late : request[r].pc # "admitted"

\* An event that is let through is stored for, and fanned out to the endpoints of, an
\* account of the identity that made its key; and unless that identity's address
\* changed, the account is the one each of its sessions shows, whichever login found or
\* created it (handleOAuthUser, RefreshToken, CreateAPIKey, APIKeyMiddleware).
EventsReachTheirOwner ==
  \A r \in Requests :
    LET owner == maker[request[r].key]
        user  == request[r].row.user
    IN  request[r].pc = "admitted" =>
          /\ users[user].identity = owner
          /\ \A l \in Sessions :
               login[l].identity = owner /\ owner \notin moved => login[l].user = user

-----------------------------------------------------------------------------
(* What makes these inductive.                                               *)

\* A key has a row before anybody has it, filed under an account of its maker.
RowsAreMade ==
  \A k \in Keys :
    IF table[k] = NoRow THEN k \notin told /\ revoking[k] = "none"
    ELSE Row(table[k].user) /\ users[table[k].user].identity = maker[k]

\* A revocation that is stored stays stored.
RevocationsStick ==
  \A k \in Keys : revoking[k] \in {"stored", "revoked"} =>
    table[k] # NoRow /\ table[k].is_revoked

\* A late request has not been let through and finds its key revoked.
LateRequestsMeetThem ==
  \A r \in late :
    request[r].pc \in {"sent", "refused"} /\ revoking[request[r].key] = "revoked"

\* A request has a key that has a row, and what was read of it but is_revoked and
\* last_used_at never changes.
RequestsMatchRows ==
  \A r \in Requests :
    /\ request[r].pc # "new" => table[request[r].key] # NoRow
    /\ request[r].pc = "admitted" => request[r].row.user = table[request[r].key].user
    /\ toucher[r] = "started" => request[r].pc = "admitted"

\* The inductive invariant of KeysProofs.
KeysInv ==
  /\ AccountsInv
  /\ TypeOK
  /\ RowsAreMade
  /\ RevocationsStick
  /\ LateRequestsMeetThem
  /\ RequestsMatchRows
=============================================================================
