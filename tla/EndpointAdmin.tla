--------------------------- MODULE EndpointAdmin ---------------------------
(***************************************************************************)
(* The endpoints table under the handlers of endpoint_handler.go and       *)
(* ListActiveEndpointsByEventType (internal/model/endpoint.go).  Update    *)
(* and Delete read the row, change the copy and write every column back,   *)
(* in two queries of no common transaction, so writes of other requests    *)
(* fall between.                                                           *)
(*                                                                         *)
(* url, secret, event_types, max_retries and timeout_ms are treated alike  *)
(* by the code: Settings stands for them.  circuit_state and               *)
(* consecutive_failures are written back as they were read and by nobody   *)
(* else.                                                                   *)
(***************************************************************************)
EXTENDS Naturals, FiniteSets

CONSTANTS
  Ids,        \* endpoint IDs
  Requests,   \* requests, each handled by a goroutine of its own
  Settings,   \* columns a request may set, other than is_active
  Values,     \* values of a setting
  NoRow       \* an ID that is not in the table

ASSUME AdminAssumption ==
  /\ "is_active" \notin Settings
  /\ NoRow \notin [Settings \cup {"is_active"} -> Values \cup BOOLEAN]

Columns == Settings \cup {"is_active"}

EndpointRow ==
  {row \in [Columns -> Values \cup BOOLEAN] :
     row["is_active"] \in BOOLEAN /\ \A s \in Settings : row[s] \in Values}

\* A JSON body: the fields it has.  A DELETE changes what {"is_active": false} would.
Patches ==
  UNION {{patch \in [set -> Values \cup BOOLEAN] :
            \A f \in set : IF f = "is_active" THEN patch[f] \in BOOLEAN
                                              ELSE patch[f] \in Values}
         : set \in SUBSET Columns}

Deactivation == [f \in {"is_active"} |-> FALSE]

VARIABLES
  table,     \* the rows of endpoints
  request,   \* the handler goroutines
  overtaken, \* history: requests whose row was written by another after they read it
  deleted    \* history: rows with an answered DELETE and no activating PUT written since

vars == <<table, request, overtaken, deleted>>

\* copy: ep, as the handler changed it.
Request == [pc    : {"new", "write", "done"},
            kind  : {"none", "PUT", "DELETE"},
            id    : Ids \cup {NoRow},
            patch : Patches,
            copy  : EndpointRow \cup {NoRow},
            resp  : {"none", "200", "201", "404", "500"}]

\* The types: a row of endpoints keeps all its columns through UpdateEndpoint.
TypeOK ==
  /\ table \in [Ids -> EndpointRow \cup {NoRow}]
  /\ request \in [Requests -> Request]
  /\ overtaken \in SUBSET Requests
  /\ deleted \in SUBSET Ids

Unused == [f \in {} |-> FALSE]

NewRequest == [pc |-> "new", kind |-> "none", id |-> NoRow, patch |-> Unused,
               copy |-> NoRow, resp |-> "none"]

Init ==
  /\ table = [id \in Ids |-> NoRow]
  /\ request = [r \in Requests |-> NewRequest]
  /\ overtaken = {}
  /\ deleted = {}

\* Mutant: a field that the body leaves out is reset, is_active to false.
PatchedResettingActive(row, patch) ==
  [f \in Columns |-> IF f \in DOMAIN patch THEN patch[f]
                     ELSE IF f = "is_active" THEN FALSE ELSE row[f]]

\* The non-nil fields of the body, over the row that was read.
Patched(row, patch) ==
  [f \in Columns |-> IF f \in DOMAIN patch THEN patch[f] ELSE row[f]]

Answered(r, resp) == [request[r] EXCEPT !.pc = "done", !.resp = resp]

-----------------------------------------------------------------------------
\* POST: the row is inserted with a fresh ID, active.
CreateEndpoint(r, id, settings) ==
  /\ request[r].pc = "new"
  /\ table[id] = NoRow
  /\ table' = [table EXCEPT ![id] =
                 [f \in Columns |-> IF f = "is_active" THEN TRUE ELSE settings[f]]]
  /\ request' = [request EXCEPT ![r] = Answered(r, "201")]
  /\ UNCHANGED <<overtaken, deleted>>

\* The insert fails, or its reply is lost after the commit (then the client does not
\* know the ID).
CreateEndpointFails(r, id, settings, stored) ==
  /\ request[r].pc = "new"
  /\ table[id] = NoRow
  /\ table' = IF stored
              THEN [table EXCEPT ![id] =
                      [f \in Columns |-> IF f = "is_active" THEN TRUE ELSE settings[f]]]
              ELSE table
  /\ request' = [request EXCEPT ![r] = Answered(r, "500")]
  /\ UNCHANGED <<overtaken, deleted>>

\* GetEndpointByID finds nothing, or fails: both are answered 404.
ReadFails(r) ==
  /\ request[r].pc = "new"
  /\ request' = [request EXCEPT ![r] = Answered(r, "404")]
  /\ UNCHANGED <<table, overtaken, deleted>>

\* PUT and DELETE: GetEndpointByID, then the copy is changed.
Read(r, kind, id, patch) ==
  /\ request[r].pc = "new"
  /\ table[id] # NoRow
  /\ kind = "DELETE" => patch = Deactivation
  /\ request' = [request EXCEPT ![r] =
                   [pc |-> "write", kind |-> kind, id |-> id, patch |-> patch,
                    copy |-> Patched(table[id], patch), resp |-> "none"]]
  /\ UNCHANGED <<table, overtaken, deleted>>

\* UpdateEndpoint writes every column.  The answer is 500 when the reply of the
\* database is lost after the commit.
Write(r, resp) ==
  LET id == request[r].id
  IN  /\ request[r].pc = "write"
      /\ table' = [table EXCEPT ![id] = request[r].copy]
      /\ request' = [request EXCEPT ![r] = Answered(r, resp)]
      /\ overtaken' = overtaken \cup
                        {q \in Requests \ {r} : request[q].pc = "write" /\ request[q].id = id}
      /\ deleted' =
           IF request[r].kind = "DELETE" /\ resp = "200" THEN deleted \cup {id}
           ELSE IF "is_active" \in DOMAIN request[r].patch /\ request[r].patch["is_active"]
           THEN deleted \ {id} ELSE deleted

\* The update fails before it is committed.
WriteFails(r) ==
  /\ request[r].pc = "write"
  /\ request' = [request EXCEPT ![r] = Answered(r, "500")]
  /\ UNCHANGED <<table, overtaken, deleted>>

HandlerStep(r) ==
  \/ \E id \in Ids, settings \in [Settings -> Values] :
       \/ CreateEndpoint(r, id, settings)
       \/ \E stored \in BOOLEAN : CreateEndpointFails(r, id, settings, stored)
  \/ ReadFails(r)
  \/ \E id \in Ids, patch \in Patches, kind \in {"PUT", "DELETE"} : Read(r, kind, id, patch)
  \/ \E resp \in {"200", "500"} : Write(r, resp)
  \/ WriteFails(r)

Next == \E r \in Requests : HandlerStep(r)

Spec == Init /\ [][Next]_vars

-----------------------------------------------------------------------------
\* A write changes the columns its body names and no others, unless another request
\* wrote the row after this one read it: then the older values of every other column
\* come back (UpdateEndpoint, DeleteEndpoint).
OnlyNamedColumnsChange ==
  [][\A r \in Requests :
       /\ request[r].pc = "write"
       /\ request'[r].pc = "done"
       /\ r \notin overtaken
       => \A f \in Columns \ DOMAIN request[r].patch :
            table'[request[r].id][f] = table[request[r].id][f]]_vars

\* endpoint_handler.go:149 says DELETE is a "logical delete: is_active = false", and it
\* answers "endpoint deactivated": the endpoint is then inactive until a PUT that says
\* is_active true.
DeactivatedStays == \A id \in deleted : table[id]["is_active"] = FALSE
-----------------------------------------------------------------------------
(* What makes OnlyNamedColumnsChange inductive.                              *)

\* The copy that a request is about to write is the row as it is now with the columns of
\* the body changed, unless another wrote the row in between.
CopiesAreFresh ==
  \A r \in Requests :
    request[r].pc = "write" =>
      /\ request[r].id \in Ids
      /\ table[request[r].id] # NoRow
      /\ request[r].copy # NoRow
      /\ r \notin overtaken =>
           request[r].copy = Patched(table[request[r].id], request[r].patch)

\* The inductive invariant of EndpointProofs.
AdminInv == TypeOK /\ CopiesAreFresh
=============================================================================
