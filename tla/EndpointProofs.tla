--------------------------- MODULE EndpointProofs ---------------------------
(***************************************************************************)
(* For any number of requests, endpoints, settings and values: columns     *)
(* that a request does not name change by lost updates only.               *)
(***************************************************************************)
EXTENDS EndpointAdmin, TLAPS

\* No row, no request.
LEMMA AdminStart == Init => AdminInv
  <1> SUFFICES ASSUME Init PROVE AdminInv
    OBVIOUS
  <1>1. Unused \in Patches
    <2>1. Unused \in [{} -> Values \cup BOOLEAN]
      BY DEF Unused
    <2> QED
      BY <2>1 DEF Patches
  <1>2. NewRequest \in Request
    BY <1>1 DEF NewRequest, Request
  <1> QED
    BY <1>2 DEF Init, AdminInv, TypeOK, CopiesAreFresh, NewRequest

\* A body over a row is a row.
LEMMA PatchedRows ==
  ASSUME NEW row \in EndpointRow, NEW patch \in Patches PROVE Patched(row, patch) \in EndpointRow
  <1>1. PICK set \in SUBSET Columns :
          /\ patch \in [set -> Values \cup BOOLEAN]
          /\ \A f \in set : IF f = "is_active" THEN patch[f] \in BOOLEAN ELSE patch[f] \in Values
    BY DEF Patches
  <1>2. ASSUME NEW f \in Columns
        PROVE  IF f = "is_active" THEN Patched(row, patch)[f] \in BOOLEAN
                                  ELSE Patched(row, patch)[f] \in Values
    BY <1>1 DEF Patched, EndpointRow, Columns
  <1>3. Patched(row, patch) \in [Columns -> Values \cup BOOLEAN]
    BY <1>2 DEF Patched
  <1>4. "is_active" \in Columns /\ \A s \in Settings : s \in Columns /\ s # "is_active"
    BY AdminAssumption DEF Columns
  <1> QED
    BY <1>2, <1>3, <1>4 DEF EndpointRow

\* A row that POST inserts.
LEMMA CreatedRows ==
  ASSUME NEW settings \in [Settings -> Values]
  PROVE  [f \in Columns |-> IF f = "is_active" THEN TRUE ELSE settings[f]] \in EndpointRow
  BY AdminAssumption DEF EndpointRow, Columns

\* A row is none of the other values.
LEMMA RowsAreRows == \A row \in EndpointRow : row # NoRow
  BY AdminAssumption DEF EndpointRow, Columns

\* An answer that ends a request and leaves the table.
LEMMA AnswerStep ==
  ASSUME AdminInv, NEW r \in Requests, NEW resp \in {"201", "404", "500"},
         UNCHANGED <<overtaken, deleted>>,
         request' = [request EXCEPT ![r] = Answered(r, resp)],
         \/ UNCHANGED table
         \/ \E id \in Ids, row \in EndpointRow :
              table[id] = NoRow /\ table' = [table EXCEPT ![id] = row]
  PROVE  AdminInv'
  <1>0. request[r] \in Request
    BY DEF AdminInv, TypeOK
  <1>1. /\ Answered(r, resp) \in Request /\ Answered(r, resp).pc = "done"
    BY <1>0 DEF Request, Answered
  <1>2. TypeOK'
    BY <1>1 DEF AdminInv, TypeOK
  <1>3. \A q \in Requests : request'[q].pc = "write" =>
          /\ request'[q] = request[q] /\ request[q].pc = "write"
          /\ table'[request[q].id] = table[request[q].id]
    BY <1>1 DEF AdminInv, TypeOK, CopiesAreFresh
  <1>4. CopiesAreFresh'
    BY <1>3 DEF AdminInv, CopiesAreFresh
  <1> QED
    BY <1>2, <1>4 DEF AdminInv

\* PUT and DELETE read.
LEMMA ReadStep ==
  ASSUME AdminInv, NEW r \in Requests, NEW kind \in {"PUT", "DELETE"}, NEW id \in Ids,
         NEW patch \in Patches, Read(r, kind, id, patch)
  PROVE  AdminInv'
  <1> DEFINE q == [pc |-> "write", kind |-> kind, id |-> id, patch |-> patch,
                   copy |-> Patched(table[id], patch), resp |-> "none"]
  <1>1. table[id] \in EndpointRow
    BY DEF AdminInv, TypeOK, Read
  <1>2. q \in Request
    BY <1>1, PatchedRows DEF Request
  <1>3. TypeOK'
    BY <1>2 DEF AdminInv, TypeOK, Read
  <1>4. CopiesAreFresh'
    <2>1. /\ request'[r] = q /\ UNCHANGED <<table, overtaken>> /\ table[id] # NoRow
          /\ \A x \in Requests \ {r} : request'[x] = request[x]
      BY DEF AdminInv, TypeOK, Read
    <2>2. q.copy # NoRow
      BY <1>1, PatchedRows, RowsAreRows
    <2> QED
      BY <2>1, <2>2 DEF AdminInv, CopiesAreFresh
  <1> QED
    BY <1>3, <1>4 DEF AdminInv

\* The whole row is written; whoever has read the one before is overtaken.
LEMMA WriteStep ==
  ASSUME AdminInv, NEW r \in Requests, NEW resp \in {"200", "500"}, Write(r, resp)
  PROVE  AdminInv'
  <1> DEFINE id == request[r].id
  <1>1. /\ TypeOK /\ CopiesAreFresh /\ request[r] \in Request /\ request[r].pc = "write"
        /\ id \in Ids
        /\ table' = [table EXCEPT ![id] = request[r].copy]
        /\ request' = [request EXCEPT ![r] = Answered(r, resp)]
        /\ overtaken' = overtaken \cup
             {q \in Requests \ {r} : request[q].pc = "write" /\ request[q].id = id}
        /\ deleted' \in {deleted, deleted \cup {id}, deleted \ {id}}
    BY DEF AdminInv, TypeOK, CopiesAreFresh, Write
  <1>2. Answered(r, resp) \in Request /\ Answered(r, resp).pc = "done"
    BY <1>1 DEF Request, Answered
  <1>3. request[r].copy \in EndpointRow
    BY <1>1 DEF CopiesAreFresh, Request
  <1>4. TypeOK'
    BY <1>1, <1>2, <1>3 DEF TypeOK
  <1>5. CopiesAreFresh'
    <2>1. ASSUME NEW q \in Requests, request'[q].pc = "write"
          PROVE  /\ q # r /\ request'[q] = request[q] /\ request[q].pc = "write"
                 /\ request[q].id # id => table'[request[q].id] = table[request[q].id]
                 /\ request[q].id = id => q \in overtaken' /\ table'[id] # NoRow
      BY <1>1, <1>2, <1>3, <2>1, RowsAreRows DEF TypeOK, CopiesAreFresh
    <2> QED
      BY <1>1, <2>1 DEF CopiesAreFresh
  <1> QED
    BY <1>4, <1>5 DEF AdminInv

\* Any step.
LEMMA AdminStep == AdminInv /\ [Next]_vars => AdminInv'
  <1> SUFFICES ASSUME AdminInv, [Next]_vars PROVE AdminInv'
    OBVIOUS
  <1>1. CASE UNCHANGED vars
    BY <1>1 DEF AdminInv, TypeOK, CopiesAreFresh, vars
  <1>2. ASSUME NEW r \in Requests, HandlerStep(r) PROVE AdminInv'
    <2>1. ASSUME NEW id \in Ids, NEW settings \in [Settings -> Values],
                 \/ CreateEndpoint(r, id, settings)
                 \/ \E stored \in BOOLEAN : CreateEndpointFails(r, id, settings, stored)
          PROVE  AdminInv'
      <3> DEFINE row == [f \in Columns |-> IF f = "is_active" THEN TRUE ELSE settings[f]]
      <3>1. row \in EndpointRow
        BY CreatedRows
      <3>2. /\ UNCHANGED <<overtaken, deleted>> /\ table[id] = NoRow
            /\ table' = table \/ table' = [table EXCEPT ![id] = row]
            /\ \E resp \in {"201", "404", "500"} :
                 request' = [request EXCEPT ![r] = Answered(r, resp)]
        BY <2>1 DEF CreateEndpoint, CreateEndpointFails
      <3> QED
        BY <3>1, <3>2, AnswerStep
    <2>2. CASE ReadFails(r) \/ WriteFails(r)
      <3>1. /\ UNCHANGED <<table, overtaken, deleted>>
            /\ \E resp \in {"201", "404", "500"} :
                 request' = [request EXCEPT ![r] = Answered(r, resp)]
        BY <2>2 DEF ReadFails, WriteFails
      <3> QED
        BY <3>1, AnswerStep
    <2>3. CASE \E id \in Ids, patch \in Patches, kind \in {"PUT", "DELETE"} :
                 Read(r, kind, id, patch)
      BY <2>3, ReadStep
    <2>4. CASE \E resp \in {"200", "500"} : Write(r, resp)
      BY <2>4, WriteStep
    <2> QED
      BY <1>2, <2>1, <2>2, <2>3, <2>4 DEF HandlerStep
  <1> QED
    BY <1>1, <1>2 DEF Next

LEMMA AdminInvariant == Spec => []AdminInv
  BY AdminStart, AdminStep, PTL DEF Spec

-----------------------------------------------------------------------------
\* A row of endpoints keeps all its columns.
THEOREM AdminTypeCorrect == Spec => []TypeOK
  BY AdminInvariant, PTL DEF AdminInv

\* PUT and DELETE change nothing that their body does not name, unless another request
\* wrote the row between their two queries (UpdateEndpoint, DeleteEndpoint).
THEOREM OthersColumnsStay == Spec => OnlyNamedColumnsChange
  <1> DEFINE A == \A r \in Requests :
                    /\ request[r].pc = "write"
                    /\ request'[r].pc = "done"
                    /\ r \notin overtaken
                    => \A f \in Columns \ DOMAIN request[r].patch :
                         table'[request[r].id][f] = table[request[r].id][f]
  <1>1. AdminInv /\ [Next]_vars => A
    <2> SUFFICES ASSUME AdminInv, [Next]_vars, NEW r \in Requests,
                        request[r].pc = "write", request'[r].pc = "done", r \notin overtaken,
                        NEW f \in Columns \ DOMAIN request[r].patch
                 PROVE  table'[request[r].id][f] = table[request[r].id][f]
      OBVIOUS
    <2>1. request[r].id \in Ids /\ request[r].copy = Patched(table[request[r].id], request[r].patch)
      BY DEF AdminInv, CopiesAreFresh
    <2>2. WriteFails(r) \/ \E resp \in {"200", "500"} : Write(r, resp)
      <3>1. PICK q \in Requests : HandlerStep(q)
        BY DEF Next, vars
      <3>2. request'[r] # request[r] /\ \A x \in Requests \ {q} : request'[x] = request[x]
        BY <3>1 DEF AdminInv, TypeOK, HandlerStep, CreateEndpoint, CreateEndpointFails,
           ReadFails, Read, Write, WriteFails
      <3>3. q = r
        BY <3>2
      <3> QED
        BY <3>1, <3>3 DEF HandlerStep, CreateEndpoint, CreateEndpointFails, ReadFails, Read
    <2>3. CASE WriteFails(r)
      BY <2>3 DEF WriteFails
    <2>4. CASE \E resp \in {"200", "500"} : Write(r, resp)
      <3>1. table'[request[r].id] = request[r].copy
        BY <2>1, <2>4 DEF Write, AdminInv, TypeOK
      <3> QED
        BY <2>1, <3>1 DEF Patched
    <2> QED
      BY <2>2, <2>3, <2>4
  <1> QED
    BY <1>1, AdminInvariant, PTL DEF Spec, OnlyNamedColumnsChange
=============================================================================
