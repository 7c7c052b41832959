--------------------------- MODULE DeliveryLedger ---------------------------
(***************************************************************************)
(* What the delivery pipeline promises of a job, without handlers, queue,  *)
(* workers, breakers and processes: the job is accepted once and closed    *)
(* once; while it is open its row is inserted, then the event is posted,   *)
(* then the row gets a verdict that is true of the answer.  A closed job   *)
(* is never taken up again, neither by this process nor by a later one.    *)
(*                                                                         *)
(* Module DeliveryProperties shows that Delivery implements it.            *)
(***************************************************************************)
EXTENDS Verdicts, Sequences

CONSTANTS
  Jobs,     \* the deliveries there may be: an event for an endpoint
  Codes     \* HTTP status codes an endpoint may answer

VARIABLES
  stage,    \* of a job: "none", "open" (accepted and not settled), "closed"
  logs,     \* the rows of delivery_logs of a job
  received  \* what the endpoint answered to the requests of a job

ledger == <<stage, logs, received>>

Init ==
  /\ stage = [j \in Jobs |-> "none"]
  /\ logs = [j \in Jobs |-> <<>>]
  /\ received = [j \in Jobs |-> <<>>]

\* What the row of a job may come to say: that it was delivered, that it never will be,
\* that a second attempt is due.
Outcomes == {[status |-> "SUCCESS", attempt |-> 1, retry |-> FALSE],
             [status |-> "FAILED",  attempt |-> 1, retry |-> FALSE],
             [status |-> "PENDING", attempt |-> 2, retry |-> TRUE]}

\* SUCCESS is said of a 2xx and of nothing else; an answer that is a permanent error
\* is not tried again.
Justified(row, answers) ==
  /\ row.status = "SUCCESS" <=> \E i \in 1..Len(answers) : Is2xx(answers[i])
  /\ row.retry => \A i \in 1..Len(answers) : ~Permanent(answers[i])

\* Dispatch sends the job.
Accept(j) ==
  /\ stage[j] = "none"
  /\ stage' = [stage EXCEPT ![j] = "open"]
  /\ UNCHANGED <<logs, received>>

\* The row of the job is committed; if its reply is lost that closes the job.
Insert(j, known) ==
  /\ stage[j] = "open"
  /\ logs[j] = <<>>
  /\ logs' = [logs EXCEPT ![j] = <<FirstRow>>]
  /\ stage' = IF known THEN stage ELSE [stage EXCEPT ![j] = "closed"]
  /\ UNCHANGED received

\* The endpoint gets the event.
Deliver(j, code) ==
  /\ stage[j] = "open"
  /\ logs[j] = <<FirstRow>>
  /\ received[j] = <<>>
  /\ received' = [received EXCEPT ![j] = <<code>>]
  /\ UNCHANGED <<stage, logs>>

\* The verdict is saved.
Settle(j, row) ==
  /\ stage[j] = "open"
  /\ logs[j] = <<FirstRow>>
  /\ Justified(row, received[j])
  /\ logs' = [logs EXCEPT ![j] = <<row>>]
  /\ stage' = [stage EXCEPT ![j] = "closed"]
  /\ UNCHANGED received

\* Jobs are given up as they are: the breaker is open, a database call failed, or the
\* process ended, which closes all that are open.
Close(js) ==
  /\ \A j \in js : stage[j] = "open"
  /\ stage' = [j \in Jobs |-> IF j \in js THEN "closed" ELSE stage[j]]
  /\ UNCHANGED <<logs, received>>

Next ==
  \/ \E j \in Jobs :
       \/ Accept(j)
       \/ \E known \in BOOLEAN : Insert(j, known)
       \/ \E code \in Codes \cup {NoResponse} : Deliver(j, code)
       \/ \E row \in Outcomes : Settle(j, row)
  \/ \E js \in SUBSET Jobs : Close(js)

Spec == Init /\ [][Next]_ledger

-----------------------------------------------------------------------------
\* A job that is closed stays closed, and its rows and the requests made for it stay what
\* they are: no second verdict, no late request, no recovery by a new process (nothing but
\* executeDelivery updates a row, and it is called once for a job).
ClosedStays ==
  \A j \in Jobs : stage[j] = "closed" =>
    stage'[j] = "closed" /\ logs'[j] = logs[j] /\ received'[j] = received[j]

ClosedIsFinal == [][ClosedStays]_ledger
=============================================================================
