------------------------------ MODULE Verdicts ------------------------------
(***************************************************************************)
(* What a delivery attempt's outcome means: ShouldRetry                    *)
(* (internal/delivery/retry.go) and the decision that executeDelivery and  *)
(* recordFailure (internal/delivery/worker.go) take from it.  No state.    *)
(***************************************************************************)
EXTENDS Integers

\* An attempt that brought no HTTP response: the request could not be built,
\* the connection failed, the 30 s client timeout or the context ended it.
NoResponse == 0

\* A row of delivery_logs, the columns the protocol depends on; retry says that
\* next_retry_at is not NULL.
Row == [status : {"PENDING", "SUCCESS", "FAILED"}, attempt : Nat, retry : BOOLEAN]

\* The row CreateDeliveryLog inserts before the request is made.
FirstRow == [status |-> "PENDING", attempt |-> 1, retry |-> FALSE]

Is2xx(code) == code \in 200..299

\* Client errors that another attempt would not repair.
\* Mutant: 404 is missing from the switch.
PermanentWithout404(code) == code \in {400, 401, 403}

Permanent(code) == code \in {400, 401, 403, 404}

ShouldRetry(code) == ~Is2xx(code) /\ ~Permanent(code)

\* Mutant: the retry time is computed and not stored.
ScheduledWithoutTime(attempt) ==
  [status |-> "PENDING", attempt |-> attempt + 1, retry |-> FALSE]

\* The row as ScheduleRetry leaves it.
Scheduled(attempt) == [status |-> "PENDING", attempt |-> attempt + 1, retry |-> TRUE]

\* The in-memory row after the branch on the response and recordFailure.
Verdict(code, attempt, maxRetries) ==
  IF Is2xx(code)
  THEN [status |-> "SUCCESS", attempt |-> attempt, retry |-> FALSE]
  ELSE IF \/ code # NoResponse /\ ~ShouldRetry(code)
          \/ attempt >= maxRetries
       THEN [status |-> "FAILED", attempt |-> attempt, retry |-> FALSE]
       ELSE Scheduled(attempt)
=============================================================================
