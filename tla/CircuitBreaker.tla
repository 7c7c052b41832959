--------------------------- MODULE CircuitBreaker ---------------------------
(***************************************************************************)
(* The circuit breaker of one endpoint (internal/circuit/breaker.go): a    *)
(* record of the two fields that change, and one operator per method.      *)
(* Every method holds cb.mu for its whole body, so each operator is one    *)
(* atomic step wherever it is used.  BreakerProtocol and Delivery use these *)
(* operators; the threshold never changes after NewBreaker.                *)
(***************************************************************************)
EXTENDS Integers

CONSTANTS
  Threshold,         \* the threshold argument of NewBreaker
  DefaultThreshold   \* the constant that replaces a threshold <= 0

ASSUME ThresholdAssumption ==
  /\ Threshold \in Int
  /\ DefaultThreshold \in Nat \ {0}

State == {"CLOSED", "OPEN", "HALF_OPEN"}

Breaker == [state : State, failures : Nat]

\* cb.threshold as NewBreaker stores it.
Limit == IF Threshold <= 0 THEN DefaultThreshold ELSE Threshold

NewBreaker == [state |-> "CLOSED", failures |-> 0]

\* Mutant: a success takes one failure off the count.
RecordSuccessDecrements(cb) == [state |-> "CLOSED", failures |-> cb.failures - 1]

\* Mutant: a success clears the state but not the count.
RecordSuccessKeepsCount(cb) == [cb EXCEPT !.state = "CLOSED"]

RecordSuccess(cb) == [state |-> "CLOSED", failures |-> 0]

RecordFailure(cb) ==
  LET n == cb.failures + 1
  IN  [state |-> IF n >= Limit THEN "OPEN" ELSE cb.state, failures |-> n]

\* Mutant: the state is never consulted.
IsOpenNever(cb) == FALSE

IsOpen(cb) == cb.state = "OPEN"

\* Reset, called by tests only: nothing in the server calls it.
Reset(cb) == IF cb.state = "OPEN" THEN [cb EXCEPT !.state = "HALF_OPEN"] ELSE cb
=============================================================================
