-------------------------- MODULE BreakerProtocol --------------------------
(***************************************************************************)
(* The circuit breakers of internal/circuit/breaker.go as their concurrent *)
(* callers see them.  A delivery asks IsOpen, then does I/O, then reports  *)
(* RecordSuccess or RecordFailure: each method is atomic under cb.mu, but  *)
(* the sequence is not, so reports of deliveries admitted long ago arrive   *)
(* at a breaker that has changed since.                                    *)
(*                                                                         *)
(* The breakers live in the memory of one process (BreakerManager.breakers). *)
(* GetBreaker creates an entry on first use; an entry that is not there yet *)
(* cannot be told from a fresh one, so the map is total here.              *)
(***************************************************************************)
EXTENDS CircuitBreaker, FiniteSets

CONSTANTS
  Callers,     \* the goroutines that deliver (the engine's workers)
  Endpoints,   \* endpoint IDs, the keys of BreakerManager.breakers
  MaxResets,   \* bound: calls of Reset per endpoint and process lifetime
  NoCall       \* a caller that is not between IsOpen and its report

ASSUME ProtocolAssumption ==
  /\ IsFiniteSet(Callers)
  /\ MaxResets \in Nat

\* A delivery that IsOpen let through; probe says it was let through HALF_OPEN.
Call == [endpoint : Endpoints, probe : BOOLEAN]

ASSUME NoCallAssumption == NoCall \notin Call

VARIABLES
  breakers,    \* BreakerManager.breakers
  calls,       \* what each caller has been admitted for
  resets       \* how often Reset was called on each breaker

vars == <<breakers, calls, resets>>

\* The types: states and counts stay in the domain of breaker.go, a call in flight
\* is one that IsOpen let through.
TypeOK ==
  /\ breakers \in [Endpoints -> Breaker]
  /\ calls \in [Callers -> Call \cup {NoCall}]
  /\ resets \in [Endpoints -> Nat]

Init ==
  /\ breakers = [e \in Endpoints |-> NewBreaker]
  /\ calls = [c \in Callers |-> NoCall]
  /\ resets = [e \in Endpoints |-> 0]

\* The callers admitted to e that have not reported yet.
InFlight(e) == {c \in Callers : calls[c] # NoCall /\ calls[c].endpoint = e}

-----------------------------------------------------------------------------
\* Mutant: IsOpen lets a call through OPEN as a probe, moving to HALF_OPEN itself.
AdmitProbesOpen(c, e) ==
  /\ calls[c] = NoCall
  /\ calls' = [calls EXCEPT ![c] = [endpoint |-> e, probe |-> IsOpen(breakers[e])]]
  /\ breakers' = [breakers EXCEPT ![e] = Reset(@)]
  /\ UNCHANGED resets

\* GetBreaker and IsOpen say no: the caller goes on (a refusal changes nothing,
\* so it is a stuttering step and has no action).  They say yes: the call starts.
Admit(c, e) ==
  /\ calls[c] = NoCall
  /\ ~IsOpen(breakers[e])
  /\ calls' = [calls EXCEPT ![c] =
                 [endpoint |-> e, probe |-> breakers[e].state = "HALF_OPEN"]]
  /\ UNCHANGED <<breakers, resets>>

ReportSuccess(c) ==
  /\ calls[c] # NoCall
  /\ breakers' = [breakers EXCEPT ![calls[c].endpoint] = RecordSuccess(@)]
  /\ calls' = [calls EXCEPT ![c] = NoCall]
  /\ UNCHANGED resets

ReportFailure(c) ==
  /\ calls[c] # NoCall
  /\ breakers' = [breakers EXCEPT ![calls[c].endpoint] = RecordFailure(@)]
  /\ calls' = [calls EXCEPT ![c] = NoCall]
  /\ UNCHANGED resets

\* The caller returns between the two (its log row could not be inserted).
Abandon(c) ==
  /\ calls[c] # NoCall
  /\ calls' = [calls EXCEPT ![c] = NoCall]
  /\ UNCHANGED <<breakers, resets>>

CallReset(e) ==
  /\ resets[e] < MaxResets
  /\ breakers' = [breakers EXCEPT ![e] = Reset(@)]
  /\ resets' = [resets EXCEPT ![e] = @ + 1]
  /\ UNCHANGED calls

\* The process ends and a new one starts: NewBreakerManager, nobody calling.
Restart ==
  /\ breakers' = [e \in Endpoints |-> NewBreaker]
  /\ calls' = [c \in Callers |-> NoCall]
  /\ resets' = [e \in Endpoints |-> 0]

Next ==
  \/ \E c \in Callers :
       \/ \E e \in Endpoints : Admit(c, e)
       \/ ReportSuccess(c)
       \/ ReportFailure(c)
       \/ Abandon(c)
  \/ \E e \in Endpoints : CallReset(e)
  \/ Restart

Spec == Init /\ [][Next]_vars

-----------------------------------------------------------------------------
\* A breaker is CLOSED exactly while its count is below the threshold: neither a
\* late success, nor a late failure, nor Reset can separate state from count.
StateMatchesFailures ==
  \A e \in Endpoints : breakers[e].state = "CLOSED" <=> breakers[e].failures < Limit

\* The check-then-act window is bounded: after the breaker opens, only calls that
\* were already in flight add to its count, at most one per caller, plus one more
\* round of callers for each Reset.  Without Reset (the server) an endpoint that
\* only fails is hit at most Limit - 1 + |Callers| times.
OvershootBounded ==
  \A e \in Endpoints :
    breakers[e].failures + Cardinality(InFlight(e))
      <= Limit - 1 + Cardinality(Callers) * (1 + resets[e])

\* What OvershootBounded rests on: a probe phase starts with a count that leaves
\* room for one more round of callers.
HalfOpenLeavesRoom ==
  \A e \in Endpoints :
    breakers[e].state = "HALF_OPEN"
      => breakers[e].failures <= Limit - 1 + Cardinality(Callers) * resets[e]

\* The inductive invariant of BreakerProofs.
BreakerInv ==
  TypeOK /\ StateMatchesFailures /\ HalfOpenLeavesRoom /\ OvershootBounded

\* An OPEN breaker changes only by the report of a call admitted before it opened,
\* by Reset or with a new process.  In the server, which never calls Reset, OPEN
\* with nobody in flight is final for the life of the process.
OpenChangeIsExplained ==
  \A e \in Endpoints :
    breakers[e].state = "OPEN" /\ breakers'[e] # breakers[e]
      => InFlight(e) # {} \/ resets'[e] > resets[e] \/ Restart

OpenIsLeftOnlyByLateSuccessOrReset == [][OpenChangeIsExplained]_vars

\* breaker.go:61 says that Reset allows "a single probe request": at most one
\* call admitted through HALF_OPEN is in flight to an endpoint.
SingleProbe ==
  \A e \in Endpoints :
    Cardinality({c \in InFlight(e) : calls[c].probe}) <= 1
=============================================================================
