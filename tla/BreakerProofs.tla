--------------------------- MODULE BreakerProofs ---------------------------
(***************************************************************************)
(* For any number of callers and endpoints, any threshold and any number   *)
(* of calls of Reset: the invariants of BreakerProtocol and its action     *)
(* property.                                                               *)
(***************************************************************************)
EXTENDS BreakerProtocol, FiniteSetTheorems, TLAPS

\* NewBreaker never stores a threshold below one.
LEMMA LimitPositive == Limit \in Nat /\ Limit >= 1
  BY ThresholdAssumption DEF Limit

\* Each method maps a well-formed breaker to one, and keeps state and count together.
LEMMA MethodsPreserve ==
  ASSUME NEW cb \in Breaker, cb.state = "CLOSED" <=> cb.failures < Limit
  PROVE  /\ RecordSuccess(cb) \in Breaker /\ RecordFailure(cb) \in Breaker
         /\ Reset(cb) \in Breaker
         /\ RecordSuccess(cb).state = "CLOSED" <=> RecordSuccess(cb).failures < Limit
         /\ RecordFailure(cb).state = "CLOSED" <=> RecordFailure(cb).failures < Limit
         /\ Reset(cb).state = "CLOSED" <=> Reset(cb).failures < Limit
  BY LimitPositive DEF Breaker, State, RecordSuccess, RecordFailure, Reset

\* The calls in flight to an endpoint are callers, so finitely many.
LEMMA InFlightFinite ==
  ASSUME NEW e
  PROVE  /\ IsFiniteSet(InFlight(e))
         /\ Cardinality(InFlight(e)) \in Nat
         /\ Cardinality(InFlight(e)) <= Cardinality(Callers)
         /\ Cardinality(Callers) \in Nat
  <1>1. InFlight(e) \in SUBSET Callers
    BY DEF InFlight
  <1> QED
    BY <1>1, ProtocolAssumption, FS_Subset, FS_CardinalityType

\* A report, or an abandoned call, takes its caller out of the calls in flight.
LEMMA CallEnds ==
  ASSUME TypeOK, NEW c \in Callers, calls[c] # NoCall,
         calls' = [calls EXCEPT ![c] = NoCall], NEW e
  PROVE  Cardinality(InFlight(e)') =
           Cardinality(InFlight(e)) - (IF calls[c].endpoint = e THEN 1 ELSE 0)
  <1>1. InFlight(e)' = InFlight(e) \ {c}
    BY DEF TypeOK, InFlight
  <1>2. c \in InFlight(e) <=> calls[c].endpoint = e
    BY DEF InFlight
  <1>3. Cardinality(InFlight(e) \ {c}) =
          IF c \in InFlight(e) THEN Cardinality(InFlight(e)) - 1
                               ELSE Cardinality(InFlight(e))
    BY InFlightFinite, FS_RemoveElement
  <1> QED
    BY <1>1, <1>2, <1>3, InFlightFinite

\* The bound grows by one round of callers with each Reset.
LEMMA RoundPerReset ==
  ASSUME NEW n \in Nat, NEW r \in Nat
  PROVE  n * (1 + r) = n * r + n /\ n * r \in Nat /\ n * (r + 1) = n * r + n
  OBVIOUS

-----------------------------------------------------------------------------
\* A new process has closed breakers and nobody calling.
LEMMA BreakerInit == Init => BreakerInv
  <1> SUFFICES ASSUME Init PROVE BreakerInv
    OBVIOUS
  <1>1. TypeOK
    BY DEF Init, TypeOK, NewBreaker, Breaker, State
  <1>2. StateMatchesFailures /\ HalfOpenLeavesRoom
    BY LimitPositive DEF Init, NewBreaker, StateMatchesFailures, HalfOpenLeavesRoom
  <1>3. ASSUME NEW e \in Endpoints
        PROVE  InFlight(e) = {} /\ breakers[e].failures = 0 /\ resets[e] = 0
    BY <1>3 DEF Init, InFlight, NewBreaker
  <1>4. OvershootBounded
    BY <1>3, FS_EmptySet, InFlightFinite, LimitPositive DEF OvershootBounded
  <1> QED
    BY <1>1, <1>2, <1>4 DEF BreakerInv

\* Every step keeps the invariant of one endpoint's breaker.
LEMMA BreakerNext == BreakerInv /\ [Next]_vars => BreakerInv'
  <1> SUFFICES ASSUME BreakerInv, [Next]_vars PROVE BreakerInv'
    OBVIOUS
  <1> USE DEF BreakerInv
  <1> DEFINE N == Cardinality(Callers)
             C(e) == Cardinality(InFlight(e))
             \* The numeric part of the invariant for one endpoint.
             Room(e) == /\ breakers[e].state = "CLOSED" <=> breakers[e].failures < Limit
                        /\ breakers[e].state = "HALF_OPEN"
                             => breakers[e].failures <= Limit - 1 + N * resets[e]
                        /\ breakers[e].failures + C(e) <= Limit - 1 + N * (1 + resets[e])
  <1>a. \A e \in Endpoints : Room(e)
    BY DEF StateMatchesFailures, HalfOpenLeavesRoom, OvershootBounded
  <1>b. ASSUME TypeOK', \A e \in Endpoints : Room(e)' PROVE BreakerInv'
    BY <1>b DEF StateMatchesFailures, HalfOpenLeavesRoom, OvershootBounded
  <1>c. \A e \in Endpoints :
          /\ breakers[e] \in Breaker /\ breakers[e].failures \in Nat
          /\ resets[e] \in Nat /\ N * resets[e] \in Nat
          /\ N * (1 + resets[e]) = N * resets[e] + N
          /\ N \in Nat /\ C(e) \in Nat /\ C(e) <= N /\ C(e)' \in Nat /\ C(e)' <= N
    <2> TAKE e \in Endpoints
    <2>1. breakers[e] \in Breaker /\ breakers[e].failures \in Nat /\ resets[e] \in Nat
      BY DEF TypeOK, Breaker
    <2>2. C(e) \in Nat /\ C(e) <= N /\ N \in Nat
      BY InFlightFinite
    <2>3. C(e)' \in Nat /\ C(e)' <= N
      <3>1. InFlight(e)' \in SUBSET Callers
        BY DEF InFlight
      <3> QED
        BY <3>1, ProtocolAssumption, FS_Subset, FS_CardinalityType
    <2> QED
      BY <2>1, <2>2, <2>3, RoundPerReset
  <1>1. ASSUME NEW c \in Callers, NEW e \in Endpoints, Admit(c, e) PROVE BreakerInv'
    <2>1. TypeOK'
      BY <1>1 DEF TypeOK, Admit, Call
    <2>2. ASSUME NEW d \in Endpoints PROVE Room(d)'
      <3>1. breakers'[d] = breakers[d] /\ resets'[d] = resets[d]
        BY <1>1 DEF Admit
      <3>2. CASE d # e
        <4>1. InFlight(d)' = InFlight(d)
          BY <1>1, <3>2, NoCallAssumption DEF Admit, InFlight, TypeOK, Call
        <4> QED
          BY <1>a, <3>1, <4>1
      <3>3. CASE d = e /\ breakers[d].state # "OPEN"
        <4>1. breakers[d].failures <= Limit - 1 + N * resets[d]
          BY <3>3, <1>a, <1>c, LimitPositive DEF Breaker, State
        <4> QED
          BY <3>1, <4>1, <1>a, <1>c, LimitPositive
      <3> QED
        BY <1>1, <3>2, <3>3 DEF Admit, IsOpen
    <2> QED
      BY <1>b, <2>1, <2>2
  <1>2. ASSUME NEW c \in Callers, ReportSuccess(c) PROVE BreakerInv'
    <2> DEFINE e == calls[c].endpoint
    <2>0. e \in Endpoints
      BY <1>2 DEF TypeOK, ReportSuccess, Call
    <2>1. TypeOK'
      BY <1>2, <2>0, <1>a, MethodsPreserve DEF TypeOK, ReportSuccess
    <2>2. ASSUME NEW d \in Endpoints PROVE Room(d)'
      <3>1. C(d)' = C(d) - (IF e = d THEN 1 ELSE 0) /\ resets'[d] = resets[d]
        BY <1>2, CallEnds DEF ReportSuccess
      <3>2. CASE d # e
        BY <1>2, <2>0, <3>1, <3>2, <1>a, <1>c DEF ReportSuccess, TypeOK
      <3>3. CASE d = e
        <4>1. breakers'[d].state = "CLOSED" /\ breakers'[d].failures = 0
          BY <1>2, <3>3 DEF ReportSuccess, RecordSuccess, TypeOK
        <4> QED
          BY <3>1, <4>1, <1>c, LimitPositive
      <3> QED
        BY <3>2, <3>3
    <2> QED
      BY <1>b, <2>1, <2>2
  <1>3. ASSUME NEW c \in Callers, ReportFailure(c) PROVE BreakerInv'
    <2> DEFINE e == calls[c].endpoint
    <2>0. e \in Endpoints
      BY <1>3 DEF TypeOK, ReportFailure, Call
    <2>1. TypeOK'
      BY <1>3, <2>0, <1>a, MethodsPreserve DEF TypeOK, ReportFailure
    <2>2. ASSUME NEW d \in Endpoints PROVE Room(d)'
      <3>1. C(d)' = C(d) - (IF e = d THEN 1 ELSE 0) /\ resets'[d] = resets[d]
        BY <1>3, CallEnds DEF ReportFailure
      <3>2. CASE d # e
        BY <1>3, <2>0, <3>1, <3>2, <1>a, <1>c DEF ReportFailure, TypeOK
      <3>3. CASE d = e
        <4>1. breakers'[d] = RecordFailure(breakers[d])
          BY <1>3, <3>3 DEF ReportFailure, TypeOK
        <4>2. /\ breakers'[d].failures = breakers[d].failures + 1
              /\ breakers'[d].state = IF breakers[d].failures + 1 >= Limit
                                      THEN "OPEN" ELSE breakers[d].state
          BY <4>1 DEF RecordFailure
        <4> QED
          BY <3>1, <3>3, <4>2, <1>a, <1>c, LimitPositive
      <3> QED
        BY <3>2, <3>3
    <2> QED
      BY <1>b, <2>1, <2>2
  <1>4. ASSUME NEW c \in Callers, Abandon(c) PROVE BreakerInv'
    <2>1. TypeOK'
      BY <1>4 DEF TypeOK, Abandon
    <2>2. ASSUME NEW d \in Endpoints PROVE Room(d)'
      <3>1. C(d)' = C(d) - (IF calls[c].endpoint = d THEN 1 ELSE 0)
        BY <1>4, CallEnds DEF Abandon
      <3>2. breakers'[d] = breakers[d] /\ resets'[d] = resets[d]
        BY <1>4 DEF Abandon
      <3> QED
        BY <3>1, <3>2, <1>a, <1>c, LimitPositive
    <2> QED
      BY <1>b, <2>1, <2>2
  <1>5. ASSUME NEW e \in Endpoints, CallReset(e) PROVE BreakerInv'
    <2>1. TypeOK'
      BY <1>5, <1>a, MethodsPreserve DEF TypeOK, CallReset
    <2>2. ASSUME NEW d \in Endpoints PROVE Room(d)'
      <3>1. InFlight(d)' = InFlight(d)
        BY <1>5 DEF CallReset, InFlight
      <3>2. CASE d # e
        BY <1>5, <3>1, <3>2, <1>a DEF CallReset, TypeOK
      <3>3. CASE d = e
        <4>1. breakers'[d] = Reset(breakers[d]) /\ resets'[d] = resets[d] + 1
          BY <1>5, <3>3 DEF CallReset, TypeOK
        <4>2. /\ breakers'[d].failures = breakers[d].failures
              /\ breakers'[d].state = IF breakers[d].state = "OPEN" THEN "HALF_OPEN"
                                      ELSE breakers[d].state
          BY <4>1, <1>c DEF Reset, Breaker
        <4>3. /\ N * resets'[d] = N * resets[d] + N
              /\ N * (1 + resets'[d]) = N * resets[d] + N + N
          BY <4>1, <1>c, RoundPerReset
        <4> QED
          BY <3>1, <4>1, <4>2, <4>3, <1>a, <1>c, LimitPositive
      <3> QED
        BY <3>2, <3>3
    <2> QED
      BY <1>b, <2>1, <2>2
  <1>6. ASSUME Restart PROVE BreakerInv'
    <2>1. TypeOK'
      BY <1>6 DEF TypeOK, Restart, NewBreaker, Breaker, State
    <2>2. ASSUME NEW d \in Endpoints PROVE Room(d)'
      <3>1. breakers'[d].state = "CLOSED" /\ breakers'[d].failures = 0 /\ resets'[d] = 0
        BY <1>6 DEF Restart, NewBreaker
      <3>2. N * (1 + resets'[d]) = N
        BY <3>1, <1>c
      <3> QED
        BY <3>1, <3>2, <1>c, LimitPositive
    <2> QED
      BY <1>b, <2>1, <2>2
  <1>7. CASE UNCHANGED vars
    BY <1>7 DEF vars, TypeOK, StateMatchesFailures, HalfOpenLeavesRoom,
                OvershootBounded, InFlight
  <1> QED
    BY <1>1, <1>2, <1>3, <1>4, <1>5, <1>6, <1>7 DEF Next

\* The inductive invariant holds throughout (all methods of CircuitBreaker, in
\* every interleaving of their callers).
THEOREM BreakerInvariant == Spec => []BreakerInv
  BY BreakerInit, BreakerNext, PTL DEF Spec

\* The breakers, the calls in flight and the counts of Reset keep their types.
THEOREM BreakerTypeCorrect == Spec => []TypeOK
  <1>1. BreakerInv => TypeOK
    BY DEF BreakerInv
  <1> QED
    BY <1>1, BreakerInvariant, PTL

\* A breaker is CLOSED exactly while its count is below the threshold.
THEOREM StateAndCountAgree == Spec => []StateMatchesFailures
  <1>1. BreakerInv => StateMatchesFailures
    BY DEF BreakerInv
  <1> QED
    BY <1>1, BreakerInvariant, PTL

\* The calls that slip past an opening breaker are bounded by the callers.
THEOREM OvershootIsBounded == Spec => []OvershootBounded
  <1>1. BreakerInv => OvershootBounded
    BY DEF BreakerInv
  <1> QED
    BY <1>1, BreakerInvariant, PTL

\* An OPEN breaker changes only by a late report, Reset or a new process: Admit and
\* Abandon leave breakers alone.
THEOREM OpenIsSticky == Spec => OpenIsLeftOnlyByLateSuccessOrReset
  <1>1. TypeOK /\ [Next]_vars => [OpenChangeIsExplained]_vars
    <2> SUFFICES ASSUME TypeOK, [Next]_vars PROVE [OpenChangeIsExplained]_vars
      OBVIOUS
    <2> USE DEF OpenChangeIsExplained
    <2>1. ASSUME NEW c \in Callers, ReportSuccess(c) \/ ReportFailure(c) PROVE OpenChangeIsExplained
      <3>1. ASSUME NEW e \in Endpoints, breakers'[e] # breakers[e]
            PROVE  c \in InFlight(e)
        BY <2>1, <3>1 DEF ReportSuccess, ReportFailure, InFlight, TypeOK
      <3> QED
        BY <3>1
    <2>2. ASSUME NEW c \in Callers,
                 Abandon(c) \/ \E e \in Endpoints : Admit(c, e)
          PROVE  OpenChangeIsExplained
      BY <2>2 DEF Abandon, Admit
    <2>3. ASSUME NEW e \in Endpoints, CallReset(e) PROVE OpenChangeIsExplained
      <3>1. \A d \in Endpoints : breakers'[d] # breakers[d] => d = e
        BY <2>3 DEF CallReset, TypeOK
      <3>2. resets'[e] > resets[e]
        BY <2>3 DEF CallReset, TypeOK
      <3> QED
        BY <3>1, <3>2
    <2> QED
      BY <2>1, <2>2, <2>3 DEF Next
  <1> QED
    BY <1>1, BreakerTypeCorrect, PTL DEF Spec, OpenIsLeftOnlyByLateSuccessOrReset
=============================================================================
