------------------------ MODULE CircuitBreakerProofs ------------------------
(***************************************************************************)
(* Proofs about the circuit breaker, for every number of callers and every *)
(* configuration, the thresholds 0 and a zero timeout included.            *)
(***************************************************************************)
EXTENDS CircuitBreaker, TLAPS

\* The invariant the proof carries through a step: none of its parts is
\* inductive without the others, since a late result is recorded in
\* whatever state the earlier ones left.
BreakerInv ==
    /\ TypeOK
    /\ CountsConsecutiveFailures
    /\ OpenedAtMatchesState

\* A threshold of 0 acts as 1: the counters are incremented before they are
\* compared with the configured number.
LEMMA ThresholdFacts ==
    /\ TripAt \in Nat /\ CloseAt \in Nat
    /\ TripAt >= 1 /\ CloseAt >= 1
    /\ \A n \in Nat : n + 1 >= FailureThreshold <=> n + 1 >= TripAt
    /\ \A n \in Nat : n + 1 >= SuccessesNeeded <=> n + 1 >= CloseAt
  BY ConfigAssumption DEF TripAt, CloseAt, AtLeastOne

LEMMA InitBreakerInv == Init => BreakerInv
  BY ThresholdFacts, ConfigAssumption
  DEF Init, BreakerInv, TypeOK, CircuitState, CountsConsecutiveFailures, OpenedAtMatchesState

\* One step of any action keeps the breaker's counters and opened_at exact.
LEMMA StepBreakerInv == BreakerInv /\ [Next]_vars => BreakerInv'
  <1> SUFFICES ASSUME BreakerInv, [Next]_vars
               PROVE  BreakerInv'
    OBVIOUS
  <1> USE ThresholdFacts, ConfigAssumption
      DEF BreakerInv, TypeOK, CircuitState, CountsConsecutiveFailures,
          OpenedAtMatchesState, TimeoutElapsed, breaker
  <1>1. ASSUME NEW c \in Callers, CheckAllowed(c)
        PROVE  BreakerInv'
    BY <1>1 DEF CheckAllowed, Admits
  <1>2. ASSUME NEW c \in Callers, RecordSuccess(c)
        PROVE  BreakerInv'
    <2>1. CASE state = "Closed"
      BY <1>2, <2>1 DEF RecordSuccess
    <2>2. CASE state = "HalfOpen"
      BY <1>2, <2>2 DEF RecordSuccess
    <2>3. CASE state = "Open"
      BY <1>2, <2>3 DEF RecordSuccess, Close
    <2> QED
      BY <2>1, <2>2, <2>3
  <1>3. ASSUME NEW c \in Callers, RecordFailure(c)
        PROVE  BreakerInv'
    <2>1. CASE state = "Closed"
      BY <1>3, <2>1 DEF RecordFailure, Trip
    <2>2. CASE state = "HalfOpen"
      BY <1>3, <2>2 DEF RecordFailure, Trip
    <2>3. CASE state = "Open"
      BY <1>3, <2>3 DEF RecordFailure
    <2> QED
      BY <2>1, <2>2, <2>3
  <1>4. ASSUME NEW c \in Callers, RecordNothing(c)
        PROVE  BreakerInv'
    BY <1>4 DEF RecordNothing
  <1>5. CASE Tick
    BY <1>5 DEF Tick
  <1>6. CASE BackendFlips
    BY <1>6 DEF BackendFlips
  <1>7. CASE UNCHANGED vars
    BY <1>7 DEF vars
  <1> QED
    BY <1>1, <1>2, <1>3, <1>4, <1>5, <1>6, <1>7 DEF Next

\* The breaker's fields keep their types: in particular the failure counter
\* and the probe counter never pass the configured numbers.
THEOREM BreakerTypeCorrect == Spec => []TypeOK
  <1>1. BreakerInv => TypeOK
    BY DEF BreakerInv
  <1> QED
    BY <1>1, InitBreakerInv, StepBreakerInv, PTL DEF Spec

\* The failure count of a closed breaker is the number of transient failures
\* recorded since the last success, for any number of overlapping calls.
THEOREM BreakerCountsExactly == Spec => []CountsConsecutiveFailures
  <1>1. BreakerInv => CountsConsecutiveFailures
    BY DEF BreakerInv
  <1> QED
    BY <1>1, InitBreakerInv, StepBreakerInv, PTL DEF Spec

\* opened_at is set exactly while the circuit is not closed, so the recovery
\* arm of check_allowed for an open circuit without it is never taken.
THEOREM BreakerOpenedAtMatches == Spec => []OpenedAtMatchesState
  <1>1. BreakerInv => OpenedAtMatchesState
    BY DEF BreakerInv
  <1> QED
    BY <1>1, InitBreakerInv, StepBreakerInv, PTL DEF Spec
=============================================================================
