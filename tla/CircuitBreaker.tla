--------------------------- MODULE CircuitBreaker ---------------------------
(***************************************************************************)
(* The circuit breaker in front of an LLM provider (llm/circuit_breaker.rs).*)
(*                                                                         *)
(* Every `complete` call takes the breaker's mutex twice: once in          *)
(* check_allowed before the provider is called and once in record_success  *)
(* or record_failure after it answered.  The lock is not held in between,  *)
(* so calls overlap and their results are recorded in any order, possibly  *)
(* in a state other than the one that admitted them.                       *)
(*                                                                         *)
(* Time is kept as the age of the current `opened_at`, counted up to       *)
(* RecoveryTimeout: check_allowed asks only whether it got that far.       *)
(***************************************************************************)
EXTENDS Integers

CONSTANTS
    Callers,            \* tasks that share the provider
    FailureThreshold,   \* CircuitBreakerConfig.failure_threshold
    RecoveryTimeout,    \* CircuitBreakerConfig.recovery_timeout, in ticks
    SuccessesNeeded,    \* CircuitBreakerConfig.half_open_successes_needed
    None                \* Option::None

ASSUME ConfigAssumption ==
    /\ FailureThreshold \in Nat
    /\ RecoveryTimeout \in Nat
    /\ SuccessesNeeded \in Nat
    /\ None \notin Nat

VARIABLES
    state,                  \* BreakerState.state
    consecutive_failures,   \* BreakerState.consecutive_failures
    opened_age,             \* ticks since BreakerState.opened_at, or None
    half_open_successes,    \* BreakerState.half_open_successes
    call,                   \* call[c]: what the task of caller c is doing
    backend,                \* whether the provider is degraded (environment)
    streak                  \* history: failures recorded since the last success

breaker == <<state, consecutive_failures, opened_age, half_open_successes>>
vars == <<breaker, call, backend, streak>>

CircuitState == {"Closed", "Open", "HalfOpen"}

\* One failure trips a breaker configured with threshold 0, and one success
\* closes one configured with 0 successes: both counters are incremented
\* before they are compared.
AtLeastOne(n) == IF n = 0 THEN 1 ELSE n
TripAt == AtLeastOne(FailureThreshold)
CloseAt == AtLeastOne(SuccessesNeeded)

TypeOK ==
    /\ state \in CircuitState
    /\ consecutive_failures \in 0..TripAt
    /\ opened_age \in (0..RecoveryTimeout) \cup {None}
    /\ half_open_successes \in 0..CloseAt
    /\ call \in [Callers -> {"idle", "inflight"}]
    /\ backend \in {"healthy", "degraded"}
    /\ streak \in 0..TripAt

Init ==
    /\ state = "Closed"
    /\ consecutive_failures = 0
    /\ opened_age = None
    /\ half_open_successes = 0
    /\ call = [c \in Callers |-> "idle"]
    /\ backend = "healthy"
    /\ streak = 0

-----------------------------------------------------------------------------
(* The breaker's own steps, each under one acquisition of the mutex.       *)

Close ==
    /\ state' = "Closed"
    /\ consecutive_failures' = 0
    /\ opened_age' = None
    /\ UNCHANGED half_open_successes

Trip ==
    /\ state' = "Open"
    /\ opened_age' = 0

MutantTimeoutElapsed == opened_age # None

TimeoutElapsed == opened_age = RecoveryTimeout

\* A call that is refused returns an error and changes nothing.
Admits ==
    \/ state \in {"Closed", "HalfOpen"}
    \/ state = "Open" /\ (TimeoutElapsed \/ opened_age = None)

MutantCheckAllowed(c) ==
    /\ call[c] = "idle"
    /\ Admits
    /\ call' = [call EXCEPT ![c] = "inflight"]
    /\ state' = IF state = "Open" THEN "HalfOpen" ELSE state
    /\ half_open_successes' = 0
    /\ UNCHANGED <<consecutive_failures, opened_age, backend, streak>>

\* check_allowed: the first call after the timeout moves the breaker to
\* HalfOpen; an Open breaker without opened_at would simply be closed.
CheckAllowed(c) ==
    /\ call[c] = "idle"
    /\ Admits
    /\ call' = [call EXCEPT ![c] = "inflight"]
    /\ state' = IF state # "Open" THEN state
                ELSE IF opened_age = None THEN "Closed" ELSE "HalfOpen"
    /\ half_open_successes' =
         IF state = "Open" /\ opened_age # None THEN 0 ELSE half_open_successes
    /\ UNCHANGED <<consecutive_failures, opened_age, backend, streak>>

MutantRecordSuccess(c) ==
    /\ call[c] = "inflight"
    /\ call' = [call EXCEPT ![c] = "idle"]
    /\ streak' = 0
    /\ IF state = "HalfOpen" /\ half_open_successes + 1 >= SuccessesNeeded
         THEN state' = "Closed" /\ opened_age' = None
         ELSE UNCHANGED <<state, opened_age>>
    /\ half_open_successes' = half_open_successes + (IF state = "HalfOpen" THEN 1 ELSE 0)
    /\ UNCHANGED <<consecutive_failures, backend>>

\* record_success.  In the Open arm the release build closes the circuit;
\* the debug build stops at the debug_assert instead.
RecordSuccess(c) ==
    /\ call[c] = "inflight"
    /\ call' = [call EXCEPT ![c] = "idle"]
    /\ streak' = 0
    /\ \/ /\ state = "Closed"
          /\ consecutive_failures' = 0
          /\ UNCHANGED <<state, opened_age, half_open_successes>>
       \/ /\ state = "HalfOpen"
          /\ half_open_successes + 1 < SuccessesNeeded
          /\ half_open_successes' = half_open_successes + 1
          /\ UNCHANGED <<state, consecutive_failures, opened_age>>
       \/ /\ state = "HalfOpen"
          /\ half_open_successes + 1 >= SuccessesNeeded
          /\ half_open_successes' = half_open_successes + 1
          /\ state' = "Closed"
          /\ consecutive_failures' = 0
          /\ opened_age' = None
       \/ /\ state = "Open"
          /\ Close
    /\ UNCHANGED backend

MutantRecordFailure(c) ==
    /\ call[c] = "inflight"
    /\ call' = [call EXCEPT ![c] = "idle"]
    /\ streak' = IF streak < TripAt THEN streak + 1 ELSE streak
    /\ IF state = "Closed" /\ consecutive_failures + 1 > FailureThreshold
         THEN Trip /\ UNCHANGED <<consecutive_failures, half_open_successes>>
         ELSE UNCHANGED breaker
    /\ UNCHANGED backend

\* record_failure of an error for which is_transient holds.
RecordFailure(c) ==
    /\ call[c] = "inflight"
    /\ call' = [call EXCEPT ![c] = "idle"]
    /\ streak' = IF streak < TripAt THEN streak + 1 ELSE streak
    /\ \/ /\ state = "Closed"
          /\ consecutive_failures' = consecutive_failures + 1
          /\ IF consecutive_failures + 1 >= FailureThreshold
               THEN Trip
               ELSE UNCHANGED <<state, opened_age>>
          /\ UNCHANGED half_open_successes
       \/ /\ state = "HalfOpen"
          /\ Trip
          /\ half_open_successes' = 0
          /\ UNCHANGED consecutive_failures
       \/ /\ state = "Open"
          /\ UNCHANGED breaker
    /\ UNCHANGED backend

\* record_failure of any other error, or the caller's task is cancelled while
\* it awaits the provider: nothing is recorded.
RecordNothing(c) ==
    /\ call[c] = "inflight"
    /\ call' = [call EXCEPT ![c] = "idle"]
    /\ UNCHANGED <<breaker, backend, streak>>

-----------------------------------------------------------------------------
(* Environment: time, and a provider that degrades and recovers.           *)

Tick ==
    /\ opened_age # None
    /\ opened_age < RecoveryTimeout
    /\ opened_age' = opened_age + 1
    /\ UNCHANGED <<state, consecutive_failures, half_open_successes, call, backend, streak>>

BackendFlips ==
    /\ backend' = IF backend = "healthy" THEN "degraded" ELSE "healthy"
    /\ UNCHANGED <<breaker, call, streak>>

Next ==
    \/ \E c \in Callers :
          \/ CheckAllowed(c)
          \/ RecordSuccess(c)
          \/ backend = "degraded" /\ RecordFailure(c)
          \/ RecordNothing(c)
    \/ Tick
    \/ BackendFlips

Spec == Init /\ [][Next]_vars

\* Time passes, callers keep calling, and a call is not cancelled every time.
Fairness ==
    /\ WF_vars(Tick)
    /\ \A c \in Callers : WF_vars(CheckAllowed(c)) /\ SF_vars(RecordSuccess(c))

FairSpec == Spec /\ Fairness

-----------------------------------------------------------------------------
(* Properties.                                                             *)

\* The failure count is exact in every interleaving of overlapping calls: a
\* closed breaker counts the transient failures recorded since the last
\* success and is always below the threshold, and a breaker that is open or
\* probing keeps the count it tripped with (so the u32 never grows further).
\* A probing breaker has fewer successes than it needs to close.
CountsConsecutiveFailures ==
    /\ state = "Closed" => consecutive_failures = streak /\ streak < TripAt
    /\ state # "Closed" => consecutive_failures = TripAt
    /\ state = "HalfOpen" => half_open_successes < CloseAt

\* opened_at is set exactly while the circuit is not closed, so the recovery
\* arm of check_allowed for `Open` without `opened_at` is dead code, and a
\* probing breaker has waited out the whole timeout.
OpenedAtMatchesState ==
    /\ (opened_age = None) <=> (state = "Closed")
    /\ state = "HalfOpen" => opened_age = RecoveryTimeout

\* A provider that stays healthy gets its circuit closed for good, whatever
\* was in flight when it recovered: no arm leaves the breaker stuck.
ClosesWhenHealthy == <>[](backend = "healthy") => <>[](state = "Closed")
=============================================================================
