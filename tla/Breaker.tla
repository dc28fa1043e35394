------------------------------- MODULE Breaker -------------------------------
(***************************************************************************)
(* The circuit breaker of the Clockify client (circuit_breaker.go) and the *)
(* retry loop around one HTTP exchange (client.go, doRequestValues).       *)
(*                                                                         *)
(* The breaker is asked once before the first attempt and told once, of    *)
(* the last attempt, whatever happened in between; requests admitted long  *)
(* ago report to a breaker that has opened, half-opened or closed since.   *)
(***************************************************************************)
EXTENDS Naturals, FiniteSets

CONSTANTS
    Callers,           \* goroutines, each making one request after another
    Keys,              \* breakerKey: normalized endpoint and method
    KeyOf,             \* the endpoint each caller uses
    Idempotent,        \* keys whose method isIdempotentMethod lets be retried
    FailureThreshold,  \* consecutive failures that open the breaker
    OpenDuration,      \* how long it stays open
    HalfOpenProbes,    \* trial requests allowed while half-open
    MaxRetries         \* Client.maxRetries

ASSUME CallerAssumption ==
    /\ IsFiniteSet(Callers) /\ KeyOf \in [Callers -> Keys] /\ Idempotent \subseteq Keys
ASSUME NumberAssumption ==
    /\ FailureThreshold \in Nat \ {0} /\ OpenDuration \in Nat \ {0}
    /\ HalfOpenProbes \in Nat \ {0} /\ MaxRetries \in Nat

VARIABLES
    state,     \* breakerEndpointState.state
    failures,  \* breakerEndpointState.failures
    age,       \* now - openedAt of an open breaker, OpenDuration at most
    halfOpen,  \* breakerEndpointState.halfOpenInFlight
    pc,        \* where each caller is in doRequestValues
    attempt,   \* the loop's counter
    last,      \* lastErr: what the last attempt gave
    role       \* what each request was admitted as (history)

breakerVars == <<state, failures, age, halfOpen>>
vars == <<breakerVars, pc, attempt, last, role>>

\* What doOnceValues may return: success; 502, 503, 504 or a network error; 429;
\* any other 5xx; any other 4xx, an undecodable body, a cancellation or a deadline.
Results == {"ok", "busy", "throttled", "broken", "neutral"}

TypeOK ==
    /\ state \in [Keys -> {"closed", "open", "half_open"}]
    /\ failures \in [Keys -> 0..(FailureThreshold - 1)]
    /\ age \in [Keys -> 0..OpenDuration]
    /\ halfOpen \in [Keys -> 0..HalfOpenProbes]
    /\ pc \in [Callers -> {"idle", "sending", "waiting", "reporting"}]
    /\ attempt \in [Callers -> 0..MaxRetries]
    /\ last \in [Callers -> Results \cup {"none"}]
    /\ role \in [Callers -> {"plain", "probe", "late"}]

Init ==
    /\ state = [k \in Keys |-> "closed"]
    /\ failures = [k \in Keys |-> 0]
    /\ age = [k \in Keys |-> 0]
    /\ halfOpen = [k \in Keys |-> 0]
    /\ pc = [r \in Callers |-> "idle"]
    /\ attempt = [r \in Callers |-> 0]
    /\ last = [r \in Callers |-> "none"]
    /\ role = [r \in Callers |-> "plain"]
-----------------------------------------------------------------------------
\* isUpstreamFailure and isRetryableError.
IsUpstreamFailure(result) == result \in {"busy", "broken"}
IsRetryable(k, result) == k \in Idempotent /\ result \in {"busy", "throttled"}

Cooling(k) == state[k] = "open" /\ age[k] < OpenDuration

\* Before's test of halfOpenInFlight, one off.
SaturatedLate(k) == halfOpen[k] > HalfOpenProbes
\* No trial request is left to give away.
Saturated(k) == halfOpen[k] >= HalfOpenProbes

\* CircuitBreaker.Before lets the request through.
Admit(r) ==
    LET k == KeyOf[r]
    IN  /\ pc[r] = "idle"
        /\ pc' = [pc EXCEPT ![r] = "sending"]
        /\ \/ /\ state[k] = "closed"
              /\ role' = [role EXCEPT ![r] = "plain"]
              /\ UNCHANGED <<state, halfOpen, failures>>
           \/ /\ state[k] # "closed" /\ ~Cooling(k) /\ ~Saturated(k)
              /\ state' = [state EXCEPT ![k] = "half_open"]
              /\ failures' = [failures EXCEPT ![k] = IF state[k] = "open" THEN 0 ELSE @]
              /\ halfOpen' = [halfOpen EXCEPT ![k] = @ + 1]
              /\ role' = [role EXCEPT ![r] = "probe"]
        /\ UNCHANGED <<age, attempt, last>>

\* CircuitBreaker.Before refuses: CircuitBreakerOpenError.
Refuse(r) ==
    /\ pc[r] = "idle" /\ state[KeyOf[r]] # "closed"
    /\ Cooling(KeyOf[r]) \/ (state[KeyOf[r]] = "half_open" /\ Saturated(KeyOf[r]))
    /\ UNCHANGED vars

\* One doOnceValues.
Attempt(r, result) ==
    /\ pc[r] = "sending"
    /\ last' = [last EXCEPT ![r] = result]
    /\ pc' = [pc EXCEPT ![r] =
                IF IsRetryable(KeyOf[r], result) /\ attempt[r] < MaxRetries
                  THEN "waiting" ELSE "reporting"]
    /\ UNCHANGED <<breakerVars, attempt, role>>

\* The wait before the next attempt ends.
Retry(r) ==
    /\ pc[r] = "waiting"
    /\ pc' = [pc EXCEPT ![r] = "sending"]
    /\ attempt' = [attempt EXCEPT ![r] = @ + 1]
    /\ UNCHANGED <<breakerVars, last, role>>

\* As below, returning without recordCircuitBreakerResult.
GiveUpUnrecorded(r) ==
    /\ pc[r] = "waiting"
    /\ pc' = [pc EXCEPT ![r] = "idle"]
    /\ attempt' = [attempt EXCEPT ![r] = 0]
    /\ last' = [last EXCEPT ![r] = "none"]
    /\ UNCHANGED <<breakerVars, role>>

\* The context ends during the wait, or would before it is over: the last
\* attempt is what counts.
GiveUp(r) ==
    /\ pc[r] = "waiting"
    /\ pc' = [pc EXCEPT ![r] = "reporting"]
    /\ UNCHANGED <<breakerVars, attempt, last, role>>

\* transitionLocked, on leaving what After found; probes is what it has left of
\* halfOpenInFlight.
Transition(k, next, probes) ==
    /\ state' = [state EXCEPT ![k] = next]
    /\ failures' = [failures EXCEPT ![k] = 0]
    /\ age' = IF next = "open" /\ state[k] # "open" THEN [age EXCEPT ![k] = 0] ELSE age
    /\ halfOpen' = [halfOpen EXCEPT ![k] = IF next # "half_open" THEN 0 ELSE probes]

\* As below, with a half-open breaker given its slot back and nothing decided.
RecordSuccessUndecided(k, probes) ==
    IF state[k] # "closed"
      THEN halfOpen' = [halfOpen EXCEPT ![k] = probes] /\ UNCHANGED <<state, failures, age>>
      ELSE failures' = [failures EXCEPT ![k] = 0] /\ UNCHANGED <<state, age, halfOpen>>

\* CircuitBreaker.After for a request that did not fail.
RecordSuccess(k, probes) ==
    IF state[k] # "closed"
      THEN Transition(k, "closed", probes)
      ELSE failures' = [failures EXCEPT ![k] = 0] /\ UNCHANGED <<state, age, halfOpen>>

\* CircuitBreaker.After for an upstream failure.
RecordFailure(k, probes) ==
    \/ /\ state[k] = "half_open"
       /\ Transition(k, "open", probes)
    \/ /\ state[k] = "open"
       /\ age' = [age EXCEPT ![k] = 0]
       /\ UNCHANGED <<state, failures, halfOpen>>
    \/ /\ state[k] = "closed" /\ failures[k] + 1 >= FailureThreshold
       /\ Transition(k, "open", probes)
    \/ /\ state[k] = "closed" /\ failures[k] + 1 < FailureThreshold
       /\ failures' = [failures EXCEPT ![k] = @ + 1]
       /\ UNCHANGED <<state, age, halfOpen>>

\* recordCircuitBreakerResult, and doRequestValues returns.  Whatever After
\* records, a half-open breaker is not half-open after it.
Report(r) ==
    LET k == KeyOf[r]
        probes == IF state[k] = "half_open" /\ halfOpen[k] > 0
                    THEN halfOpen[k] - 1 ELSE halfOpen[k]
    IN  /\ pc[r] = "reporting"
        /\ IF IsUpstreamFailure(last[r])
             THEN RecordFailure(k, probes) ELSE RecordSuccess(k, probes)
        /\ pc' = [pc EXCEPT ![r] = "idle"]
        /\ attempt' = [attempt EXCEPT ![r] = 0]
        /\ last' = [last EXCEPT ![r] = "none"]
        /\ role' = [q \in Callers |->
                      CASE q = r -> "plain"
                        [] q # r /\ KeyOf[q] = k /\ role[q] = "probe" -> "late"
                        [] OTHER -> role[q]]

Tick ==
    /\ \E k \in Keys : Cooling(k)
    /\ age' = [k \in Keys |-> IF Cooling(k) THEN age[k] + 1 ELSE age[k]]
    /\ UNCHANGED <<state, failures, halfOpen, pc, attempt, last, role>>

Next ==
    \/ Tick
    \/ \E r \in Callers :
        \/ Admit(r) \/ Refuse(r) \/ Retry(r) \/ GiveUp(r) \/ Report(r)
        \/ \E result \in Results : Attempt(r, result)

Spec == Init /\ [][Next]_vars

\* Time passes, exchanges end (the HTTP client has a timeout), goroutines run,
\* and callers keep asking: the last is what recovery is conditional on.
Fairness ==
    /\ WF_vars(Tick)
    /\ \A r \in Callers :
        /\ WF_vars(\E result \in Results : Attempt(r, result))
        /\ WF_vars(Retry(r) \/ GiveUp(r))
        /\ WF_vars(Report(r))
        /\ WF_vars(Admit(r))

FairSpec == Spec /\ Fairness
-----------------------------------------------------------------------------
(***************************************************************************)
(* Properties.                                                             *)
(***************************************************************************)
Probes(k) == {r \in Callers : KeyOf[r] = k /\ role[r] = "probe"}
Trials(k) == {r \in Callers : KeyOf[r] = k /\ role[r] # "plain"}

\* A half-open breaker is never stuck: its count of trial requests is the number
\* of requests it let through since it half-opened, all of them still under way,
\* and there is at least one, whose end decides.  No other state has any.
HalfOpenIsProbed ==
    \A k \in Keys :
        /\ state[k] = "half_open" => halfOpen[k] > 0
        /\ halfOpen[k] = Cardinality(Probes(k))
        /\ \A r \in Probes(k) : state[k] = "half_open" /\ pc[r] # "idle"

\* HalfOpenProbes is the number of concurrent trial requests allowed while
\* half-open (CircuitBreakerConfig's comment).
TrialsBounded ==
    \A k \in Keys : state[k] = "half_open" => Cardinality(Trials(k)) <= HalfOpenProbes

\* An endpoint whose requests stop failing is served again for good, as long as
\* it is asked: no order of late results, retries and give-ups wedges its breaker.
Recovers ==
    \A k \in Keys :
        <>[](\A r \in Callers : KeyOf[r] = k => ~IsUpstreamFailure(last[r]))
            => <>[](state[k] = "closed")
=============================================================================
