------------------------------ MODULE Breaker_proof ------------------------------
(***************************************************************************)
(* Proofs about Breaker: the count of trial requests is exact, so that a   *)
(* half-open breaker always has one under way, for any callers, endpoints  *)
(* and configuration.                                                      *)
(***************************************************************************)
EXTENDS Breaker, TLAPS, FiniteSetTheorems

\* A trial request is under way; its breaker half-opened and is still half-open.
ProbeInv == \A r \in Callers :
    role[r] = "probe" => state[KeyOf[r]] = "half_open" /\ pc[r] # "idle"

\* The breaker counts its trial requests.
CountInv == \A k \in Keys :
    /\ halfOpen[k] = Cardinality(Probes(k))
    /\ state[k] = "half_open" => halfOpen[k] > 0

\* Only a request that has an attempt left waits for it.
RetryInv == \A r \in Callers : pc[r] = "waiting" => attempt[r] < MaxRetries

IInv == TypeOK /\ RetryInv /\ ProbeInv /\ CountInv
-----------------------------------------------------------------------------
\* Every breaker starts closed, with no request under way.
LEMMA InitIInv == Init => IInv
<1> SUFFICES ASSUME Init PROVE IInv
  OBVIOUS
<1> USE CallerAssumption, NumberAssumption
<1>1. TypeOK /\ RetryInv /\ ProbeInv
  BY DEF Init, TypeOK, RetryInv, ProbeInv
<1>2. ASSUME NEW k \in Keys PROVE Probes(k) = {}
  BY DEF Init, Probes
<1>3. CountInv
  BY <1>2, FS_EmptySet DEF Init, CountInv
<1> QED
  BY <1>1, <1>3 DEF IInv

\* Every step keeps the type invariant: no count passes its bound.
LEMMA TypeStep == TypeOK /\ RetryInv /\ [Next]_vars => TypeOK'
<1> SUFFICES ASSUME TypeOK, RetryInv, [Next]_vars PROVE TypeOK'
  OBVIOUS
<1> USE CallerAssumption, NumberAssumption DEF TypeOK, Results, breakerVars
<1>1. ASSUME NEW r \in Callers, Admit(r) PROVE TypeOK'
  <2> DEFINE k == KeyOf[r]
  <2>1. CASE state[k] = "closed"
    BY <1>1, <2>1 DEF Admit
  <2>2. CASE state[k] # "closed"
    <3>1. halfOpen[k] + 1 \in 0..HalfOpenProbes
      BY <1>1, <2>2 DEF Admit, Saturated
    <3> QED
      BY <1>1, <2>2, <3>1 DEF Admit
  <2> QED
    BY <2>1, <2>2
<1>2. ASSUME NEW r \in Callers, NEW result \in Results, Attempt(r, result) PROVE TypeOK'
  BY <1>2 DEF Attempt
<1>3. ASSUME NEW r \in Callers, Retry(r) PROVE TypeOK'
  BY <1>3 DEF Retry, RetryInv
<1>4. ASSUME NEW r \in Callers, GiveUp(r) \/ Refuse(r) PROVE TypeOK'
  BY <1>4 DEF GiveUp, Refuse, vars
<1>5. ASSUME NEW r \in Callers, Report(r) PROVE TypeOK'
  <2> DEFINE k == KeyOf[r]
             probes == IF state[k] = "half_open" /\ halfOpen[k] > 0
                         THEN halfOpen[k] - 1 ELSE halfOpen[k]
  <2>1. k \in Keys /\ probes \in 0..HalfOpenProbes
    OBVIOUS
  <2>2. RecordFailure(k, probes) \/ RecordSuccess(k, probes)
    BY <1>5 DEF Report
  <2> HIDE DEF probes
  <2>3. /\ state' \in [Keys -> {"closed", "open", "half_open"}]
        /\ failures' \in [Keys -> 0..(FailureThreshold - 1)]
        /\ age' \in [Keys -> 0..OpenDuration]
        /\ halfOpen' \in [Keys -> 0..HalfOpenProbes]
    BY <2>1, <2>2 DEF RecordFailure, RecordSuccess, Transition
  <2>4. /\ pc' \in [Callers -> {"idle", "sending", "waiting", "reporting"}]
        /\ attempt' \in [Callers -> 0..MaxRetries]
        /\ last' \in [Callers -> Results \cup {"none"}]
        /\ role' \in [Callers -> {"plain", "probe", "late"}]
    BY <1>5 DEF Report
  <2> QED
    BY <2>3, <2>4
<1>6. CASE Tick
  BY <1>6 DEF Tick, Cooling
<1>7. CASE UNCHANGED vars
  BY <1>7 DEF vars
<1> QED
  BY <1>1, <1>2, <1>3, <1>4, <1>5, <1>6, <1>7 DEF Next

\* Only an attempt that may be repeated leads to a wait.
LEMMA RetryStep == TypeOK /\ RetryInv /\ [Next]_vars => RetryInv'
<1> SUFFICES ASSUME TypeOK, RetryInv, [Next]_vars PROVE RetryInv'
  OBVIOUS
<1> USE DEF TypeOK, RetryInv
<1>1. ASSUME NEW r \in Callers, NEW result \in Results, Attempt(r, result) PROVE RetryInv'
  BY <1>1 DEF Attempt
<1>2. ASSUME NEW r \in Callers, Admit(r) \/ Retry(r) \/ GiveUp(r) \/ Report(r) PROVE RetryInv'
  BY <1>2 DEF Admit, Retry, GiveUp, Report
<1> QED
  BY <1>1, <1>2 DEF Next, Tick, Refuse, vars

\* What a report does to the breaker it reports to: it is not half-open after it,
\* and its count of trial requests is 0 or what it was.
LEMMA ReportEffect ==
    ASSUME TypeOK, NEW r \in Callers, Report(r)
    PROVE  LET k == KeyOf[r]
           IN  /\ state'[k] # "half_open"
               /\ state[k] = "half_open" => halfOpen'[k] = 0
               /\ state[k] # "half_open" => halfOpen'[k] \in {0, halfOpen[k]}
               /\ \A q \in Keys : q # k => state'[q] = state[q] /\ halfOpen'[q] = halfOpen[q]
<1> DEFINE k == KeyOf[r]
           probes == IF state[k] = "half_open" /\ halfOpen[k] > 0
                       THEN halfOpen[k] - 1 ELSE halfOpen[k]
<1>1. k \in Keys
  BY CallerAssumption
<1>2. RecordFailure(k, probes) \/ RecordSuccess(k, probes)
  BY DEF Report
<1> HIDE DEF probes, k
<1>3. /\ state'[k] # "half_open"
      /\ state[k] = "half_open" => halfOpen'[k] = 0
      /\ state[k] # "half_open" => halfOpen'[k] \in {0, halfOpen[k]}
      /\ \A q \in Keys : q # k => state'[q] = state[q] /\ halfOpen'[q] = halfOpen[q]
  BY <1>1, <1>2 DEF RecordFailure, RecordSuccess, Transition, TypeOK
<1> QED
  BY <1>3 DEF k

\* A trial request is admitted by a breaker that is half-open from then on, and
\* a report ends the trials of all requests admitted before it.
LEMMA ProbeStep == TypeOK /\ ProbeInv /\ [Next]_vars => ProbeInv'
<1> SUFFICES ASSUME TypeOK, ProbeInv, [Next]_vars PROVE ProbeInv'
  OBVIOUS
<1> USE CallerAssumption DEF TypeOK, ProbeInv, breakerVars
<1>1. ASSUME NEW r \in Callers, Admit(r) PROVE ProbeInv'
  BY <1>1 DEF Admit
<1>2. ASSUME NEW r \in Callers, NEW result \in Results, Attempt(r, result) PROVE ProbeInv'
  BY <1>2 DEF Attempt
<1>3. ASSUME NEW r \in Callers, Retry(r) \/ GiveUp(r) PROVE ProbeInv'
  BY <1>3 DEF Retry, GiveUp
<1>4. ASSUME NEW r \in Callers, Report(r) PROVE ProbeInv'
  <2>1. /\ \A q \in Callers : role'[q] = "probe" =>
               q # r /\ role[q] = "probe" /\ KeyOf[q] # KeyOf[r]
        /\ pc' = [pc EXCEPT ![r] = "idle"]
    BY <1>4 DEF Report
  <2> QED
    BY <1>4, <2>1, ReportEffect
<1> QED
  BY <1>1, <1>2, <1>3, <1>4 DEF Next, Tick, Refuse, vars

\* The count of trial requests moves with them.
LEMMA CountStep == TypeOK /\ ProbeInv /\ CountInv /\ [Next]_vars => CountInv'
<1> SUFFICES ASSUME TypeOK, ProbeInv, CountInv, [Next]_vars, NEW k \in Keys
             PROVE  /\ halfOpen'[k] = Cardinality(Probes(k)')
                    /\ state'[k] = "half_open" => halfOpen'[k] > 0
  BY DEF CountInv
<1> USE CallerAssumption DEF TypeOK, breakerVars
<1>0. /\ halfOpen[k] = Cardinality(Probes(k)) /\ halfOpen[k] \in Nat
      /\ state[k] = "half_open" => halfOpen[k] > 0
  BY DEF CountInv
<1>1. ASSUME halfOpen'[k] = halfOpen[k], Probes(k)' = Probes(k),
             state'[k] = "half_open" => state[k] = "half_open"
      PROVE  /\ halfOpen'[k] = Cardinality(Probes(k)')
             /\ state'[k] = "half_open" => halfOpen'[k] > 0
  BY <1>0, <1>1
<1>2. ASSUME NEW r \in Callers, Admit(r)
      PROVE  /\ halfOpen'[k] = Cardinality(Probes(k)')
             /\ state'[k] = "half_open" => halfOpen'[k] > 0
  <2>1. role[r] # "probe"
    BY <1>2 DEF Admit, ProbeInv
  <2>2. CASE KeyOf[r] # k \/ state[k] = "closed"
    <3>1. Probes(k)' = Probes(k)
      BY <1>2, <2>1, <2>2 DEF Admit, Probes
    <3> QED
      BY <1>1, <1>2, <2>2, <3>1 DEF Admit
  <2>3. CASE KeyOf[r] = k /\ state[k] # "closed"
    <3>1. Probes(k)' = Probes(k) \cup {r} /\ r \notin Probes(k)
      BY <1>2, <2>1, <2>3 DEF Admit, Probes
    <3>2. IsFiniteSet(Probes(k))
      BY FS_Subset DEF Probes
    <3>3. Cardinality(Probes(k)') = Cardinality(Probes(k)) + 1
      BY <3>1, <3>2, FS_AddElement
    <3>4. halfOpen'[k] = halfOpen[k] + 1
      BY <1>2, <2>3 DEF Admit
    <3> QED
      BY <1>0, <3>3, <3>4
  <2> QED
    BY <2>2, <2>3
<1>3. ASSUME NEW r \in Callers, Report(r)
      PROVE  /\ halfOpen'[k] = Cardinality(Probes(k)')
             /\ state'[k] = "half_open" => halfOpen'[k] > 0
  <2>1. CASE KeyOf[r] # k
    <3>1. Probes(k)' = Probes(k)
      BY <1>3, <2>1 DEF Report, Probes
    <3> QED
      BY <1>1, <1>3, <2>1, <3>1, ReportEffect
  <2>2. CASE KeyOf[r] = k
    <3>1. Probes(k)' = {}
      BY <1>3, <2>2 DEF Report, Probes
    <3>2. state[k] # "half_open" => halfOpen[k] = 0
      <4>1. state[k] # "half_open" => Probes(k) = {}
        BY DEF ProbeInv, Probes
      <4> QED
        BY <1>0, <4>1, FS_EmptySet
    <3>3. halfOpen'[k] = 0 /\ state'[k] # "half_open"
      BY <1>3, <2>2, <3>2, ReportEffect
    <3> QED
      BY <3>1, <3>3, FS_EmptySet
  <2> QED
    BY <2>1, <2>2
<1>4. CASE UNCHANGED <<state, halfOpen, role>>
  BY <1>1, <1>4 DEF Probes
<1> QED
  BY <1>2, <1>3, <1>4 DEF Next, Tick, Refuse, Retry, GiveUp, Attempt, vars

\* The inductive invariant: trial requests are counted exactly in every run.
THEOREM Invariance == Spec => []IInv
<1>1. IInv /\ [Next]_vars => IInv'
  BY TypeStep, RetryStep, ProbeStep, CountStep DEF IInv
<1> QED
  BY <1>1, InitIInv, PTL DEF Spec

\* No counter of the breaker or of the retry loop passes its bound.
THEOREM TypeCorrect == Spec => []TypeOK
<1>1. IInv => TypeOK
  BY DEF IInv
<1> QED
  BY <1>1, Invariance, PTL

\* A half-open breaker has a trial request under way and counts its trials
\* exactly, whatever the order in which requests of any age report.
THEOREM HalfOpenProbed == Spec => []HalfOpenIsProbed
<1>1. IInv => HalfOpenIsProbed
  BY DEF IInv, ProbeInv, CountInv, HalfOpenIsProbed, Probes
<1> QED
  BY <1>1, Invariance, PTL
=============================================================================
