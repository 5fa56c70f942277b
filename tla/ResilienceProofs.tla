-------------------------- MODULE ResilienceProofs --------------------------
(***************************************************************************)
(* Proofs about CircuitBreaker and Resilience, for any servers, callers,   *)
(* threshold, times, retry budgets and bound.                              *)
(***************************************************************************)
EXTENDS Resilience, TLAPS

USE BreakerAssumption, ResilienceAssumption

-----------------------------------------------------------------------------
\* The circuits on their own.

\* Every operation on a circuit returns a circuit.
LEMMA CircuitOperations ==
  ASSUME NEW c \in Circuit
  PROVE  /\ ClosedCircuit \in Circuit
         /\ MarkSuccess(c) \in Circuit
         /\ MarkFailure(c) \in Circuit
         /\ MarkHalfOpen(c) \in Circuit
         /\ Cool(c) \in Circuit
  BY DEF Circuit, CircuitStates, ClosedCircuit, MarkSuccess, MarkFailure, MarkHalfOpen, Cool

\* The conjuncts of CircuitConsistent, for one circuit.
Consistent(c) ==
  /\ c.state = "closed" <=> c.failures < Threshold
  /\ c.state # "open" => c.wait = 0

\* Every operation on a circuit keeps it consistent; only an admitted attempt
\* may make it half-open, and it may only once the wait is over.
LEMMA ConsistentOperations ==
  ASSUME NEW c \in Circuit, Consistent(c)
  PROVE  /\ Consistent(ClosedCircuit)
         /\ Consistent(MarkSuccess(c))
         /\ Consistent(MarkFailure(c))
         /\ CanAttempt(c) => Consistent(MarkHalfOpen(c))
         /\ Consistent(Cool(c))
  BY DEF Circuit, CircuitStates, ClosedCircuit, MarkSuccess, MarkFailure, MarkHalfOpen, Cool,
         Consistent, CanAttempt

LEMMA BreakerStep ==
  ASSUME BreakerTypeOK, CircuitConsistent, [BreakerNext]_circuit
  PROVE  BreakerTypeOK' /\ CircuitConsistent'
<1>1. /\ circuit \in [Servers -> Circuit]
      /\ \A s \in Servers : circuit[s] \in Circuit /\ Consistent(circuit[s])
  BY DEF BreakerTypeOK, CircuitConsistent, Consistent
<1>2. SUFFICES /\ circuit' \in [Servers -> Circuit]
               /\ \A s \in Servers : Consistent(circuit'[s])
  BY DEF BreakerTypeOK, CircuitConsistent, Consistent
<1>3. CASE UNCHANGED circuit
  BY <1>1, <1>3
<1>4. CASE Elapse
  BY <1>1, <1>4, CircuitOperations, ConsistentOperations DEF Elapse
<1>5. ASSUME NEW s \in Servers, RecordSuccess(s) \/ RecordFailure(s) \/ AdmitAttempt(s)
      PROVE  /\ circuit' \in [Servers -> Circuit]
             /\ \A t \in Servers : Consistent(circuit'[t])
  BY <1>1, <1>5, CircuitOperations, ConsistentOperations
     DEF RecordSuccess, RecordFailure, AdmitAttempt
<1> QED
  BY <1>3, <1>4, <1>5 DEF BreakerNext

\* The abstract breaker alone: for whatever results and admissions the users of the circuits
\* produce, a circuit is closed exactly below the failure threshold.
THEOREM BreakerInvariant == BreakerSpec => [](BreakerTypeOK /\ CircuitConsistent)
<1>1. BreakerInit => BreakerTypeOK /\ CircuitConsistent
  BY DEF BreakerInit, BreakerTypeOK, CircuitConsistent, ClosedCircuit, Circuit, CircuitStates
<1>2. BreakerTypeOK /\ CircuitConsistent /\ [BreakerNext]_circuit
        => BreakerTypeOK' /\ CircuitConsistent'
  BY BreakerStep
<1> QED
  BY <1>1, <1>2, PTL DEF BreakerSpec

-----------------------------------------------------------------------------
\* The callers.

\* Whatever a caller or the clock does, it uses the circuits only as
\* CircuitBreaker says.
LEMMA StepIsBreakerStep ==
  ASSUME TypeOK, [Next]_vars
  PROVE  [BreakerNext]_circuit
<1> USE DEF TypeOK, BreakerNext
<1>1. ASSUME NEW c \in Callers, NEW s \in Servers, NEW r \in RetryBudgets, Call(c, s, r)
      PROVE  [BreakerNext]_circuit
  BY <1>1 DEF Call, RefuseAttempt
<1>2. ASSUME NEW c \in Callers, Wake(c)
      PROVE  [BreakerNext]_circuit
  BY <1>2 DEF Wake, RefuseAttempt
<1>3. ASSUME NEW c \in Callers, Succeed(c)
      PROVE  [BreakerNext]_circuit
  BY <1>3 DEF Succeed
<1>4. ASSUME NEW c \in Callers, NEW e \in Errors, Fail(c, e)
      PROVE  [BreakerNext]_circuit
  BY <1>4 DEF Fail
<1>5. CASE Tick
  BY <1>5 DEF Tick
<1> QED
  BY <1>1, <1>2, <1>3, <1>4, <1>5 DEF Next, vars, Healthcheck, GiveUp, BackOff

LEMMA BackoffType == \A n \in Nat : ComputeBackoff(n) \in 0..MaxBackoff
  BY DEF ComputeBackoff

\* Type correctness of one step. The circuits are BreakerStep's; the callers'
\* own variables need one case per action.
LEMMA TypeStep ==
  ASSUME TypeOK, CircuitConsistent, [Next]_vars
  PROVE  TypeOK'
<1> USE DEF Idle, Busy, Errors
<1>1. BreakerTypeOK'
  BY StepIsBreakerStep, BreakerStep DEF TypeOK
<1>2. /\ phase \in [Callers -> Idle \cup Busy]
      /\ kind \in [Callers -> {"call", "health"}]
      /\ server \in [Callers -> Servers]
      /\ attempt \in [Callers -> Nat]
      /\ retries \in [Callers -> Nat]
      /\ err \in [Callers -> Errors \cup {"none"}]
      /\ sleep \in [Callers -> 0..MaxBackoff]
  BY DEF TypeOK
<1> DEFINE CallerTypes ==
      /\ phase' \in [Callers -> Idle \cup Busy]
      /\ kind' \in [Callers -> {"call", "health"}]
      /\ server' \in [Callers -> Servers]
      /\ attempt' \in [Callers -> Nat]
      /\ retries' \in [Callers -> Nat]
      /\ err' \in [Callers -> Errors \cup {"none"}]
      /\ sleep' \in [Callers -> 0..MaxBackoff]
<1>3. SUFFICES CallerTypes
  BY <1>1 DEF TypeOK
<1>4. ASSUME NEW c \in Callers, NEW s \in Servers, NEW r \in RetryBudgets, Call(c, s, r)
      PROVE  CallerTypes
  BY <1>2, <1>4 DEF Call, Enter, Settle
<1>5. ASSUME NEW c \in Callers, NEW s \in Servers, Healthcheck(c, s)
      PROVE  CallerTypes
  BY <1>2, <1>5 DEF Healthcheck, Enter
<1>6. ASSUME NEW c \in Callers, Succeed(c)
      PROVE  CallerTypes
  BY <1>2, <1>6 DEF Succeed, Settle
<1>7. ASSUME NEW c \in Callers, NEW e \in Errors, Fail(c, e)
      PROVE  CallerTypes
  BY <1>2, <1>7 DEF Fail
<1>8. ASSUME NEW c \in Callers, GiveUp(c)
      PROVE  CallerTypes
  BY <1>2, <1>8 DEF GiveUp, Settle
<1>9. ASSUME NEW c \in Callers, BackOff(c)
      PROVE  CallerTypes
  BY <1>2, <1>9, BackoffType DEF BackOff
<1>10. ASSUME NEW c \in Callers, Wake(c)
       PROVE  CallerTypes
  BY <1>2, <1>10 DEF Wake, Settle
<1>11. CASE Tick
  BY <1>2, <1>11 DEF Tick
<1>12. CASE UNCHANGED vars
  BY <1>2, <1>12 DEF vars, callerVars
<1> QED
  BY <1>4, <1>5, <1>6, <1>7, <1>8, <1>9, <1>10, <1>11, <1>12 DEF Next

\* The initial state, for all the invariants at once.
LEMMA InitInvariants ==
  ASSUME Init
  PROVE  TypeOK /\ CircuitConsistent /\ HalfOpenHasProbe /\ RetriesWithinBudget
  BY DEF Init, BreakerInit, TypeOK, BreakerTypeOK, CircuitConsistent, HalfOpenHasProbe,
         RetriesWithinBudget, ClosedCircuit, Circuit, CircuitStates, Idle, Busy, Errors

\* A step keeps a probe in flight for every half-open circuit. A step that
\* records a result leaves the circuit it records on closed or open, so the
\* half-open circuits are others, whose probes belong to other callers; a step
\* that admits an attempt makes its caller a probe.
LEMMA ProbeStep ==
  ASSUME TypeOK, RetriesWithinBudget, HalfOpenHasProbe, [Next]_vars
  PROVE  HalfOpenHasProbe'
<1>1. SUFFICES ASSUME NEW s \in Servers, circuit'[s].state = "half-open"
               PROVE  \E c \in Callers : Probing(c, s)'
  BY DEF HalfOpenHasProbe
<1>2. /\ circuit \in [Servers -> Circuit]
      /\ phase \in [Callers -> Idle \cup Busy]
      /\ kind \in [Callers -> {"call", "health"}]
      /\ server \in [Callers -> Servers]
  BY DEF TypeOK, BreakerTypeOK
<1>3. circuit[s].state = "half-open" => \E d \in Callers : Probing(d, s)
  BY DEF HalfOpenHasProbe
<1> USE DEF Idle, Busy, Probing
\* A caller that is not running enters or re-enters the loop.
<1>4. ASSUME NEW c \in Callers, NEW t \in Servers, phase[c] # "running",
             AdmitAttempt(t), phase' = [phase EXCEPT ![c] = "running"],
             kind'[c] = "call", server'[c] = t,
             \A d \in Callers \ {c} : kind'[d] = kind[d] /\ server'[d] = server[d]
      PROVE  \E d \in Callers : Probing(d, s)'
  <2>1. CASE s = t
    BY <1>2, <1>4, <2>1
  <2>2. CASE s # t
    BY <1>1, <1>2, <1>3, <1>4, <2>2 DEF AdmitAttempt
  <2> QED
    BY <2>1, <2>2
\* A result is recorded, or nothing happens to the circuits.
<1>5. ASSUME NEW c \in Callers, circuit' = circuit, phase[c] # "running",
             \A d \in Callers \ {c} :
               phase'[d] = phase[d] /\ kind'[d] = kind[d] /\ server'[d] = server[d]
      PROVE  \E d \in Callers : Probing(d, s)'
  BY <1>1, <1>2, <1>3, <1>5
<1>6. ASSUME NEW c \in Callers, phase[c] = "running",
             RecordSuccess(server[c]) \/ RecordFailure(server[c]),
             \A d \in Callers \ {c} :
               phase'[d] = phase[d] /\ kind'[d] = kind[d] /\ server'[d] = server[d]
      PROVE  \E d \in Callers : Probing(d, s)'
  <2>1. s # server[c]
    BY <1>1, <1>2, <1>6
       DEF RecordSuccess, RecordFailure, MarkSuccess, MarkFailure, ClosedCircuit
  <2> QED
    BY <1>1, <1>2, <1>3, <1>6, <2>1 DEF RecordSuccess, RecordFailure
<1>7. ASSUME NEW c \in Callers, NEW t \in Servers, NEW r \in RetryBudgets, Call(c, t, r)
      PROVE  \E d \in Callers : Probing(d, s)'
  <2>1. CASE AdmitAttempt(t) /\ Enter(c, "call", t, r)
    BY <1>2, <1>4, <1>7, <2>1 DEF Call, Enter
  <2>2. CASE RefuseAttempt(t) /\ Settle(c, "refused")
    BY <1>2, <1>5, <1>7, <2>2 DEF Call, Settle, RefuseAttempt
  <2> QED
    BY <1>7, <2>1, <2>2 DEF Call
<1>8. ASSUME NEW c \in Callers, NEW t \in Servers, Healthcheck(c, t)
      PROVE  \E d \in Callers : Probing(d, s)'
  BY <1>2, <1>5, <1>8 DEF Healthcheck, Enter
<1>9. ASSUME NEW c \in Callers, Succeed(c)
      PROVE  \E d \in Callers : Probing(d, s)'
  BY <1>2, <1>6, <1>9 DEF Succeed, Settle
<1>10. ASSUME NEW c \in Callers, NEW e \in Errors, Fail(c, e)
       PROVE  \E d \in Callers : Probing(d, s)'
  BY <1>2, <1>6, <1>10 DEF Fail
<1>11. ASSUME NEW c \in Callers, GiveUp(c) \/ BackOff(c)
       PROVE  \E d \in Callers : Probing(d, s)'
  BY <1>2, <1>5, <1>11 DEF GiveUp, BackOff, Settle
<1>12. ASSUME NEW c \in Callers, Wake(c)
       PROVE  \E d \in Callers : Probing(d, s)'
  <2> kind[c] = "call"
    BY <1>12 DEF Wake, RetriesWithinBudget
  <2>1. CASE AdmitAttempt(server[c])
    BY <1>2, <1>4, <1>12, <2>1 DEF Wake, RefuseAttempt, AdmitAttempt
  <2>2. CASE RefuseAttempt(server[c])
    BY <1>2, <1>5, <1>12, <2>2 DEF Wake, Settle, RefuseAttempt, AdmitAttempt
  <2> QED
    BY <1>12, <2>1, <2>2 DEF Wake
<1>13. CASE Tick
  <2>1. circuit[s].state = "half-open"
    BY <1>1, <1>2, <1>13 DEF Tick, Elapse, Cool, Circuit
  <2> QED
    BY <1>2, <1>3, <1>13, <2>1 DEF Tick
<1>14. CASE UNCHANGED vars
  BY <1>1, <1>3, <1>14 DEF vars, callerVars
<1> QED
  BY <1>7, <1>8, <1>9, <1>10, <1>11, <1>12, <1>13, <1>14 DEF Next

-----------------------------------------------------------------------------
\* The retry loop.

\* RetriesWithinBudget is not inductive. It needs that a new call finds its
\* locals at their initial values, and that the error of an attempt has been
\* noted by the time its cleanup is awaited.
RetryInv ==
  /\ RetriesWithinBudget
  /\ \A c \in Callers :
       /\ phase[c] \in Idle => attempt[c] = 0
       /\ phase[c] = "cleanup" => err[c] # "none"

LEMMA RetryStep ==
  ASSUME TypeOK, RetryInv, [Next]_vars
  PROVE  RetryInv'
<1> DEFINE Good(c) ==
      /\ attempt[c] <= retries[c]
      /\ phase[c] = "backoff" => kind[c] = "call" /\ err[c] = "transient"
      /\ phase[c] \in Idle => attempt[c] = 0
      /\ phase[c] = "cleanup" => err[c] # "none"
<1>1. \A c \in Callers : Good(c)
  BY DEF RetryInv, RetriesWithinBudget
<1>2. SUFFICES ASSUME NEW c \in Callers PROVE Good(c)'
  BY DEF RetryInv, RetriesWithinBudget
<1>3. /\ phase \in [Callers -> Idle \cup Busy]
      /\ kind \in [Callers -> {"call", "health"}]
      /\ attempt \in [Callers -> Nat]
      /\ retries \in [Callers -> Nat]
      /\ err \in [Callers -> Errors \cup {"none"}]
  BY DEF TypeOK
<1> USE <1>1, <1>3 DEF Errors, Idle, Busy
<1>4. ASSUME NEW d \in Callers, NEW s \in Servers, NEW r \in RetryBudgets, Call(d, s, r)
      PROVE  Good(c)'
  BY <1>4 DEF Call, Enter, Settle
<1>5. ASSUME NEW d \in Callers, NEW s \in Servers, Healthcheck(d, s)
      PROVE  Good(c)'
  BY <1>5 DEF Healthcheck, Enter
<1>6. ASSUME NEW d \in Callers, Succeed(d) \/ GiveUp(d)
      PROVE  Good(c)'
  BY <1>6 DEF Succeed, GiveUp, Settle
<1>7. ASSUME NEW d \in Callers, NEW e \in Errors, Fail(d, e)
      PROVE  Good(c)'
  BY <1>7 DEF Fail
<1>8. ASSUME NEW d \in Callers, BackOff(d)
      PROVE  Good(c)'
  BY <1>8 DEF BackOff, ShouldRetry
<1>9. ASSUME NEW d \in Callers, Wake(d)
      PROVE  Good(c)'
  BY <1>9 DEF Wake, Settle
<1>10. CASE Tick
  BY <1>10 DEF Tick
<1>11. CASE UNCHANGED vars
  BY <1>11 DEF vars, callerVars
<1> QED
  BY <1>4, <1>5, <1>6, <1>7, <1>8, <1>9, <1>10, <1>11 DEF Next

-----------------------------------------------------------------------------
\* The theorems of the specification.

\* The inductive invariant of Resilience.
ResilienceInv == TypeOK /\ CircuitConsistent /\ RetryInv /\ HalfOpenHasProbe

\* The controller and all its callers keep it: whatever overlaps, the types hold, each
\* circuit is consistent, no call exceeds its budget, and every half-open circuit has
\* an admitted attempt in flight.
THEOREM ResilienceInvariant == Spec => []ResilienceInv
<1>1. Init => ResilienceInv
  BY DEF Init, ResilienceInv, BreakerInit, TypeOK, BreakerTypeOK, CircuitConsistent,
         HalfOpenHasProbe, RetryInv, RetriesWithinBudget, ClosedCircuit, Circuit,
         CircuitStates, Idle, Busy, Errors
<1>2. ResilienceInv /\ [Next]_vars => ResilienceInv'
  <2> SUFFICES ASSUME ResilienceInv, [Next]_vars PROVE ResilienceInv'
    OBVIOUS
  <2> USE DEF ResilienceInv
  <2>1. TypeOK'
    BY TypeStep
  <2>2. CircuitConsistent'
    BY StepIsBreakerStep, BreakerStep DEF TypeOK
  <2>3. RetryInv'
    BY RetryStep
  <2>4. HalfOpenHasProbe'
    BY ProbeStep DEF RetryInv
  <2> QED
    BY <2>1, <2>2, <2>3, <2>4
<1> QED
  BY <1>1, <1>2, PTL DEF Spec

\* The variables keep their types.
THEOREM TypeCorrect == Spec => []TypeOK
  BY ResilienceInvariant, PTL DEF ResilienceInv

\* Concurrent callers never leave a circuit closed at or above the threshold,
\* nor open or half-open below it.
THEOREM CircuitsConsistent == Spec => []CircuitConsistent
  BY ResilienceInvariant, PTL DEF ResilienceInv

\* A half-open circuit always has an admitted attempt in flight.
THEOREM HalfOpenProbed == Spec => []HalfOpenHasProbe
  BY ResilienceInvariant, PTL DEF ResilienceInv

\* No call retries beyond its budget or over an error not worth retrying.
THEOREM RetriesBounded == Spec => []RetriesWithinBudget
  BY ResilienceInvariant, PTL DEF ResilienceInv, RetryInv

\* Callers, delays and health checks use the circuits as CircuitBreaker says.
THEOREM ImplementsBreaker == Spec => BreakerSpec
<1>1. Init => BreakerInit
  BY DEF Init
<1>2. ResilienceInv /\ [Next]_vars => [BreakerNext]_circuit
  BY StepIsBreakerStep DEF ResilienceInv
<1> QED
  BY <1>1, <1>2, ResilienceInvariant, PTL DEF Spec, BreakerSpec

\* Nothing but the success of an operation in flight ends a cool-down early,
\* and no attempt starts during one.
THEOREM CoolDown == Spec => CoolDownRespected
<1> DEFINE Stays(s) == circuit'[s].state = "open" /\ circuit'[s].wait >= circuit[s].wait - 1
           Recovers(s) == \E c \in Callers :
                            server[c] = s /\ phase[c] = "running" /\ phase'[c] = "ok"
           NoNewProbe(s) == \A c \in Callers : Probing(c, s)' => Probing(c, s)
<1>1. ASSUME ResilienceInv, Next, NEW s \in Servers,
             circuit[s].state = "open", circuit[s].wait > 0
      PROVE  (Stays(s) \/ Recovers(s)) /\ NoNewProbe(s)
  <2>1. /\ circuit \in [Servers -> Circuit]
        /\ phase \in [Callers -> Idle \cup Busy]
        /\ kind \in [Callers -> {"call", "health"}]
        /\ server \in [Callers -> Servers]
        /\ circuit[s].failures >= Threshold
        /\ ~CanAttempt(circuit[s])
    BY <1>1 DEF ResilienceInv, TypeOK, BreakerTypeOK, CircuitConsistent, CanAttempt, Circuit
  <2> USE <1>1, <2>1 DEF Idle, Busy, Probing
  <2>2. ASSUME UNCHANGED circuit
        PROVE  Stays(s)
    BY <2>2 DEF Circuit
  <2>3. ASSUME NEW t \in Servers, RecordFailure(t)
        PROVE  Stays(s)
    BY <2>3 DEF RecordFailure, MarkFailure, Circuit
  <2>4. ASSUME NEW t \in Servers, AdmitAttempt(t)
        PROVE  Stays(s)
    <3>1. s # t
      BY <2>4 DEF AdmitAttempt
    <3> QED
      BY <2>4, <3>1 DEF AdmitAttempt, Circuit
  <2>5. ASSUME NEW c \in Callers, NEW t \in Servers, NEW r \in RetryBudgets, Call(c, t, r)
        PROVE  Stays(s) /\ NoNewProbe(s)
    <3>1. CASE AdmitAttempt(t) /\ Enter(c, "call", t, r)
      BY <2>4, <2>5, <3>1 DEF Enter, AdmitAttempt
    <3>2. CASE RefuseAttempt(t) /\ Settle(c, "refused")
      BY <2>2, <2>5, <3>2 DEF Settle, RefuseAttempt
    <3> QED
      BY <2>5, <3>1, <3>2 DEF Call
  <2>6. ASSUME NEW c \in Callers, NEW t \in Servers, Healthcheck(c, t)
        PROVE  Stays(s) /\ NoNewProbe(s)
    BY <2>2, <2>6 DEF Healthcheck, Enter
  <2>7. ASSUME NEW c \in Callers, Succeed(c)
        PROVE  (Stays(s) \/ Recovers(s)) /\ NoNewProbe(s)
    <3>1. CASE server[c] = s
      BY <2>7, <3>1 DEF Succeed, Settle
    <3>2. CASE server[c] # s
      BY <2>7, <3>2 DEF Succeed, Settle, RecordSuccess, Circuit
    <3> QED
      BY <3>1, <3>2
  <2>8. ASSUME NEW c \in Callers, NEW e \in Errors, Fail(c, e)
        PROVE  Stays(s) /\ NoNewProbe(s)
    BY <2>3, <2>8 DEF Fail
  <2>9. ASSUME NEW c \in Callers, GiveUp(c) \/ BackOff(c)
        PROVE  Stays(s) /\ NoNewProbe(s)
    BY <2>2, <2>9 DEF GiveUp, BackOff, Settle
  <2>10. ASSUME NEW c \in Callers, Wake(c)
         PROVE  Stays(s) /\ NoNewProbe(s)
    <3>1. CASE AdmitAttempt(server[c])
      BY <2>4, <2>10, <3>1 DEF Wake, AdmitAttempt, RefuseAttempt
    <3>2. CASE RefuseAttempt(server[c])
      BY <2>2, <2>10, <3>2 DEF Wake, Settle, AdmitAttempt, RefuseAttempt
    <3> QED
      BY <2>10, <3>1, <3>2 DEF Wake
  <2>11. CASE Tick
    BY <2>11 DEF Tick, Elapse, Cool, Circuit
  <2> QED
    BY <2>5, <2>6, <2>7, <2>8, <2>9, <2>10, <2>11 DEF Next
<1>2. ResilienceInv /\ [Next]_vars => [\A s \in Servers : CoolDownStep(s)]_vars
  BY <1>1 DEF CoolDownStep
<1> QED
  BY <1>2, ResilienceInvariant, PTL DEF Spec, CoolDownRespected
=============================================================================
