--------------------------- MODULE CircuitBreaker ---------------------------
(***************************************************************************)
(* The circuits of the MCP resilience controller: one record per MCP       *)
(* server, changed only by the pure functions under                        *)
(* src/agent/mcp/reliability/circuit-breaker/.                             *)
(*                                                                         *)
(* Absolute times are replaced by the time still to wait: `wait' is        *)
(* max(0, nextAttemptAt - now), so `now >= nextAttemptAt' is `wait = 0'.   *)
(* openedAt and lastError are reported by describeCircuits() and read      *)
(* nowhere else; they are left out.                                        *)
(*                                                                         *)
(* The names begin with Breaker because Resilience extends this module     *)
(* and is shown to implement BreakerSpec.                                  *)
(***************************************************************************)
EXTENDS Naturals

CONSTANTS
  Servers,    \* names of MCP servers
  Threshold,  \* circuitFailureThreshold
  OpenMs      \* circuitOpenMs, in clock units

ASSUME BreakerAssumption ==
  /\ Threshold \in Nat \ {0}
  /\ OpenMs \in Nat

VARIABLE circuit

CircuitStates == {"closed", "open", "half-open"}

Circuit == [state : CircuitStates, failures : Nat, wait : 0..OpenMs]

-----------------------------------------------------------------------------

ClosedCircuit == [state |-> "closed", failures |-> 0, wait |-> 0]

CanAttempt(c) == c.state # "open" \/ c.wait = 0

MarkHalfOpen(c) == IF c.state = "open" THEN [c EXCEPT !.state = "half-open"] ELSE c

\* Faulty variant: the count survives a success.
MarkSuccessKeepsCount(c) == [c EXCEPT !.state = "closed", !.wait = 0]

MarkSuccess(c) == ClosedCircuit

\* Faulty variant: a failed probe leaves the circuit half-open.
MarkFailureIgnoresProbe(c) ==
  IF c.state # "half-open" /\ c.failures + 1 >= Threshold
  THEN [state |-> "open", failures |-> c.failures + 1, wait |-> OpenMs]
  ELSE [state |-> c.state, failures |-> c.failures + 1, wait |-> 0]

\* Failures are counted in every state, so a half-open circuit, which still
\* carries the count that opened it, is opened again by a single failure.
MarkFailure(c) ==
  IF c.failures + 1 >= Threshold
  THEN [state |-> "open", failures |-> c.failures + 1, wait |-> OpenMs]
  ELSE [state |-> "closed", failures |-> c.failures + 1, wait |-> 0]

\* One unit of time for one circuit.
Cool(c) == [c EXCEPT !.wait = IF @ > 0 THEN @ - 1 ELSE 0]

-----------------------------------------------------------------------------

RecordSuccess(s) == circuit' = [circuit EXCEPT ![s] = MarkSuccess(@)]

RecordFailure(s) == circuit' = [circuit EXCEPT ![s] = MarkFailure(@)]

\* assertCircuitAllowsAttempt when it does not throw.
AdmitAttempt(s) ==
  /\ CanAttempt(circuit[s])
  /\ circuit' = [circuit EXCEPT ![s] = MarkHalfOpen(@)]

\* assertCircuitAllowsAttempt when it throws "MCP circuit is open".
RefuseAttempt(s) ==
  /\ ~CanAttempt(circuit[s])
  /\ UNCHANGED circuit

Elapse == circuit' = [s \in Servers |-> Cool(circuit[s])]

-----------------------------------------------------------------------------

BreakerInit == circuit = [s \in Servers |-> ClosedCircuit]

BreakerNext ==
  \/ \E s \in Servers : RecordSuccess(s) \/ RecordFailure(s) \/ AdmitAttempt(s)
  \/ Elapse

\* What the circuits promise whoever uses them: they start closed and only
\* ever take these steps.
BreakerSpec == BreakerInit /\ [][BreakerNext]_circuit

-----------------------------------------------------------------------------

BreakerTypeOK == circuit \in [Servers -> Circuit]

\* A circuit is closed exactly when fewer failures than the threshold were
\* counted since the last success: a probe admitted by a half-open circuit
\* therefore needs to fail only once to open it again, and a closed circuit
\* never hides a run of failures that should have opened it. Only an open
\* circuit has time left to wait.
CircuitConsistent ==
  \A s \in Servers :
    /\ circuit[s].state = "closed" <=> circuit[s].failures < Threshold
    /\ circuit[s].state # "open" => circuit[s].wait = 0
=============================================================================
