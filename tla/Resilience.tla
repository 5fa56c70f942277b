----------------------------- MODULE Resilience -----------------------------
(***************************************************************************)
(* McpResilienceController.executeWithResilience, run by any number of     *)
(* concurrent callers over the circuits of CircuitBreaker, together with   *)
(* AgentMcpManager.healthcheck, which reports to the same circuits without *)
(* asking them for admission.                                              *)
(*                                                                         *)
(* A step is the code between two awaits. What the awaited operation does  *)
(* (start a session, list or call a tool) is abstracted to its result; the *)
(* McpSessions module models it. The text of an error is abstracted to     *)
(* what shouldRetry reads from it: "config" for the messages it never      *)
(* retries, "transient" for every other.                                   *)
(***************************************************************************)
EXTENDS CircuitBreaker

CONSTANTS
  Callers,         \* concurrent operations of the process
  RetryBudgets,    \* values of max(0, options.retries ?? maxRetries)
  InitialBackoff,  \* initialBackoffMs, in clock units
  MaxBackoff,      \* maxBackoffMs
  BackoffFactor,   \* backoffMultiplier, an integer here
  MaxFailures      \* bound: no new operation on a server with this many failures

ASSUME ResilienceAssumption ==
  /\ RetryBudgets \subseteq Nat
  /\ InitialBackoff \in Nat
  /\ MaxBackoff \in Nat
  /\ BackoffFactor \in Nat
  /\ MaxFailures \in Nat

VARIABLES
  phase,    \* where each caller is
  kind,     \* "call" (executeWithResilience) or "health" (healthcheck)
  server,   \* the server the caller's operation is about
  attempt,  \* the loop variable of executeWithResilience
  retries,  \* its bound
  err,      \* the class of the last error of the current call
  sleep     \* time left of delay(backoffMs)

callerVars == <<phase, kind, server, attempt, retries, err, sleep>>
vars == <<circuit, callerVars>>

Idle == {"idle", "ok", "refused", "failed"}      \* the promise is settled
Busy == {"running", "cleanup", "backoff"}        \* awaiting something
Errors == {"transient", "config"}

TypeOK ==
  /\ BreakerTypeOK
  /\ phase \in [Callers -> Idle \cup Busy]
  /\ kind \in [Callers -> {"call", "health"}]
  /\ server \in [Callers -> Servers]
  /\ attempt \in [Callers -> Nat]
  /\ retries \in [Callers -> Nat]
  /\ err \in [Callers -> Errors \cup {"none"}]
  /\ sleep \in [Callers -> 0..MaxBackoff]

-----------------------------------------------------------------------------

\* Faulty variant: the cap is forgotten.
ComputeBackoffUncapped(n) == InitialBackoff * BackoffFactor^n

\* min(maxBackoffMs, initialBackoffMs * backoffMultiplier ^ n)
ComputeBackoff(n) ==
  LET raw == InitialBackoff * BackoffFactor^n
  IN  IF raw \in 0..MaxBackoff THEN raw ELSE MaxBackoff

\* Faulty variant: one attempt too many.
ShouldRetryOnceMore(c) == attempt[c] <= retries[c] /\ err[c] # "config"

\* The last error is worth another attempt and one is left.
ShouldRetry(c) == attempt[c] < retries[c] /\ err[c] # "config"

\* The operation of a new call or health check starts; the caller's locals
\* attempt and lastError are at their initial values.
Enter(c, k, s, r) ==
  /\ kind' = [kind EXCEPT ![c] = k]
  /\ server' = [server EXCEPT ![c] = s]
  /\ retries' = [retries EXCEPT ![c] = r]
  /\ phase' = [phase EXCEPT ![c] = "running"]
  /\ UNCHANGED <<attempt, err, sleep>>

\* The promise settles and its locals go out of scope.
Settle(c, outcome) ==
  /\ phase' = [phase EXCEPT ![c] = outcome]
  /\ kind' = [kind EXCEPT ![c] = "call"]
  /\ attempt' = [attempt EXCEPT ![c] = 0]
  /\ retries' = [retries EXCEPT ![c] = 0]
  /\ err' = [err EXCEPT ![c] = "none"]
  /\ UNCHANGED <<server, sleep>>

\* startServer, listTools or callTool enter executeWithResilience: the circuit
\* admits the first attempt, or the call ends with the circuit's own error.
Call(c, s, r) ==
  /\ phase[c] \in Idle
  /\ circuit[s].failures < MaxFailures
  /\ \/ AdmitAttempt(s) /\ Enter(c, "call", s, r)
     \/ RefuseAttempt(s) /\ Settle(c, "refused")

\* healthcheck goes straight to the session: no circuit is asked.
Healthcheck(c, s) ==
  /\ phase[c] \in Idle
  /\ circuit[s].failures < MaxFailures
  /\ Enter(c, "health", s, 0)
  /\ UNCHANGED circuit

\* The operation resolved.
Succeed(c) ==
  /\ phase[c] = "running"
  /\ RecordSuccess(server[c])
  /\ Settle(c, "ok")

\* The operation rejected: the failure is counted at once, then onFailure
\* (invalidateSession for a health check) is awaited.
Fail(c, e) ==
  /\ phase[c] = "running"
  /\ RecordFailure(server[c])
  /\ err' = [err EXCEPT ![c] = e]
  /\ phase' = [phase EXCEPT ![c] = "cleanup"]
  /\ UNCHANGED <<kind, server, attempt, retries, sleep>>

\* Faulty variant: an exhausted budget does not end the call.
GiveUpOnConfigOnly(c) ==
  /\ phase[c] = "cleanup"
  /\ kind[c] = "health" \/ err[c] = "config"
  /\ Settle(c, "failed")
  /\ UNCHANGED circuit

\* onFailure resolved and the call is given up; a health check never retries.
GiveUp(c) ==
  /\ phase[c] = "cleanup"
  /\ kind[c] = "health" \/ ~ShouldRetry(c)
  /\ Settle(c, "failed")
  /\ UNCHANGED circuit

\* onFailure resolved and the call waits for its next attempt.
BackOff(c) ==
  /\ phase[c] = "cleanup"
  /\ kind[c] = "call"
  /\ ShouldRetry(c)
  /\ sleep' = [sleep EXCEPT ![c] = ComputeBackoff(attempt[c])]
  /\ attempt' = [attempt EXCEPT ![c] = @ + 1]
  /\ phase' = [phase EXCEPT ![c] = "backoff"]
  /\ UNCHANGED <<circuit, kind, server, retries, err>>

\* Faulty variant: a retry does not ask the circuit.
WakeUnasked(c) ==
  /\ phase[c] = "backoff"
  /\ sleep[c] = 0
  /\ phase' = [phase EXCEPT ![c] = "running"]
  /\ UNCHANGED <<circuit, kind, server, attempt, retries, err, sleep>>

\* Faulty variant: a retry probes the circuit before its wait is over.
WakeProbesEarly(c) ==
  /\ phase[c] = "backoff"
  /\ sleep[c] = 0
  /\ circuit' = [circuit EXCEPT ![server[c]] = MarkHalfOpen(@)]
  /\ phase' = [phase EXCEPT ![c] = "running"]
  /\ UNCHANGED <<kind, server, attempt, retries, err, sleep>>

\* The delay is over. The circuit is asked again: another caller may have
\* opened it meanwhile.
Wake(c) ==
  /\ phase[c] = "backoff"
  /\ sleep[c] = 0
  /\ \/ /\ AdmitAttempt(server[c])
        /\ phase' = [phase EXCEPT ![c] = "running"]
        /\ UNCHANGED <<kind, server, attempt, retries, err, sleep>>
     \/ RefuseAttempt(server[c]) /\ Settle(c, "refused")

\* Time passes for every circuit and every delay. A timer may fire late: a
\* caller whose sleep is over need not wake at once.
Tick ==
  /\ \/ \E s \in Servers : circuit[s].wait > 0
     \/ \E c \in Callers : sleep[c] > 0
  /\ Elapse
  /\ sleep' = [c \in Callers |-> IF sleep[c] > 0 THEN sleep[c] - 1 ELSE 0]
  /\ UNCHANGED <<phase, kind, server, attempt, retries, err>>

-----------------------------------------------------------------------------

Init ==
  /\ BreakerInit
  /\ phase = [c \in Callers |-> "idle"]
  /\ kind = [c \in Callers |-> "call"]
  /\ server \in [Callers -> Servers]
  /\ attempt = [c \in Callers |-> 0]
  /\ retries = [c \in Callers |-> 0]
  /\ err = [c \in Callers |-> "none"]
  /\ sleep = [c \in Callers |-> 0]

Next ==
  \/ \E c \in Callers, s \in Servers, r \in RetryBudgets : Call(c, s, r)
  \/ \E c \in Callers, s \in Servers : Healthcheck(c, s)
  \/ \E c \in Callers : Succeed(c)
  \/ \E c \in Callers, e \in Errors : Fail(c, e)
  \/ \E c \in Callers : GiveUp(c)
  \/ \E c \in Callers : BackOff(c)
  \/ \E c \in Callers : Wake(c)
  \/ Tick

\* What follows once a caller has begun.
Advance(c) ==
  \/ Succeed(c) \/ (\E e \in Errors : Fail(c, e))
  \/ GiveUp(c) \/ BackOff(c)
  \/ Wake(c)

\* Operations end because every request carries a timer (15 s by default),
\* delays end because timers fire, and the event loop runs what is ready.
Fairness ==
  /\ WF_vars(Tick)
  /\ \A c \in Callers : WF_vars(Advance(c))

Spec == Init /\ [][Next]_vars /\ Fairness

-----------------------------------------------------------------------------

\* A caller whose operation was admitted by a circuit and has not ended.
Probing(c, s) == phase[c] = "running" /\ kind[c] = "call" /\ server[c] = s

\* A half-open circuit always has an admitted attempt in flight, whose result
\* will close or open it. No result of another caller can strand a circuit in
\* half-open, a state that nothing but a result leaves.
HalfOpenHasProbe ==
  \A s \in Servers :
    circuit[s].state = "half-open" => \E c \in Callers : Probing(c, s)

\* A call sleeps between attempts only over an error worth retrying and with
\* attempts left, however many other callers changed the circuit meanwhile;
\* it never runs more than retries + 1 attempts.
RetriesWithinBudget ==
  \A c \in Callers :
    /\ attempt[c] <= retries[c]
    /\ phase[c] = "backoff" => kind[c] = "call" /\ err[c] = "transient"

CoolDownStep(s) ==
  circuit[s].state = "open" /\ circuit[s].wait > 0 =>
    /\ \/ circuit'[s].state = "open" /\ circuit'[s].wait >= circuit[s].wait - 1
       \/ \E c \in Callers : server[c] = s /\ phase[c] = "running" /\ phase'[c] = "ok"
    /\ \A c \in Callers : Probing(c, s)' => Probing(c, s)

\* A circuit that is cooling down stays open until its time is over, unless
\* an operation that was already in flight succeeds (or a health check does):
\* no new call, retry or failure cuts the wait short, and no attempt of
\* executeWithResilience starts on it.
CoolDownRespected == [][\A s \in Servers : CoolDownStep(s)]_vars

\* Every call and every health check settles, whatever the other callers do
\* to the circuit while it runs, cleans up or sleeps.
CallsSettle ==
  \A c \in Callers : (phase[c] \in Busy) ~> (phase[c] \in Idle)
=============================================================================
