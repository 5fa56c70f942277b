CONSTANTS
  c1 = c1
  c2 = c2
  c3 = c3
  srv = srv
  Callers <- MCCallers
  Servers <- MCServers
  RetryBudgets <- MCRetryBudgets
  Threshold = 2
  OpenMs = 2
  InitialBackoff = 1
  MaxBackoff = 2
  BackoffFactor = 3
  MaxFailures = 3
SPECIFICATION Spec
INVARIANTS
  TypeOK
  CircuitConsistent
  HalfOpenHasProbe
  RetriesWithinBudget
PROPERTIES
  BreakerSpec
  CoolDownRespected
  CallsSettle
CHECK_DEADLOCK FALSE
