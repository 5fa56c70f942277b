CONSTANTS
  c1 = c1
  c2 = c2
  c3 = c3
  c4 = c4
  NoCall = NoCall
  Calls <- MCCalls
  Timed <- MCTimed
  Kinds <- MCKinds
SPECIFICATION Spec
INVARIANTS
  TypeOK
  OwnAnswer
  PendingMatches
  ExitSettlesAll
PROPERTIES
  RequestsSpec
  TimedSettle
CHECK_DEADLOCK FALSE
