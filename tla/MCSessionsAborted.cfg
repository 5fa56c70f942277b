CONSTANTS
  o1 = o1
  o2 = o2
  stdin = stdin
  a = a
  b = b
  Ops <- MCOps
  Closer = stdin
  Servers <- MCTwoServers
  MaxAttempts <- MCMaxAttempts
  Offered <- MCSomeOffered
  MaxSessions <- MCMaxSessions
  Overlap = FALSE
SPECIFICATION Spec
INVARIANTS
  NoOrphanBeforeDeadline
CHECK_DEADLOCK FALSE
