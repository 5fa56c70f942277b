CONSTANTS
  o1 = o1
  o2 = o2
  stdin = stdin
  a = a
  b = b
  Ops <- MCOps
  Closer = stdin
  Servers <- MCOneServer
  MaxAttempts <- MCMaxAttempts
  Offered <- MCSomeOffered
  MaxSessions <- MCMaxSessions
  Overlap = TRUE
SPECIFICATION Spec
INVARIANTS
  NoOrphanAtExit
CHECK_DEADLOCK FALSE
