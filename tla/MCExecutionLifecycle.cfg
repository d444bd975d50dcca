SPECIFICATION FairSpec
CONSTANTS
  Exec = {e1}
  Worker = {w1, w2}
  NoExec = NoExec
  MaxDeliveries = 2
  MaxClaims = 1
INVARIANTS
  TypeOK
PROPERTIES
  VerdictStands
  RunningEnds
  QueuedReachesVerdict
CHECK_DEADLOCK FALSE
