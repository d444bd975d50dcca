SPECIFICATION FairStreamSpec
CONSTANTS
  Exec = {e1}
  Worker = {w1, w2}
  NoExec = NoExec
  MaxDeliveries = 2
  MaxClaims = 0
INVARIANTS
  NoTerminalGap
PROPERTIES
  ViewerLearns
CHECK_DEADLOCK FALSE
