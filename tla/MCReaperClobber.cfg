SPECIFICATION Spec
CONSTANTS
  Exec = {e1}
  Worker = {w1}
  NoExec = NoExec
  MaxDeliveries = 1
  MaxClaims = 1
PROPERTIES
  ReaperSparesFinished
CHECK_DEADLOCK FALSE
