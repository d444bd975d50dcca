SPECIFICATION FairSpec
CONSTANTS
  Run = {r1, r2, r3}
  NoRun = NoRun
  TTL = 2
  PollInterval = 2
  MaxWait = 0
  DefaultWait = 4
INVARIANTS
  TypeOK
  MutualExclusion
PROPERTIES
  OnlyReplaceSteals
  OnlyHolderFrees
  OrphanFreed
CHECK_DEADLOCK FALSE
