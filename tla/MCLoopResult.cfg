SPECIFICATION Spec
CONSTANTS
  Graphs <- CrewOnly
  Budget = 8
  MaxDepth = 2
  MaxRounds = 2
INVARIANTS
  SubResultIsOwn
CHECK_DEADLOCK FALSE
