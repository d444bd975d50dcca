SPECIFICATION Spec
CONSTANTS
  c1 = c1
  c2 = c2
  tokens = tokens
  cost = cost
  Calls = {c1, c2}
  Batches <- MCBatches
  Measures = {tokens, cost}
  Limit <- MCLimit
  CallMax <- MCCallMax
  Usages <- MCUsages
  MaxAttempts = 2
  SystemMax = 3
  IterationChoices = {0, 2, 4}
  MinChoices = {2}
CHECK_DEADLOCK FALSE
INVARIANTS TypeOK SpendBounded CallsBounded NoRepeat AlwaysContent
PROPERTIES AgentEnds
