SPECIFICATION FairSpec
CONSTANTS
  Graphs <- MCGraphs
  Budget = 7
  MaxDepth = 2
  MaxRounds = 2
INVARIANTS
  TypeOK
  RunsOnce
  WithinBudget
  CompletedIsClean
  CompletedIsWhole
  RoundsInTurn
  CleanSubAnswers
PROPERTIES
  RunEnds
  ImplementsGraphRun
CHECK_DEADLOCK FALSE
