SPECIFICATION Spec
CONSTANTS
  e1 = e1
  e2 = e2
  n1 = n1
  t1 = t1
  t2 = t2
  r1 = r1
  r2 = r2
  Exec = {e1, e2}
  Node = {n1}
  Tuple = {t1, t2}
  Receiver = {r1, r2}
  node <- OneNode
  Alias <- OneAlias
  MaxScans = 2
  NoExec = NoExec
  NoTuple = NoTuple
  NoEntry = NoEntry
CHECK_DEADLOCK FALSE
PROPERTIES SettledIsOver
INVARIANTS TypeOK SlotIndexed FiresOnce
SYMMETRY Symmetry
