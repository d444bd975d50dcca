SPECIFICATION Spec
CONSTANTS
  c1 = c1
  Check = {c1}
  Period = 5
  KeyMinutes = 2
  MaxNow = 6
CHECK_DEADLOCK FALSE
INVARIANT OncePerWindow
