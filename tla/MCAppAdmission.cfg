SPECIFICATION Spec
CONSTANTS
  m1 = m1
  m2 = m2
  m3 = m3
  Msg = {m1, m2, m3}
  MaxInflight = 2
SYMMETRY MCSymmetry
CHECK_DEADLOCK FALSE
INVARIANTS TypeOK ExactCount NoOvercount CapKept
PROPERTIES ImplementsSemaphore
