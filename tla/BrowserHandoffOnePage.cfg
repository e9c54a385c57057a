SPECIFICATION Spec
CONSTANTS
  Callers = {c1, c2}
  Keys = {k1}
  Leases = {l1, l2, l3, l4}
  None = None
  MaxLeases = 2
  Lifetime = 2
  Idle = 1
  Stealth = TRUE
  CallersCancel = FALSE
SYMMETRY Symmetry
INVARIANTS OnePagePerOperation
CHECK_DEADLOCK FALSE
