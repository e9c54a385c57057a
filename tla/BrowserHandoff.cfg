SPECIFICATION FairSpec
CONSTANTS
  Callers = {c1, c2}
  Keys = {k1, k2}
  Leases = {l1, l2}
  None = None
  MaxLeases = 1
  Lifetime = 2
  Idle = 1
  Stealth = TRUE
  CallersCancel = TRUE
CHECK_DEADLOCK FALSE
INVARIANTS RequestsAccounted RegistrySound
PROPERTIES CallsReturn PagesClose
