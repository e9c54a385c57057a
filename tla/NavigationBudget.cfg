SPECIFICATION FairSpec
CONSTANTS
  n1 = n1
  n2 = n2
  n3 = n3
  n4 = n4
  h1 = h1
  h2 = h2
  Navs = {n1, n2, n3, n4}
  Hosts = {h1, h2}
  HostOf <- Busy
  MaxConcurrent = 2
  PerHost = 2
  BreakerThreshold = 2
  BreakerCooldown = 1
  MaxTime = 2
INVARIANTS
  PermitsBalanced
PROPERTIES
  OpenBreakerKept
  ImplementsAdmission
  WaitersAnswered
