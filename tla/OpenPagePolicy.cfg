SPECIFICATION Spec
CONSTANTS
  c1 = c1
  c2 = c2
  h1 = h1
  Callers = {c1, c2}
  None = None
  ReadyWait = 1
  FailureTTL = 2
  Hosts = {h1}
  HostOf <- OneHost
  MaxConcurrent = 2
  PerHost = 2
PROPERTIES YieldedInPolicy
