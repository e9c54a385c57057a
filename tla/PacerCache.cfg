SPECIFICATION GuardSpec
CONSTANTS
  Callers = {c1, c2, c3}
  None = None
  Gaps = {0, 2}
  ErrorDelay = 3
  Jitter = 1
  Threshold = 2
  Far = 4
  Keys = {k1, k2, k3}
  Pages = {page, wall}
  Content = {page}
  TTL = 2
  MaxEntries = 2
PROPERTIES GapKept SingleFlight CacheKept CallsAnswered
