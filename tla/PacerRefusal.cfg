SPECIFICATION Spec
CONSTANTS
  Callers = {c1, c2, c3}
  None = None
  Gaps = {0, 2}
  ErrorDelay = 3
  Jitter = 1
  Threshold = 2
  Far = 4
PROPERTIES RefusalSlowsNext
