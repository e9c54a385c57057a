SPECIFICATION Spec
CONSTANTS
  Calls = {c1, c2}
  Keys = {k1}
  None = None
  Sources = {"avito"}
  MinGap = 1
  ErrorDelay = 2
  TTL = 2
  Retries = 1
INVARIANT AnswersCurrent
