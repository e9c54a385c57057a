SPECIFICATION FairSpec
CONSTANTS
  Calls = {c1, c2, c3}
  Budgeted = {c3}
  None = None
  MinGap = 2
  Retries = 2
  Backoff = 1
  Budget = 3
INVARIANTS AnswerIsReal
PROPERTIES GapKept DeadlineKept CallsReturn
