\* A thread and the handlers call stop().
CONSTANTS
  c1 = c1
  c2 = c2
  s1 = s1
  s2 = s2
  ThreadNum = 2
  Stoppers = {c1}
  Sessions = {s1}
  EarlyStop = FALSE
  HandlerStop = TRUE
  MaxRuns = 1
  CntMax = 7
SPECIFICATION Spec
INVARIANT StopSafe
CHECK_DEADLOCK FALSE
