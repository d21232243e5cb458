\* stop() overlaps with the beginning of run().
CONSTANTS
  c1 = c1
  c2 = c2
  s1 = s1
  s2 = s2
  ThreadNum = 1
  Stoppers = {c1}
  Sessions = {s1}
  EarlyStop = TRUE
  HandlerStop = FALSE
  MaxRuns = 1
  CntMax = 7
SPECIFICATION FairSpec
PROPERTY StopEndsRun
CHECK_DEADLOCK FALSE
