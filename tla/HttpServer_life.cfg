\* Two threads, one of them the caller of run(), and a restart; stop() is called while the server runs, in handlers too.
CONSTANTS
  c1 = c1
  c2 = c2
  s1 = s1
  s2 = s2
  ThreadNum = 2
  Stoppers = {c1}
  Sessions = {s1, s2}
  EarlyStop = FALSE
  HandlerStop = TRUE
  MaxRuns = 2
  CntMax = 3
SPECIFICATION FairSpec
INVARIANTS
  TypeOK
  KeepsAccepting
  PoolJoined
  HandlersDone
  ImplOutlivesSessions
  SessionCount
PROPERTY StopEndsRun
CHECK_DEADLOCK FALSE
