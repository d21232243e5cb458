\* Two threads that log twice, a queue of one message, up to two workers, every kind of options.
CONSTANTS
  t1 = t1
  t2 = t2
  Threads = {t1, t2}
  MsgLevels = {4}
  SetLevels = {0, 6}
  MaxLogs = 2
  MaxQueue = 1
  MaxWorkers = 2
SPECIFICATION FairSpec
INVARIANTS TypeOK Patterned Conserved
PROPERTIES ReplacedOnce LogReturns Delivered
