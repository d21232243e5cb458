\* Two connections over one IO thread, two pipelined requests on one and a single
\* request on the other, one send per request.
CONSTANTS
  s1 = s1
  s2 = s2
  Sessions = {s1, s2}
  ThreadNum = 1
  ReadTimeOut = 1
  WriteTimeOut = 1
  MaxRequests <- Requests
  MaxSends = 1
  CntMax = 7
SPECIFICATION FairSpec
INVARIANTS
  TypeOK
  OneOperation
  ResponsesInOrder
  SafeToSend
  ClosedIsQuiet
  Chain
  StatisticsAddUp
PROPERTIES
  KeepsPromise
  SessionsReaped
CHECK_DEADLOCK FALSE
