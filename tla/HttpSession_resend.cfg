\* One connection whose handler calls send() a second time.
CONSTANTS
  s1 = s1
  s2 = s2
  Sessions = {s1}
  ThreadNum = 1
  ReadTimeOut = 1
  WriteTimeOut = 1
  MaxRequests <- Single
  MaxSends = 2
  CntMax = 7
SPECIFICATION Spec
INVARIANT OneOperation
CHECK_DEADLOCK FALSE
