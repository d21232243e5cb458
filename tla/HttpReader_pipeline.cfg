\* Three pipelined requests, some of which are over one of the limits.
CONSTANTS
  MaxRequestSize = 4
  HeaderLimit = 5
  BodyLimit = 4
  Heads = {1, 2, 5, 6}
  Bodies = {0, 2, 4, 5}
  MaxRequests = 3
SPECIFICATION FairSpec
INVARIANTS TypeOK OwnBytes LengthLimited
PROPERTIES ClosedForCause RequestRead
CHECK_DEADLOCK FALSE
