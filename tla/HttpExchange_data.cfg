\* Three requests of every shape on one connection, answered in every way.
CONSTANTS
  AutoGzip = TRUE
  MaxRequests = 3
SPECIFICATION Spec
INVARIANTS
  TypeOK
  OwnBody
  NothingLeft
  ResponseFaithful
PROPERTY KeepAliveAgreed
CHECK_DEADLOCK FALSE
