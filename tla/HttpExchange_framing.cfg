\* One request, answered with an empty body.
CONSTANTS
  AutoGzip = TRUE
  MaxRequests = 1
SPECIFICATION Spec
INVARIANT Delimited
CHECK_DEADLOCK FALSE
