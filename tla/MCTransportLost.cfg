SPECIFICATION Spec
CONSTANTS
  Request = q
  Session = s
  RequestLength = 1
  ResponseLengths = {2, 3}
  FRAGMENT_DSIZE = 1
  ClientRetries = 2
  ServerRetries = 2
  Empty = Empty
INVARIANT AnsweredIfAcked
CHECK_DEADLOCK FALSE
