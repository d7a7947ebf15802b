SPECIFICATION Spec
CONSTANTS
  Request = q
  Session = s
  RequestLength = 1
  ResponseLengths = {2, 3}
  FRAGMENT_DSIZE = 1
  ClientRetries = 2
  ServerRetries = 1
  Empty = Empty
INVARIANT AnsweredIfAlike
PROPERTY ChannelSpec
CHECK_DEADLOCK FALSE
