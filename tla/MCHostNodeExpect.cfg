SPECIFICATION Spec
CONSTANTS
  h1 = h1
  h2 = h2
  p1 = p1
  f1 = f1
  f2 = f2
  a1 = a1
  Hop = {h1}
  Peer = {p1}
  Fragment = {f1}
  Incoming = {a1}
  DestOf <- MCDestOf
  PACKET_RESEND_MAX_RETRIES = 2
  MaxTriggers = 1
  Command <- MCSend
  InitialNeighbors = {h1}
  HostHops = {h1}
  Reach <- MCReachOne
  AnswerTo <- MCNoAnswer
  MaxNacks = 0
  MaxForeign = 0
  MaxAcks = 1
INVARIANT SenderNeverPanics
CHECK_DEADLOCK FALSE
