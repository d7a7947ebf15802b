SPECIFICATION Spec
CONSTANTS
  h1 = h1
  h2 = h2
  p1 = p1
  f1 = f1
  f2 = f2
  a1 = a1
  Hop = {h1}
  Peer = {p1}
  Fragment = {f1, f2}
  Incoming = {a1}
  DestOf <- MCDestOf
  PACKET_RESEND_MAX_RETRIES = 2
  MaxTriggers = 1
  Command <- MCSendTwoRemove
  InitialNeighbors = {h1}
  HostHops = {}
  Reach <- MCReachOne
  AnswerTo <- MCNoAnswer
  MaxNacks = 0
  MaxForeign = 0
  MaxAcks = 1
INVARIANT TypeOK
INVARIANT FragmentConserved
INVARIANT AckConserved
INVARIANT RoutesUseNeighbours
PROPERTY DeliverySpec
CHECK_DEADLOCK FALSE
