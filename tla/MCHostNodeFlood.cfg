SPECIFICATION FairSpec
CONSTANTS
  h1 = h1
  h2 = h2
  p1 = p1
  f1 = f1
  f2 = f2
  a1 = a1
  Hop = {h1, h2}
  Peer = {p1}
  Fragment = {f1}
  Incoming = {}
  DestOf <- MCDestOf
  PACKET_RESEND_MAX_RETRIES = 1
  MaxTriggers = 1
  Command <- MCAddQuit
  InitialNeighbors = {h1}
  HostHops = {h1}
  Reach <- MCReachOne
  AnswerTo <- MCNoAnswer
  MaxNacks = 0
  MaxForeign = 1
  MaxAcks = 1
PROPERTY DiscoveryFloods
PROPERTY FloodAnswered
PROPERTY PanicEndsHost
CHECK_DEADLOCK FALSE
