SPECIFICATION Spec
CONSTANTS
  p1 = p1
  c1 = c1
  w1 = w1
  t1 = t1
  ChatId = {c1}
  Peer = {p1}
  Password = {w1}
  Text = {t1}
  None = None
  Truncated = Truncated
  MaxRuns = 2
  MaxMessages = 1
  Overlap = TRUE
  MaxFaults = 0
INVARIANT HistoryKept
CHECK_DEADLOCK FALSE
