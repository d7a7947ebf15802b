SPECIFICATION Spec
CONSTANTS
  p1 = p1
  p2 = p2
  c1 = c1
  c2 = c2
  w1 = w1
  t1 = t1
  ChatId = {c1, c2}
  Peer = {p1, p2}
  Password = {w1}
  Text = {t1}
  None = None
  Truncated = Truncated
  MaxRuns = 2
  MaxMessages = 1
  Overlap = FALSE
  MaxFaults = 2
INVARIANT TypeOK
INVARIANT RegisteredOnce
INVARIANT DeletedStaysDeleted
INVARIANT HistoryKept
PROPERTY StoreSpec
SYMMETRY MCSymmetry
CHECK_DEADLOCK FALSE
