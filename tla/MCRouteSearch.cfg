SPECIFICATION Spec
CONSTANTS
  c = c
  s = s
  d1 = d1
  d2 = d2
  Drone = {d1, d2}
  Host = {c, s}
  Self = c
  InitialLinks <- MCSquare
  Link <- MCSquareLink
  MaxFloods = 2
  MaxChanges = 1
INVARIANT TypeOK
INVARIANT TopologyIsRecent
INVARIANT CompleteWhenSettled
INVARIANT RoutesAreShortest
CHECK_DEADLOCK FALSE
