SPECIFICATION Spec
CONSTANTS
  m1 = m1
  m2 = m2
  m3 = m3
  s1 = s1
  s2 = s2
  Message = {m1, m2, m3}
  Session = {s1, s2}
  SessionOf <- MCSessionOf
  DataLen <- MCDataLen
  FRAGMENT_DSIZE = 2
  MaxCopies = 2
  Empty = Empty
INVARIANT TypeOK
INVARIANT NoFullConstructorOpen
INVARIANT WholeWhenAlone
INVARIANT SharedHasNoHole
INVARIANT AckedIsKept
INVARIANT HandedAtMostArrived
INVARIANT HandedOnceAllArrived
CHECK_DEADLOCK FALSE
