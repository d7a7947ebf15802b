SPECIFICATION Spec
CONSTANTS
  MaxId = 3
  Configurations <- MCConfigurations
  Requested = {1, 2, 3, 9}
  InitialConfiguration = 1
  None = None
  MaxFaults = 1
  MaxIncarnation = 2
INVARIANT TypeOK
INVARIANT EdgesBidirectional
INVARIANT NeighboursExist
INVARIANT ChannelsAreNodes
INVARIANT SendersAreCurrent
INVARIANT LockUsable
INVARIANT OneTableEach
CHECK_DEADLOCK FALSE
