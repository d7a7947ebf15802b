SPECIFICATION Spec
CONSTANTS
  a = a
  b = b
  list = list
  write1 = write1
  write2 = write2
  get = get
  own = own
  x = x
  root_x = root_x
  ax = ax
  bx = bx
  px = px
  one = one
  two = two
  Peer = {a, b}
  Public = Public
  FileName = {x, root_x}
  Invalid = {}
  Absolute = {root_x}
  File = {ax, bx, px}
  Place <- MCPlace
  Parent <- MCParent
  Elsewhere = Elsewhere
  Nowhere = Nowhere
  Data = {one, two}
  None = None
  Client = {a, b}
  InitialClients = {a}
  Request = {list, write1, write2, get, own}
  From <- MCFrom
  Asks <- MCAsks
  Garbled = Garbled
  MaxExecutions = 2
  MaxReplies = 1
  MaxAdded = 1
  MaxServed = 4
  MaxForwarded = 3
INVARIANT SolePollerGetsAll
INVARIANT WriteSticks
INVARIANT PrivateIsPrivate
VIEW View
CHECK_DEADLOCK FALSE
