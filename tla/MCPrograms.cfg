SPECIFICATION MCSpec
CONSTANTS
  A = A
  B = B
  Program = {A, B}
  ListenPort <- MCListenPort
  PortSpace = 65536
  LowestPort = 10000
  MaxSize = 3
  Letter = {"a", "b", "c"}
  Texts <- MCTexts
  MaxConns = 2
  MaxSends = 3
  Zero = Zero
  NoSocket = NoSocket
  u = u
  longUser = longUser
  p = p
  shortMap = shortMap
  longMap = longMap
  shortNode = shortNode
  longNode = longNode
  i1 = i1
  i2 = i2
  Junk = Junk
  NaN = NaN
  hi = hi
  you = you
  Dot = Dot
  Refused = Refused
  IntMax = 999999
  Name <- MCName
  Length <- MCLength
  Empty = Empty
  User = {u}
  Password = {p}
  MapName = {shortMap}
  NodeName = {shortNode}
  BufferSize = 1524
  Unset = Unset
  Null = Null
  IpTexts <- MCIpTexts
  PortTexts <- MCPortTexts
  Typed <- MCTyped
  AnyPort = {80}
  Counts = {0, 2}
  Addresses = {i1, i2}
  Info = {"Client", "Other"}
  Sizes = {0, 80, 1524, 1525}
  Roles = {"Client", "Server"}
  MaxBreaks = 1
INVARIANTS
  ArgumentsTaken LinesTaken WellFormed SameInstance InterfacesValid PrintsWhatCame
CHECK_DEADLOCK FALSE
