SPECIFICATION Spec
CONSTANTS
  A = A
  B = B
  Client = {A, B}
  Natted = {A}
  LocalIp <- MCLocalIp
  NatIp <- MCNatIp
  ServerAddr <- MCServerAddr
  HalfWord = 65536
  IdSpace = 3
  Ping = Ping
  Pong = Pong
  None = None
  FirstPort = 5000
  Budgets <- DirectBudgets
  MaxLoss = 1
INVARIANTS
  PeerIsHolder ConnectedByConsent
CHECK_DEADLOCK FALSE
