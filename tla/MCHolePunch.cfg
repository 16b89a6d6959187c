SPECIFICATION FairSpec
CONSTANTS
  A = A
  B = B
  Client = {A, B}
  Natted = {A, B}
  LocalIp <- MCLocalIp
  NatIp <- MCNatIp
  ServerAddr <- MCServerAddr
  HalfWord = 65536
  IdSpace = 3
  Ping = Ping
  Pong = Pong
  None = None
  FirstPort = 5000
  Budgets <- PunchBudgets
  MaxLoss = 0
INVARIANTS
  HolePunched
PROPERTIES
  PongCompletes
CHECK_DEADLOCK FALSE
