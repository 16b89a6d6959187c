SPECIFICATION FairSpec
CONSTANTS
  A = A
  B = B
  Client = {A, B}
  Natted = {}
  LocalIp <- MCLocalIp
  NatIp <- MCNatIp
  ServerAddr <- MCServerAddr
  HalfWord = 65536
  IdSpace = 3
  Ping = Ping
  Pong = Pong
  None = None
  FirstPort = 5000
  Budgets <- AgainBudgets
  MaxLoss = 0
PROPERTIES
  PingAnswered
CHECK_DEADLOCK FALSE
