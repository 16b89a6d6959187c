SPECIFICATION MCSpec
CONSTANTS
  n1 = n1
  n2 = n2
  ServerAddr = ServerAddr
  None = None
  Ping = Ping
  Pong = Pong
  S = S
  N1 = N1
  N2 = N2
  C1 = C1
  C2 = C2
  C3 = C3
  C4 = C4
  LocalAddr <- MCLocalAddr
  SourceAddr <- MCSourceAddr
  IdSpace = 4
  HalfWord = 65536
  MaxClients = 4
  Machine <- MCMachine
  Rule <- MCRule
  Iface <- MCIface
  Link <- MCLink
  Destination <- MCDestination
  ClientPort = 5000
  BasePort = 2000
  MaxSends = 2
CHECK_DEADLOCK FALSE
INVARIANTS
  NeverAssignsDrop IdsUnique FirstOwnerAnswered HeadersValid
PROPERTIES
  RequestAnswered Ends
