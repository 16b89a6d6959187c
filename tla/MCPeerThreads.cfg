SPECIFICATION FairSpec
CONSTANTS
  Peer = {1, 2}
  MyId = 3
  LaterIds = {4}
  Port = {65500, 200}
  Blocked = {65500, 200}
  None = None
  Junk = Junk
  Budgets <- MCBudgets
INVARIANTS
  MessageDestined SpeaksAsRegistered
PROPERTIES
  RegistersAtLast
CHECK_DEADLOCK FALSE
