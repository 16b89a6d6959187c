SPECIFICATION Spec
CONSTANTS
  ByteSpace = 3
  TimeSpace = 8
  DefaultTime = 2
  m1 = m1
  m2 = m2
  Mac = {m1, m2}
  Kept = Kept
  Times = {0, 1}
  Steps = {1, 2}
  Pools <- MCPools
  MaxAdds = 2
  MaxClock = 2
  MaxFlaws = 0
SYMMETRY Clients
INVARIANTS
  TypeOK ExactlyOnce RunsItsTime
PROPERTY KeepsPromise
CHECK_DEADLOCK FALSE
