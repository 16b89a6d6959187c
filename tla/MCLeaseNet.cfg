SPECIFICATION NetSpec
CONSTANTS
  ByteSpace = 2
  TimeSpace = 8
  DefaultTime = 2
  a = a
  b = b
  s1 = s1
  s2 = s2
  Mac = {a, b}
  Server = {s1, s2}
  Kept = Kept
  Setups <- MCSetups
  UserTimes = {1}
  AdminSteps = {1, 2}
INVARIANTS
  NoSquatting NoConflict GrantedIsUsed OffersTakenBack
CHECK_DEADLOCK FALSE
