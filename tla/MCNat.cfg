SPECIFICATION Spec
CONSTANTS
  o1 = o1
  o2 = o2
  Insiders <- MCInsiders
  Outsiders <- MCOutsiders
  BasePorts <- MCBasePorts
  Ranges <- MCRanges
  MaxCounter = 3
  MaxSessions = 3
  MaxResets = 1
INVARIANTS
  SameBaseUnique OneMappingPerClient OwnAddress NoMisdelivery ReplyPath CrashOnlyInRace
SYMMETRY OutsiderSymmetry
CHECK_DEADLOCK FALSE
