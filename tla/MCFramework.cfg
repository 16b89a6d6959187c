SPECIFICATION FairSpec
CONSTANTS
  MaxFrames = 1
  MaxBreaks = 2
INVARIANTS
  InitializedFirst
PROPERTIES
  Implements StartupEnds SendersServed
CHECK_DEADLOCK FALSE
