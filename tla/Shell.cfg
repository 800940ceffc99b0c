SPECIFICATION FairSpec
CONSTANTS
  c1 = c1
  c2 = c2
  c3 = c3
  c4 = c4
  Children <- FourChildren
  Shell = Shell
CHECK_DEADLOCK FALSE
INVARIANTS
  TypeOK
  ForegroundAwaited
  OneUserEach
PROPERTIES
  NoZombieStays
  PromptReturns
