CONSTANTS
  CounterMod = 2
  PipeDepth = 2
  TblElement1Max = 10
  Int1Values <- MCInt1Values
  EdsEnabled = TRUE
  NoImage = NoImage
  MaxCommands = 3
SPECIFICATION FairSpec
PROPERTIES
  HousekeepingTruthful
  UpdatesLand
  ExitReached
CHECK_DEADLOCK FALSE
