CONSTANTS
  CounterMod = 3
  PipeDepth = 2
  TblElement1Max = 10
  Int1Values <- MCInt1Values
  EdsEnabled = FALSE
  NoImage = NoImage
  MaxCommands = 4
SPECIFICATION Spec
INVARIANTS
  InitializedMeansReady
CHECK_DEADLOCK FALSE
