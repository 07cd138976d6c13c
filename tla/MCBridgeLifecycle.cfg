CONSTANT NumApids = 5
SPECIFICATION FairSpec
INVARIANTS
  TypeOK
  ResourcesOutliveTasks
  JoinsEnd
  InitAllOrNothing
  NothingLeftBehind
  ExitStatusHonest
PROPERTIES
  ShutdownCompletes
  KeepsContract
CHECK_DEADLOCK FALSE
