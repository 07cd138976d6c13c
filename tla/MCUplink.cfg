SPECIFICATION FairSpec
CONSTANTS
  QueueSize = 2
  NumBuffers = 5
  Policies <- MCPolicies
  MaxFrames = 5
INVARIANTS
  TypeOK
  BuffersConserved
  AllocationsSucceed
  FramesAccounted
PROPERTIES
  ImplementsLossyFifo
  AcceptedIsDispatched
  ShutdownCompletes
CHECK_DEADLOCK FALSE
