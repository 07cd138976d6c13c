SPECIFICATION FairSpec
CONSTANTS
  PipeDepth = 2
  FrameSize = 2
  Sizes <- MCSizes
  MaxPublished = 5
INVARIANTS
  TypeOK
  PermissionConserved
  BuffersComeBack
  LossesAccounted
  StatusOwed
PROPERTIES
  ImplementsLossyFifo
  PartialFramesLeave
  ReconnectsRestoreFlow
