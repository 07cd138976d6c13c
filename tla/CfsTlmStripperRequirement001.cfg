CONSTANTS
  b1 = b1
  b2 = b2
  Buffers <- MCBuffers
  Packets <- MCPackets
  ComStatusConnected = TRUE
SPECIFICATION Spec
INVARIANTS
  NoSecHdrDownstream
