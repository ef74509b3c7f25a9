\* Rings of two entries: eviction, clears and polls interleave.
SPECIFICATION Spec
CONSTANTS
  a = a
  b = b
  rule = rule
  NoLabel = NoLabel
  Byte <- MCByte
  Label <- MCLabel
  Chunks <- MCChunks
  Frames <- MCFrames
  MaxRaw = 2
  MaxEvents = 2
  MaxStream = 4
  MaxFrames = 4
INVARIANTS
  ClientsTypeOK
  IdsContiguous
  RawIsTailOfStream
  NoSilentLoss
PROPERTIES
  NoRedelivery
  ImplementsEventLog
