\* Maxima of 0, which a configuration may ask for.
SPECIFICATION Spec
CONSTANTS
  a = a
  b = b
  rule = rule
  NoLabel = NoLabel
  Byte <- MCByte
  Label <- MCLabel
  Chunks <- MCChunks
  Frames <- MCFrames
  MaxRaw = 0
  MaxEvents = 0
  MaxStream = 4
  MaxFrames = 4
INVARIANT BoundedCapture
