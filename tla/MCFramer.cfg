\* Every strategy, and one change from each to each.
SPECIFICATION Spec
CONSTANTS
  DEFAULT_MAX_BUFFER = 3
  Byte <- MCByte
  Configs <- AllConfigs
  MaxChunk = 3
  MaxStream = 5
  MaxReloads = 1
INVARIANTS
  TypeOK
  BytesConserved
  CutFramesAreWhole
  OverflowIsUnframed
  ChunkingInvisible
PROPERTY PushSettles
CHECK_DEADLOCK FALSE
