\* What must happen, on a port that starts with idle-timeout framing: with a
\* client that reads or one that never does, with a reload, and with a
\* device that may go away.
SPECIFICATION FairSpec
CONSTANTS
  c1 = c1
  c2 = c2
  Reader = Reader
  Reloader = Reloader
  None = None
  Conn <- OneConn
  Byte <- MCByte
  Config <- QuietReload
  InitialConfig <- QuietPort
  Requests <- LiveRequests
  RuleMatches <- MCMatches
  DEFAULT_MAX_BUFFER = 2
  MaxRaw = 1
  MaxEvents = 1
  WireCap = 1
  MaxSent = 2
  MaxReloads = 1
  CanHangup = TRUE
CHECK_DEADLOCK FALSE
PROPERTIES
  CaptureNeverBlocked
  LineServed
  IdleBytesFlushed
