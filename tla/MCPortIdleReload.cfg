\* A reload to idle-timeout framing while the reader waits in read().
SPECIFICATION FairSpec
CONSTANTS
  c1 = c1
  c2 = c2
  Reader = Reader
  Reloader = Reloader
  None = None
  Conn <- OneConn
  Byte <- MCByte
  Config <- QuietReload
  InitialConfig <- NewlinePort
  Requests <- NoRequests
  RuleMatches <- MCMatches
  DEFAULT_MAX_BUFFER = 2
  MaxRaw = 2
  MaxEvents = 2
  WireCap = 1
  MaxSent = 2
  MaxReloads = 1
  CanHangup = FALSE
CHECK_DEADLOCK FALSE
PROPERTY IdleBytesFlushed
