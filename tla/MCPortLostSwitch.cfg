\* A switch that stores its scenario in the middle of a reload.
SPECIFICATION HSpec
CONSTANTS
  c1 = c1
  c2 = c2
  Reader = Reader
  Reloader = Reloader
  None = None
  Conn <- OneConn
  Byte <- MCByte
  Config <- ReloadConfigs
  InitialConfig <- NewlinePort
  Requests <- ReloadRequests
  RuleMatches <- MCMatches
  DEFAULT_MAX_BUFFER = 2
  MaxRaw = 2
  MaxEvents = 2
  WireCap = 1
  MaxSent = 0
  MaxReloads = 1
  CanHangup = FALSE
CHECK_DEADLOCK FALSE
INVARIANT SwitchSurvivesReload
