\* Two connections that trigger, switch, describe and clear, against the
\* reader and a reload to other rules and another framing; the device may go
\* away.
SPECIFICATION SafetySpec
CONSTANTS
  c1 = c1
  c2 = c2
  Reader = Reader
  Reloader = Reloader
  None = None
  Conn <- TwoConns
  Byte <- MCByte
  Config <- SafetyConfigs
  InitialConfig <- StrippedPort
  Requests <- SafetyRequests
  RuleMatches <- MCMatches
  DEFAULT_MAX_BUFFER = 1
  MaxRaw = 1
  MaxEvents = 1
  WireCap = 1
  MaxSent = 2
  MaxReloads = 1
  CanHangup = TRUE
CHECK_DEADLOCK FALSE
SYMMETRY ConnSymmetry
INVARIANTS
  TypeOK
  WriterHeld
  ResponsesSerialize
  AnswersMatchEvents
  EveryByteAccounted
  CoherentUnlessOverlapped
  StaleFramingAtMostOnce
  StaleScenarioAtMostOnce
  DescribeConsistent
PROPERTY ImplementsFramer
