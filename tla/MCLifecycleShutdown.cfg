\* A running service is told to terminate.
SPECIFICATION Spec
CONSTANTS
  a = a
  b = b
  c = c
  link = link
  Name <- MCName
  Path <- MCPath
  Rules = {1, 2}
  Tty = {0}
  MaxPtys = 2
  Files <- PtyFiles
  InitialFile <- OnPty
  Invalid = Invalid
  Conn <- MCConn
  MaxSpawns = 3
  MaxEdits = 0
  MaxHups = 0
  MaxStarts = 1
  MaxMeddles = 0
  None = None
  UserFile = UserFile
CHECK_DEADLOCK FALSE
INVARIANT ShutdownUnlinks
