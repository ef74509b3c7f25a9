\* A reload renames a port on a PTY: the old one is removed.
SPECIFICATION FairSpec
CONSTANTS
  a = a
  b = b
  c = c
  link = link
  Name <- MCName
  Path <- MCPath
  Rules = {1, 2}
  Tty = {0}
  MaxPtys = 2
  Files <- PtyFiles
  InitialFile <- OnPty
  Invalid = Invalid
  Conn <- MCConn
  MaxSpawns = 3
  MaxEdits = 1
  MaxHups = 1
  MaxStarts = 1
  MaxMeddles = 0
  None = None
  UserFile = UserFile
CHECK_DEADLOCK FALSE
PROPERTY RemovedPortStops
