\* Reloads, restarts, a tty that goes away and a user at the symlink's path.
SPECIFICATION FairSpec
CONSTANTS
  a = a
  b = b
  c = c
  link = link
  Name <- MCName
  Path <- MCPath
  Rules = {1, 2}
  Tty = {0}
  MaxPtys = 2
  Files <- MCFiles
  InitialFile <- OnTty
  Invalid = Invalid
  Conn <- MCConn
  MaxSpawns = 3
  MaxEdits = 2
  MaxHups = 2
  MaxStarts = 2
  MaxMeddles = 1
  None = None
  UserFile = UserFile
CHECK_DEADLOCK FALSE
INVARIANTS
  TypeOK
  AppliedIsServed
  NoLostReload
  KeptPortUntouched
  LinkServed
PROPERTIES
  UserFilesKept
  RemovedTtyDropped
