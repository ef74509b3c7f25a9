\* Two commands at once against a daemon that captures, blocks and dies.
SPECIFICATION FairSpec
CONSTANTS
  c1 = c1
  c2 = c2
  NoAnswer = NoAnswer
  Client <- MCClient
  Request <- MCRequest
  CommandsOf <- MCCommandsOf
  Capacity = 1
  MaxItems = 3
  MaxCrashes = 1
CHECK_DEADLOCK FALSE
INVARIANTS
  TypeOK
  ExitTellsTheTruth
  WipedUnseenIsRecent
PROPERTY CommandEnds
