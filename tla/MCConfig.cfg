\* Sound and flawed files edited, loaded at startup and by reloads.
SPECIFICATION Spec
CONSTANTS
  Null = Null
  Error = Error
  Files <- MCFiles
  Frame <- MCFrame
  DEFAULT_MAX_BUFFER = 4
  Newline = 10
INVARIANTS
  AcceptedRuns
  RulesAsDeclared
  VerdictAsDocumented
