SPECIFICATION ServicesSpec
CONSTANTS
  \* BackgroundIndex
  Mails = {n1, n2}
  Textless = {}
  Short = {n2}
  Jobs = {j1, j2}
  Workers = 1
  Every = 2
  PageSize = 1
  NoKind = NoKind
  Before = {n1}
  SyncEmbedding = FALSE
  \* SandboxTerminal
  Terminals = {c1, c2}
  Shells = {p1, p2}
  NoShell = NoShell
INVARIANTS
  CompletedIsIndexed
  NoShellLost
PROPERTIES
  VectorsStay
  TasksEnd
  TerminalSettles
\* Once every job, message and sandbox there is in the bounds has been used up, a part
\* has no step left.
CHECK_DEADLOCK FALSE
