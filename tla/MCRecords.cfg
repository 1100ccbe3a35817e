SPECIFICATION RecordsSpec
CONSTANTS
  \* ClientSync
  Activities = {a1}
  Sessions = {s1, s2}
  Topics = {t1}
  Messages = {m1}
  Before = {s1, s2}
  Batches = {r1, r2}
  Clients = {c1}
  Selections = {{"session"}}
  Limit = 1
  MaxItems = 2
  MaxClock = 5
  NoRow = NoRow
  NoValue = NoValue
  \* SandboxLifecycle
  Boxed = {d1, d2}
  Ops = {r1, r2}
  Remotes = {x1, x2}
  MaxPerUser = 1
  MaxRows = 2
  NoRemote = NoRemote
  \* KnowledgeTree
  Folders = {x1, x2}
  Documents = {}
  Datasets = {e1}
  TableRows = {l1}
  Planted = {x1, x2}
  Threads = {r1, r2}
  MaxText = 1
  Root = Root
  \* MessageIntake
  Deliveries = {r1, r2, w3}
  Notes = {n1, n2}
  Searchable = {n1}
  NoNote = NoNote
  NoDelivery = NoDelivery
SYMMETRY Interchangeable
INVARIANTS
  RecordsTypeOK
  QuietPullComplete
  NothingForgotten
  WithinLimit
  TreeShowsAll
  EmbeddingsFresh
  EventOnce
PROPERTIES
  TombstonesStay
\* Once every row, delivery and request there is in the bounds has been used up, a part
\* has no step left.
CHECK_DEADLOCK FALSE
