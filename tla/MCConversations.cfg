SPECIFICATION ConversationsSpec
CONSTANTS
  \* IMConnection: two bridges of one user, two sources, two calls
  Users = {u1}
  Sources = {s1, s2}
  Sockets = {w1, w2}
  Requests = {r1, r2}
  NoSocket = NoSocket
  NoKey = NoKey
  NoUser = NoUser
  NoSource = NoSource
  \* ChatStream
  Runs = {r1, r2}
  Tools = {o1}
  Tasks = {k1}
  MaxChunks = 2
  MaxEvents = 4
  NoRun = NoRun
  NoOp = NoOp
  \* SessionTransfer
  Files = {f1}
  FirstSessions = 2
  FirstTopics <- AtFirstTopics
  FirstMessages <- AtFirstMessages
  FirstSenders <- AtFirstSenders
  MaxSessions = 4
  MaxChanges = 4
  NoExternal = NoExternal
  \* WorkspaceFiles
  Calls = {r1, r2}
  Names = {"a", "b", "skills"}
  MaxDepth = 2
  MemoryFile = "AGENTS.md"
  Skills = "skills"
  FirstFiles <- AtFirstFiles
  Mounts <- AtMounts
  NoFile = NoFile
  Mount = Mount
  \* RankFusion, MessageSearch, KnowledgeSearch
  FuzzyWeight = 4
  VectorWeight = 6
  MaxHits = 2
  TopicIds = {1}
  Times = {1, 2, 3}
  FirstInbox <- AtFirstInbox
  ContextWindow = 1
  MessageTopK = 2
  MaxEdits = 2
  Above <- AtShelf
  Kind <- AtKinds
  DatasetOf <- AtRows
  KnowledgeTopK = 2
  MaxParts = 2
  MaxLosses = 2
  NoNode = NoNode
  NoRow = NoRow
  \* Chunking
  Alphabet = {"a", "."}
  ChunkSize = 2
  ParentSize = 3
  Overlaps = {0, 1, 2, 6}
  SeparatorLists <- AtSeparators
  MaxText = 5
SYMMETRY Interchangeable
INVARIANTS
  ConversationsTypeOK
  CallTablesConsistent
  PendingHasHandler
  RegistrationHasHandler
  ShownIsKept
  OperationsClose
  CopiesAreWhole
  MoveLosesNothing
  HitsWellFused
  ContextIsWhole
  NothingDeletedIsFound
  ChunksKeepText
PROPERTIES
  FutureSettledOnce
\* Once every connection, call, run and request there is in the bounds has been used up, a
\* part has no step left.
CHECK_DEADLOCK FALSE
