SPECIFICATION StreamSpec
CONSTANTS
  \* StreamSession: two runs of up to three events, a buffer of two and queues of one: two
  \* subscribers lose events to both, and come back to a run that has replaced their own.
  MaxRun = 2
  Clients = {c1, c2}
  BufferSize = 2
  QueueSize = 1
  MaxEvents = 1
  \* AgentCache
  Agents = {x1, x2}
  Managers = {r1, r2}
  Chats = {g1}
  NoAgent = NoAgent
  NoService = NoService
SYMMETRY Interchangeable
INVARIANTS
  InOrderOnce
  NothingMissedSilently
  EndedStreamIsWhole
  LiveRunIsStoppable
  CacheFresh
\* Once every run and agent there is in the bounds has been used up, a part has no step left.
CHECK_DEADLOCK FALSE
