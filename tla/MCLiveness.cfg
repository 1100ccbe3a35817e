SPECIFICATION LivenessSpec
CONSTANTS
  \* StreamSession: two runs with a buffer and queues that hold a whole run
  MaxRun = 2
  Clients = {c1}
  BufferSize = 4
  QueueSize = 4
  MaxEvents = 2
  \* IMConnection: three bridges contend for the lock and one key; one call, no help from
  \* its timer
  Users = {u1}
  Sources = {s1}
  Sockets = {w1, w2, w3}
  Requests = {r1}
  NoSocket = NoSocket
  NoKey = NoKey
  NoUser = NoUser
  NoSource = NoSource
PROPERTIES
  IsFeed
  EndedRunsRelease
  DeadSocketCallsEnd
\* Once every connection, call and run there is in the bounds has been used up, a part has no
\* step left.
CHECK_DEADLOCK FALSE
