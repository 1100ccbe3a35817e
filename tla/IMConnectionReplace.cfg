\* One bridge reconnects while the handler of its old connection still runs.
SPECIFICATION Spec
CONSTANTS
  Users = {u1}
  Sources = {s1}
  Sockets = {w1, w2}
  Requests = {r1}
  NoSocket = NoSocket
  NoKey = NoKey
  NoUser = NoUser
  NoSource = NoSource
INVARIANTS
  ReplacementStaysRegistered
CHECK_DEADLOCK FALSE
