\* One message, stopped before the run takes its first step.
SPECIFICATION FairSpec
CONSTANTS
  MaxRun = 1
  Clients = {c1}
  BufferSize = 1
  QueueSize = 1
  MaxEvents = 0
PROPERTIES
  SubscribersAreReleased
CHECK_DEADLOCK FALSE
