\* Requests one after the other and a restart, with two valid recurring schedules.
SPECIFICATION Spec
CONSTANTS
  Calls = {q1, q2, q3}
  Dispatches = {d1}
  Schedules = {daily, weekly}
  OneShots = {}
  BadSchedules = {}
  Limits = {NoLimit}
  MaxStarts = 2
  NoJob = NoJob
  NoSchedule = NoSchedule
  NoLimit = NoLimit
  Expired = Expired
INVARIANTS
  ActiveTaskIsScheduled
CHECK_DEADLOCK FALSE
