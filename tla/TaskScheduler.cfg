\* Three requests and two executions, two starts of the process; a recurring, a one-shot
\* and an invalid schedule; a task with a limit of one or two runs or none.
SPECIFICATION Spec
CONSTANTS
  Calls = {q1, q2, q3}
  Dispatches = {d1, d2}
  Schedules = {daily, once, bad}
  OneShots = {once}
  BadSchedules = {bad}
  Limits = {1, 2, NoLimit}
  MaxStarts = 2
  NoJob = NoJob
  NoSchedule = NoSchedule
  NoLimit = NoLimit
  Expired = Expired
SYMMETRY Interchangeable
INVARIANTS
  CountIsExact
  StartAgrees
  StoppedIsStopped
CHECK_DEADLOCK FALSE
