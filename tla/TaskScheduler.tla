---------------------------- MODULE TaskScheduler ----------------------------
(***************************************************************************)
(* One scheduled task of a user: its row in PostgreSQL, its job in         *)
(* APScheduler's memory (app/scheduler/core.py), the API requests that     *)
(* change both (app/service/scheduled_task.py) and the executions          *)
(* (app/scheduler/dispatcher.py).                                          *)
(*                                                                         *)
(* API requests run in threads and commit the row before they turn to the  *)
(* scheduler: each statement that others can see is an action.  A dispatch *)
(* runs on the event loop, where an action is what it does between two     *)
(* awaits; but one triggered by an agent's tool runs on a loop of its own  *)
(* in another thread (app/agent/tools/builtin/scheduled_task.py).  Tasks   *)
(* do not meet, except that any task's system_cleanup may complete this    *)
(* one.                                                                    *)
(***************************************************************************)
EXTENDS Naturals, FiniteSets

CONSTANTS
  Calls,          \* API requests for this task over time, the first creates it
  Dispatches,     \* calls of dispatch_task for this task over time
  Schedules,      \* values of schedule_type, schedule_config and timezone
  OneShots,       \* those of type one_shot
  BadSchedules,   \* those from which _build_trigger raises
  Limits,         \* values of max_runs the user gives
  MaxStarts,      \* bound: starts of the process
  NoJob, NoSchedule, NoLimit, Expired

ASSUME SchedulesAssumption ==
  /\ OneShots \subseteq Schedules /\ BadSchedules \subseteq Schedules
  /\ NoSchedule \notin Schedules
  /\ Limits \subseteq (Nat \ {0}) \cup {NoLimit}
  /\ NoLimit \notin Nat /\ Expired \notin Nat
  /\ NoJob \notin [schedule : Schedules, paused : BOOLEAN]
  /\ MaxStarts \in Nat

VARIABLES
  up,         \* the process runs and so does its scheduler
  starts,     \* how often it was started
  status,     \* scheduled_task.status; "none" before, "deleted" after the row's life
  schedule,   \* the schedule columns
  limit,      \* scheduled_task.max_runs
  count,      \* scheduled_task.run_count
  job,        \* the APScheduler job
  pc,         \* the next statement of an API request
  fresh,      \* the schedule a request has read back after its commit
  run,        \* where a dispatch is
  origin,     \* who started it: the job, an API request by hand, or an agent's tool
  loaded,     \* run_count in the dispatch's ORM session, Expired after a commit
  finished,   \* history: executions that ended and found the row
  raced,      \* history: two executions counted at once
  untouched,  \* history: no API request since the process was started
  overlapped  \* history: two API requests were under way at once

processVars == <<up, starts>>
rowVars     == <<status, schedule, limit, count>>
callVars    == <<pc, fresh, untouched, overlapped>>
runVars     == <<run, origin, loaded, finished, raced>>
vars        == <<processVars, rowVars, job, callVars, runVars>>

Jobs    == [schedule : Schedules, paused : BOOLEAN]
Present == status \in {"active", "paused", "completed"}
Under   == {q \in Calls : pc[q] \notin {"idle", "over"}}    \* requests under way

TypeOK ==
  /\ up \in BOOLEAN
  /\ starts \in 0..MaxStarts
  /\ status \in {"none", "active", "paused", "completed", "deleted"}
  /\ schedule \in Schedules \cup {NoSchedule}
  /\ limit \in Limits \cup {NoLimit}
  /\ count \in Nat
  /\ job \in Jobs \cup {NoJob}
  /\ pc \in [Calls -> {"idle", "created", "updated", "add", "replace", "pausing", "pause_job",
                       "resuming", "resume_job", "deleting", "over"}]
  /\ fresh \in [Calls -> Schedules \cup {NoSchedule}]
  /\ run \in [Dispatches -> {"idle", "submitted", "running", "counted", "last", "over"}]
  /\ origin \in [Dispatches -> {"none", "job", "hand", "tool"}]
  /\ loaded \in [Dispatches -> Nat \cup {Expired}]
  /\ finished \in Nat
  /\ raced \in BOOLEAN
  /\ untouched \in BOOLEAN
  /\ overlapped \in BOOLEAN

Init ==
  /\ up = FALSE
  /\ starts = 0
  /\ status = "none"
  /\ schedule = NoSchedule
  /\ limit = NoLimit
  /\ count = 0
  /\ job = NoJob
  /\ pc = [q \in Calls |-> "idle"]
  /\ fresh = [q \in Calls |-> NoSchedule]
  /\ run = [d \in Dispatches |-> "idle"]
  /\ origin = [d \in Dispatches |-> "none"]
  /\ loaded = [d \in Dispatches |-> Expired]
  /\ finished = 0
  /\ raced = FALSE
  /\ untouched = TRUE
  /\ overlapped = FALSE

-----------------------------------------------------------------------------
(* The process.                                                            *)
(* Definitions named Faulty... are variants, with a plausible fault, of    *)
(* the one they precede; nothing uses them.                                *)

\* start() adds a job for an active task; one whose trigger cannot be built is skipped.
Loaded ==
  IF status = "active" /\ schedule \notin BadSchedules
    THEN [schedule |-> schedule, paused |-> FALSE]
    ELSE NoJob

Start ==
  /\ ~ up /\ starts < MaxStarts
  /\ up' = TRUE
  /\ starts' = starts + 1
  /\ job' = Loaded
  /\ untouched' = TRUE
  /\ UNCHANGED <<rowVars, pc, fresh, overlapped, runVars>>

\* The process ends, by a shutdown or a crash: jobs, requests and executions are lost.
Die ==
  /\ up
  /\ up' = FALSE
  /\ job' = NoJob
  /\ pc' = [q \in Calls |-> IF q \in Under THEN "over" ELSE pc[q]]
  /\ run' = [d \in Dispatches |-> IF run[d] = "idle" THEN "idle" ELSE "over"]
  /\ loaded' = [d \in Dispatches |-> Expired]
  /\ UNCHANGED <<starts, rowVars, fresh, untouched, overlapped, origin, finished, raced>>

-----------------------------------------------------------------------------
(* API requests.                                                           *)

\* A request begins, in a thread of its own, and goes on at step.
Enter(q, step) ==
  /\ up /\ pc[q] = "idle"
  /\ pc' = [pc EXCEPT ![q] = step]
  /\ untouched' = FALSE
  /\ overlapped' = (overlapped \/ Under # {})

\* A request goes on at step.
Proceed(q, step) ==
  /\ pc' = [pc EXCEPT ![q] = step]
  /\ UNCHANGED <<untouched, overlapped>>

\* create_task: the row is committed.
Create(q, s, m) ==
  /\ status = "none"
  /\ Enter(q, "created")
  /\ status' = "active" /\ schedule' = s /\ limit' = m
  /\ UNCHANGED <<processVars, count, job, fresh, runVars>>

\* update_task: the UPDATE of the schedule columns, and perhaps of max_runs, is
\* committed.  It writes no other column than those given, so reading the row before is
\* not an action of its own.
Update(q, s, m) ==
  /\ Present
  /\ Enter(q, "updated")
  /\ schedule' = s /\ limit' = m
  /\ UNCHANGED <<processVars, status, count, job, fresh, runVars>>

\* update_task without a schedule column leaves the scheduler alone.
Relimit(q, m) ==
  /\ Present
  /\ Enter(q, "over")
  /\ limit' = m
  /\ UNCHANGED <<processVars, status, schedule, count, job, fresh, runVars>>

\* update_task that forgets to test the status.
FaultyNextStep(q) == IF pc[q] = "created" THEN "add" ELSE "replace"

\* A created task is registered, an updated one if it is active.
NextStep(q) ==
  IF pc[q] = "created" THEN "add" ELSE IF status = "active" THEN "replace" ELSE "over"

\* db.refresh(task), which raises if the row is gone.
ReadBack(q) ==
  /\ pc[q] \in {"created", "updated"}
  /\ Proceed(q, IF Present THEN NextStep(q) ELSE "over")
  /\ fresh' = [fresh EXCEPT ![q] = IF Present THEN schedule ELSE @]
  /\ UNCHANGED <<processVars, rowVars, job, runVars>>

\* SchedulerService.add_task, update_task.  If no trigger can be built the error is
\* logged; update_task has removed the old job by then.
Register(q) ==
  /\ pc[q] \in {"add", "replace"}
  /\ job' = IF fresh[q] \notin BadSchedules THEN [schedule |-> fresh[q], paused |-> FALSE]
            ELSE IF pc[q] = "add" THEN job ELSE NoJob
  /\ Proceed(q, "over")
  /\ UNCHANGED <<processVars, rowVars, fresh, runVars>>

\* pause_task, resume_task: the status is read, anything else than an active or a
\* paused task is left alone.
ReadStatus(q) ==
  /\ Present
  /\ \/ status = "active" /\ Enter(q, "pausing")
     \/ status = "paused" /\ Enter(q, "resuming")
  /\ UNCHANGED <<processVars, rowVars, job, fresh, runVars>>

\* The new status is committed, whatever the status has become; StaleDataError if the
\* row is gone.
WriteStatus(q) ==
  /\ pc[q] \in {"pausing", "resuming"}
  /\ IF Present
       THEN IF pc[q] = "pausing"
              THEN status' = "paused" /\ Proceed(q, "pause_job")
              ELSE status' = "active" /\ Proceed(q, "resume_job")
       ELSE status' = status /\ Proceed(q, "over")
  /\ UNCHANGED <<processVars, schedule, limit, count, job, fresh, runVars>>

\* SchedulerService.pause_task, resume_task: if there is a job.
ToggleJob(q) ==
  /\ pc[q] \in {"pause_job", "resume_job"}
  /\ job' = IF job = NoJob THEN NoJob
            ELSE [job EXCEPT !.paused = (pc[q] = "pause_job")]
  /\ Proceed(q, "over")
  /\ UNCHANGED <<processVars, rowVars, fresh, runVars>>

\* delete_task: the job first.
Unschedule(q) ==
  /\ Present
  /\ Enter(q, "deleting")
  /\ job' = NoJob
  /\ UNCHANGED <<processVars, rowVars, fresh, runVars>>

\* delete_task: then the row.
Delete(q) ==
  /\ pc[q] = "deleting"
  /\ status' = "deleted"
  /\ Proceed(q, "over")
  /\ UNCHANGED <<processVars, schedule, limit, count, job, fresh, runVars>>

-----------------------------------------------------------------------------
(* Executions.                                                             *)

\* Executions that have counted up in their session and not committed yet.
Counting == {d \in Dispatches : run[d] \in {"counted", "last"}}

\* A tool's execution has a loop of its own; what runs on the application's finds no
\* other half way from the count to the commit.
OnLoop(d) == origin[d] # "tool"
LoopFree == \A d \in Counting : ~ OnLoop(d)
HasLoop(d) == OnLoop(d) => LoopFree

\* APScheduler submits the job when it is due, unless its last execution still runs
\* (max_instances = 1); a one-shot job is removed with that.
Fire(d) ==
  /\ LoopFree /\ run[d] = "idle" /\ job # NoJob /\ ~ job.paused
  /\ \A e \in Dispatches : origin[e] = "job" => run[e] = "over"
  /\ run' = [run EXCEPT ![d] = "submitted"]
  /\ origin' = [origin EXCEPT ![d] = "job"]
  /\ job' = IF job.schedule \in OneShots THEN NoJob ELSE job
  /\ UNCHANGED <<processVars, rowVars, callVars, loaded, finished, raced>>

\* A one-shot that is found more than misfire_grace_time late is dropped.
Misfire ==
  /\ LoopFree /\ job # NoJob /\ ~ job.paused /\ job.schedule \in OneShots
  /\ job' = NoJob
  /\ UNCHANGED <<processVars, rowVars, callVars, runVars>>

\* Somebody asks for a run now, whatever the task's status.
Submit(d, who) ==
  /\ up /\ Present /\ run[d] = "idle"
  /\ run' = [run EXCEPT ![d] = "submitted"]
  /\ origin' = [origin EXCEPT ![d] = who]
  /\ UNCHANGED <<processVars, rowVars, job, callVars, loaded, finished, raced>>

\* trigger_task of the API awaits dispatch_task itself.
Trigger(d) == LoopFree /\ Submit(d, "hand")

\* The tool runs trigger_task in a new thread with a new event loop.
ToolTrigger(d) == Submit(d, "tool")

\* dispatch_task does nothing for a row that is gone or not active.
Skip(d) ==
  /\ HasLoop(d) /\ run[d] = "submitted" /\ status # "active"
  /\ run' = [run EXCEPT ![d] = "over"]
  /\ UNCHANGED <<processVars, rowVars, job, callVars, origin, loaded, finished, raced>>

\* A handler that suspends before it has committed, as one that sends first would.
FaultyHandle(d) == [loaded EXCEPT ![d] = count]

\* The handler commits what it stores before it suspends; that expires the task in
\* the session, and its attributes are read anew when they are used next.
Handle(d) == [loaded EXCEPT ![d] = Expired]

\* dispatch_task finds the row active and runs the handler up to its first await.
Begin(d) ==
  /\ HasLoop(d) /\ run[d] = "submitted" /\ status = "active"
  /\ run' = [run EXCEPT ![d] = "running"]
  /\ loaded' = Handle(d)
  /\ UNCHANGED <<processVars, rowVars, job, callVars, origin, finished, raced>>

\* run_count goes up by one in the session.
CountUp(d, n, as) ==
  /\ run' = [run EXCEPT ![d] = as]
  /\ loaded' = [loaded EXCEPT ![d] = n]
  /\ raced' = (raced \/ Counting # {})

\* No handler is registered for the task_type: the run counts as failed, and max_runs
\* is not looked at.
NoHandler(d) ==
  /\ HasLoop(d) /\ run[d] = "submitted" /\ status = "active"
  /\ CountUp(d, count, "counted")
  /\ UNCHANGED <<processVars, rowVars, job, callVars, origin, finished>>

\* max_runs is set and reached with n runs.
Reached(n) == limit # NoLimit /\ n >= limit

\* The task completes but its job stays.
FaultyLastRun(d, n) == CountUp(d, n, "last") /\ UNCHANGED job

\* With the last run the job is removed.
LastRun(d, n) == CountUp(d, n, "last") /\ job' = NoJob

\* The handler returned or raised.  If the row is gone nothing can be recorded.
Finish(d) ==
  /\ HasLoop(d) /\ run[d] = "running"
  /\ LET n == IF loaded[d] = Expired THEN count ELSE loaded[d]
     IN \/ Present /\ Reached(n + 1) /\ LastRun(d, n)
        \/ Present /\ ~ Reached(n + 1) /\ CountUp(d, n, "counted") /\ UNCHANGED job
        \/ ~ Present /\ run' = [run EXCEPT ![d] = "over"] /\ UNCHANGED <<job, loaded, raced>>
  /\ UNCHANGED <<processVars, rowVars, callVars, origin, finished>>

\* The commit writes run_count, and with the last run that the task is completed,
\* whatever its status has become meanwhile; else the status is not written.
\* StaleDataError if the row is gone.
Record(d) ==
  /\ d \in Counting
  /\ run' = [run EXCEPT ![d] = "over"]
  /\ loaded' = [loaded EXCEPT ![d] = Expired]
  /\ IF Present
       THEN /\ count' = loaded[d] + 1
            /\ status' = IF run[d] = "last" THEN "completed" ELSE status
            /\ finished' = finished + 1
       ELSE UNCHANGED <<status, count, finished>>
  /\ UNCHANGED <<processVars, schedule, limit, job, callVars, origin, raced>>

\* A one-shot that has run.
Done == schedule \in OneShots /\ count > 0

\* system_cleanup of any task completes an active one-shot that has run.
Cleanup ==
  /\ up /\ LoopFree /\ status = "active" /\ Done
  /\ status' = "completed"
  /\ UNCHANGED <<processVars, schedule, limit, count, job, callVars, runVars>>

-----------------------------------------------------------------------------
Call(q) ==
  \/ \E s \in Schedules, m \in Limits : Create(q, s, m) \/ Update(q, s, m)
  \/ \E m \in Limits : Relimit(q, m)
  \/ ReadBack(q) \/ Register(q)
  \/ ReadStatus(q) \/ WriteStatus(q) \/ ToggleJob(q)
  \/ Unschedule(q) \/ Delete(q)

Dispatch(d) ==
  \/ Fire(d) \/ Trigger(d) \/ ToolTrigger(d)
  \/ Skip(d) \/ Begin(d) \/ NoHandler(d) \/ Finish(d) \/ Record(d)

Next ==
  \/ Start \/ Die \/ Misfire \/ Cleanup
  \/ \E q \in Calls : Call(q)
  \/ \E d \in Dispatches : Dispatch(d)

Spec == Init /\ [][Next]_vars

-----------------------------------------------------------------------------
(* Properties.                                                             *)

\* No execution's count is lost to another's, manual or scheduled, however their handlers
\* overlap, nor is one counted twice: run_count is the number of executions that ended
\* while the row was there.  Only one triggered by a tool, which has a thread of its own,
\* can come between another's count and commit; then run_count falls short.
CountIsExact == count <= finished /\ (~ raced => count = finished)

\* A task is completed only after it has run.
CompletedHasRun == status = "completed" => count > 0

\* "rebuilt on every application start": from a start until the next API request (manual
\* triggers apart) row and job of a recurring task agree, whatever runs or completes,
\* except between the removal of its job and the commit that completes it.
StartAgrees ==
  up /\ untouched /\ schedule \notin OneShots /\ (\A d \in Dispatches : run[d] # "last") =>
    job = IF status = "active" /\ schedule \notin BadSchedules
            THEN [schedule |-> schedule, paused |-> FALSE]
            ELSE NoJob

\* If requests never overlapped, then between them the scheduler will not run what the
\* user has paused or deleted - in spite of executions and restarts at any moment.
Quiet == up /\ Under = {}
StoppedIsStopped ==
  Quiet /\ ~ overlapped =>
    /\ status \in {"none", "deleted"} => job = NoJob
    /\ status = "paused" => job = NoJob \/ job.paused

\* Nothing runs without a process, nor a request since its start if there was none; a
\* row has a schedule, and so has a request that is about to register it.
ProcessConsistent ==
  /\ ~ up => job = NoJob /\ Under = {} /\ \A d \in Dispatches : run[d] \in {"idle", "over"}
  /\ untouched => Under = {}
  /\ Present => schedule \in Schedules
  /\ \A q \in Calls : pc[q] \in {"add", "replace"} => fresh[q] \in Schedules

\* An execution that has counted holds a number that is not too large, and that of the
\* row if it is alone; the others hold none.  The last run has taken the job away.
CountsConsistent ==
  /\ \A d \in Dispatches :
       IF d \in Counting THEN loaded[d] \in Nat /\ loaded[d] <= finished ELSE loaded[d] = Expired
  /\ ~ raced => \A d, e \in Counting : d = e /\ loaded[d] = count
  /\ \A d \in Dispatches : untouched /\ run[d] = "last" => job = NoJob

\* As long as requests do not overlap: one is under way at most; it registers or resumes
\* a job only of a task that was not stopped, and a paused task may have a live job only
\* until the request that pauses it goes on.
SerialRequests ==
  ~ overlapped =>
    /\ \A p, q \in Under : p = q
    /\ status \in {"none", "deleted"} => job = NoJob
    /\ status = "paused" => job = NoJob \/ job.paused \/ \E q \in Calls : pc[q] = "pause_job"
    /\ \A q \in Calls :
         /\ pc[q] \in {"created", "add", "replace", "resume_job"} => status \in {"active", "completed"}
         /\ pc[q] = "deleting" => job = NoJob

\* What holds of every reachable state and is preserved by every step.
IInv ==
  /\ TypeOK
  /\ ProcessConsistent
  /\ CountsConsistent
  /\ CountIsExact
  /\ CompletedHasRun
  /\ StartAgrees
  /\ SerialRequests

\* "The database ScheduledTask table is the source of truth": between requests, an
\* active recurring task has a job that runs by the schedule in its row.
ActiveTaskIsScheduled ==
  Quiet /\ ~ overlapped /\ status = "active" /\ schedule \notin OneShots \cup BadSchedules =>
    job = [schedule |-> schedule, paused |-> FALSE]
=============================================================================
