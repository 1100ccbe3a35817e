------------------------- MODULE TaskSchedulerProofs -------------------------
(***************************************************************************)
(* IInv is an inductive invariant of TaskScheduler for any number of       *)
(* requests, executions, schedules and restarts.  StoppedIsStopped rests   *)
(* on SerialRequests, which says what a request half way through may have  *)
(* left; StartAgrees on ProcessConsistent, by which nothing but executions *)
(* happens before the first request.                                       *)
(***************************************************************************)
EXTENDS TaskScheduler, TLAPS

USE SchedulesAssumption DEF IInv, processVars, rowVars, callVars, runVars, vars

\* There is no task and no process in the beginning.
LEMMA InitInv == Init => IInv
<1> SUFFICES ASSUME Init PROVE IInv
  OBVIOUS
<1>1. TypeOK
  <2>1. starts \in 0..MaxStarts /\ count \in Nat /\ finished \in Nat
    BY DEF Init
  <2>2. /\ pc \in [Calls -> {"idle", "created", "updated", "add", "replace", "pausing", "pause_job",
                           "resuming", "resume_job", "deleting", "over"}]
        /\ fresh \in [Calls -> Schedules \cup {NoSchedule}]
    BY DEF Init
  <2>3. /\ run \in [Dispatches -> {"idle", "submitted", "running", "counted", "last", "over"}]
        /\ origin \in [Dispatches -> {"none", "job", "hand", "tool"}]
        /\ loaded \in [Dispatches -> Nat \cup {Expired}]
    BY DEF Init
  <2> QED
    BY <2>1, <2>2, <2>3 DEF Init, TypeOK
<1>2. ProcessConsistent /\ CountsConsistent /\ CountIsExact /\ CompletedHasRun /\ StartAgrees
  BY DEF Init, ProcessConsistent, CountsConsistent, CountIsExact, CompletedHasRun, StartAgrees, Under,
         Present, Counting
<1>3. SerialRequests
  BY DEF Init, SerialRequests, Under
<1> QED
  BY <1>1, <1>2, <1>3

\* Every action keeps the types.
LEMMA TypeStep ==
  ASSUME IInv, [Next]_vars
  PROVE  TypeOK'
<1> USE DEF TypeOK, ProcessConsistent
<1>1. ASSUME NEW q \in Calls, NEW s \in Schedules, NEW m \in Limits, Create(q, s, m) PROVE TypeOK'
  BY <1>1 DEF Create, Enter
<1>2. ASSUME NEW q \in Calls, NEW s \in Schedules, NEW m \in Limits, Update(q, s, m) PROVE TypeOK'
  BY <1>2 DEF Update, Enter, Present
<1>3. ASSUME NEW q \in Calls, ReadBack(q) PROVE TypeOK'
  BY <1>3 DEF ReadBack, Proceed, NextStep, Present
<1>4. ASSUME NEW q \in Calls, Register(q) PROVE TypeOK'
  BY <1>4 DEF Register, Proceed, Jobs
<1>5. ASSUME NEW q \in Calls, ReadStatus(q) PROVE TypeOK'
  BY <1>5 DEF ReadStatus, Enter, Present
<1>6. ASSUME NEW q \in Calls, WriteStatus(q) PROVE TypeOK'
  BY <1>6 DEF WriteStatus, Proceed, Present
<1>7. ASSUME NEW q \in Calls, ToggleJob(q) PROVE TypeOK'
  BY <1>7 DEF ToggleJob, Proceed, Jobs
<1>8. ASSUME NEW q \in Calls, Unschedule(q) PROVE TypeOK'
  BY <1>8 DEF Unschedule, Enter, Present
<1>9. ASSUME NEW q \in Calls, Delete(q) PROVE TypeOK'
  BY <1>9 DEF Delete, Proceed
<1>10. ASSUME NEW d \in Dispatches, Fire(d) PROVE TypeOK'
  BY <1>10 DEF Fire, Jobs
<1>11. ASSUME NEW d \in Dispatches, Skip(d) PROVE TypeOK'
  BY <1>11 DEF Skip
<1>12. ASSUME NEW d \in Dispatches, Begin(d) PROVE TypeOK'
  BY <1>12 DEF Begin, Handle
<1>13. ASSUME NEW d \in Dispatches, Trigger(d) PROVE TypeOK'
  BY <1>13 DEF Trigger, Submit, Present
<1>14. ASSUME NEW d \in Dispatches, NoHandler(d) PROVE TypeOK'
  BY <1>14 DEF NoHandler, CountUp, Counting
<1>15. ASSUME NEW d \in Dispatches, Finish(d) PROVE TypeOK'
  BY <1>15 DEF Finish, LastRun, CountUp, Reached, Present, Counting
<1>16. CASE Start
  BY <1>16 DEF Start, Loaded, Jobs, Present
<1>17. CASE Die
  BY <1>17 DEF Die, Under
<1>18. CASE Misfire
  BY <1>18 DEF Misfire
<1>19. CASE Cleanup
  BY <1>19 DEF Cleanup, Done
<1>20. ASSUME NEW q \in Calls, NEW m \in Limits, Relimit(q, m) PROVE TypeOK'
  BY <1>20 DEF Relimit, Enter, Present
<1>21. ASSUME NEW d \in Dispatches, ToolTrigger(d) PROVE TypeOK'
  BY <1>21 DEF ToolTrigger, Submit, Present
<1>22. ASSUME NEW d \in Dispatches, Record(d) PROVE TypeOK'
  BY <1>22 DEF Record, Present, Counting, CountsConsistent
<1>23. CASE UNCHANGED vars
  BY <1>23
<1> QED
  BY <1>1, <1>2, <1>3, <1>4, <1>5, <1>6, <1>7, <1>8, <1>9, <1>10, <1>11, <1>12, <1>13,
     <1>14, <1>15, <1>16, <1>17, <1>18, <1>19, <1>20, <1>21, <1>22, <1>23 DEF Next, Call, Dispatch

\* Every action keeps the bookkeeping of the process and the counts.
LEMMA CountStep ==
  ASSUME IInv, TypeOK', [Next]_vars
  PROVE  (ProcessConsistent /\ CountsConsistent /\ CountIsExact /\ CompletedHasRun)'
<1> DEFINE Goal == ProcessConsistent /\ CountsConsistent /\ CountIsExact /\ CompletedHasRun
<1> USE DEF ProcessConsistent, CountsConsistent, CountIsExact, CompletedHasRun, TypeOK, Under, Present,
            Counting
<1>1. ASSUME NEW q \in Calls, NEW s \in Schedules, NEW m \in Limits, Create(q, s, m) PROVE Goal'
  BY <1>1 DEF Create, Enter
<1>2. ASSUME NEW q \in Calls, NEW s \in Schedules, NEW m \in Limits, Update(q, s, m) PROVE Goal'
  BY <1>2 DEF Update, Enter, Present
<1>3. ASSUME NEW q \in Calls, ReadBack(q) PROVE Goal'
  BY <1>3 DEF ReadBack, Proceed, NextStep, Present
<1>4. ASSUME NEW q \in Calls, Register(q) PROVE Goal'
  BY <1>4 DEF Register, Proceed, Jobs
<1>5. ASSUME NEW q \in Calls, ReadStatus(q) PROVE Goal'
  BY <1>5 DEF ReadStatus, Enter, Present
<1>6. ASSUME NEW q \in Calls, WriteStatus(q) PROVE Goal'
  BY <1>6 DEF WriteStatus, Proceed, Present
<1>7. ASSUME NEW q \in Calls, ToggleJob(q) PROVE Goal'
  BY <1>7 DEF ToggleJob, Proceed, Jobs
<1>8. ASSUME NEW q \in Calls, Unschedule(q) PROVE Goal'
  BY <1>8 DEF Unschedule, Enter, Present
<1>9. ASSUME NEW q \in Calls, Delete(q) PROVE Goal'
  BY <1>9 DEF Delete, Proceed
<1>10. ASSUME NEW d \in Dispatches, Fire(d) PROVE Goal'
  BY <1>10 DEF Fire, Jobs
<1>11. ASSUME NEW d \in Dispatches, Skip(d) PROVE Goal'
  BY <1>11 DEF Skip
<1>12. ASSUME NEW d \in Dispatches, Begin(d) PROVE Goal'
  BY <1>12 DEF Begin, Handle
<1>13. ASSUME NEW d \in Dispatches, Trigger(d) PROVE Goal'
  BY <1>13 DEF Trigger, Submit, Present
<1>14. ASSUME NEW d \in Dispatches, NoHandler(d) PROVE Goal'
  BY <1>14 DEF NoHandler, CountUp, Counting
<1>15. ASSUME NEW d \in Dispatches, Finish(d) PROVE Goal'
  BY <1>15 DEF Finish, LastRun, CountUp, Reached, Present, Counting
<1>16. CASE Start
  BY <1>16 DEF Start, Loaded, Jobs
<1>17. CASE Die
  BY <1>17 DEF Die, Under
<1>18. CASE Misfire
  BY <1>18 DEF Misfire
<1>19. CASE Cleanup
  BY <1>19 DEF Cleanup, Done
<1>20. ASSUME NEW q \in Calls, NEW m \in Limits, Relimit(q, m) PROVE Goal'
  BY <1>20 DEF Relimit, Enter, Present
<1>21. ASSUME NEW d \in Dispatches, ToolTrigger(d) PROVE Goal'
  BY <1>21 DEF ToolTrigger, Submit, Present
<1>22. ASSUME NEW d \in Dispatches, Record(d) PROVE Goal'
  BY <1>22 DEF Record, Present, Counting
<1>23. CASE UNCHANGED vars
  BY <1>23
<1> QED
  BY <1>1, <1>2, <1>3, <1>4, <1>5, <1>6, <1>7, <1>8, <1>9, <1>10, <1>11, <1>12, <1>13,
     <1>14, <1>15, <1>16, <1>17, <1>18, <1>19, <1>20, <1>21, <1>22, <1>23 DEF Next, Call, Dispatch

\* Until the first request only executions act, and they keep row and job together.
LEMMA StartStep ==
  ASSUME IInv, TypeOK', [Next]_vars
  PROVE  StartAgrees'
<1> USE DEF StartAgrees, ProcessConsistent, CountsConsistent, TypeOK, Under
<1>1. ASSUME NEW q \in Calls, NEW s \in Schedules, NEW m \in Limits, Create(q, s, m) PROVE StartAgrees'
  BY <1>1 DEF Create, Enter
<1>2. ASSUME NEW q \in Calls, NEW s \in Schedules, NEW m \in Limits, Update(q, s, m) PROVE StartAgrees'
  BY <1>2 DEF Update, Enter, Present
<1>3. ASSUME NEW q \in Calls, ReadBack(q) PROVE StartAgrees'
  BY <1>3 DEF ReadBack, Proceed, NextStep, Present
<1>4. ASSUME NEW q \in Calls, Register(q) PROVE StartAgrees'
  BY <1>4 DEF Register, Proceed, Jobs
<1>5. ASSUME NEW q \in Calls, ReadStatus(q) PROVE StartAgrees'
  BY <1>5 DEF ReadStatus, Enter, Present
<1>6. ASSUME NEW q \in Calls, WriteStatus(q) PROVE StartAgrees'
  BY <1>6 DEF WriteStatus, Proceed, Present
<1>7. ASSUME NEW q \in Calls, ToggleJob(q) PROVE StartAgrees'
  BY <1>7 DEF ToggleJob, Proceed, Jobs
<1>8. ASSUME NEW q \in Calls, Unschedule(q) PROVE StartAgrees'
  BY <1>8 DEF Unschedule, Enter, Present
<1>9. ASSUME NEW q \in Calls, Delete(q) PROVE StartAgrees'
  BY <1>9 DEF Delete, Proceed
<1>10. ASSUME NEW d \in Dispatches, Fire(d) PROVE StartAgrees'
  <2>1. ASSUME up, untouched, schedule \notin OneShots PROVE job' = job
    <3>1. job = [schedule |-> schedule, paused |-> FALSE]
      BY <1>10, <2>1 DEF Fire
    <3>2. job.schedule = schedule
      BY <3>1
    <3> QED
      BY <1>10, <2>1, <3>2 DEF Fire
  <2> QED
    BY <1>10, <2>1 DEF Fire
<1>11. ASSUME NEW d \in Dispatches, Skip(d) PROVE StartAgrees'
  BY <1>11 DEF Skip
<1>12. ASSUME NEW d \in Dispatches, Begin(d) PROVE StartAgrees'
  BY <1>12 DEF Begin, Handle
<1>13. ASSUME NEW d \in Dispatches, Trigger(d) PROVE StartAgrees'
  BY <1>13 DEF Trigger, Submit, Present
<1>14. ASSUME NEW d \in Dispatches, NoHandler(d) PROVE StartAgrees'
  BY <1>14 DEF NoHandler, CountUp, Counting
<1>15. ASSUME NEW d \in Dispatches, Finish(d) PROVE StartAgrees'
  BY <1>15 DEF Finish, LastRun, CountUp, Reached, Present, Counting
<1>16. CASE Start
  BY <1>16 DEF Start, Loaded, Jobs
<1>17. CASE Die
  BY <1>17 DEF Die, Under
<1>18. CASE Misfire
  BY <1>18 DEF Misfire
<1>19. CASE Cleanup
  BY <1>19 DEF Cleanup, Done
<1>20. ASSUME NEW q \in Calls, NEW m \in Limits, Relimit(q, m) PROVE StartAgrees'
  BY <1>20 DEF Relimit, Enter, Present
<1>21. ASSUME NEW d \in Dispatches, ToolTrigger(d) PROVE StartAgrees'
  BY <1>21 DEF ToolTrigger, Submit, Present
<1>22. ASSUME NEW d \in Dispatches, Record(d) PROVE StartAgrees'
  BY <1>22 DEF Record, Present, Counting
<1>23. CASE UNCHANGED vars
  BY <1>23
<1> QED
  BY <1>1, <1>2, <1>3, <1>4, <1>5, <1>6, <1>7, <1>8, <1>9, <1>10, <1>11, <1>12, <1>13,
     <1>14, <1>15, <1>16, <1>17, <1>18, <1>19, <1>20, <1>21, <1>22, <1>23 DEF Next, Call, Dispatch

\* A request that runs alone leaves a stopped task without a live job.
LEMMA SerialStep ==
  ASSUME IInv, TypeOK', [Next]_vars
  PROVE  SerialRequests'
<1> USE DEF SerialRequests, ProcessConsistent, TypeOK, Under
<1>1. ASSUME NEW q \in Calls, NEW s \in Schedules, NEW m \in Limits, Create(q, s, m) PROVE SerialRequests'
  <2> SUFFICES ASSUME ~ overlapped' PROVE SerialRequests'
    BY DEF SerialRequests
  <2>1. Under = {} /\ pc[q] = "idle" /\ ~ overlapped /\ pc' = [pc EXCEPT ![q] = "created"]
    BY <1>1 DEF Create, Enter
  <2>2. Under' = {q}
    BY <2>1
  <2>3. status' = "active" /\ job' = job
    BY <1>1 DEF Create
  <2>4. \A p \in Calls : pc'[p] # "deleting"
    BY <2>1
  <2> QED
    BY <2>2, <2>3, <2>4
<1>2. ASSUME NEW q \in Calls, NEW s \in Schedules, NEW m \in Limits, Update(q, s, m) PROVE SerialRequests'
  <2> SUFFICES ASSUME ~ overlapped' PROVE SerialRequests'
    BY DEF SerialRequests
  <2>1. Under = {} /\ pc[q] = "idle" /\ ~ overlapped /\ pc' = [pc EXCEPT ![q] = "updated"]
    BY <1>2 DEF Update, Enter
  <2>2. Under' = {q}
    BY <2>1
  <2>3. status' = status /\ job' = job /\ Present
    BY <1>2 DEF Update
  <2>4. \A p \in Calls : pc'[p] \in {"idle", "over", "updated"}
    BY <2>1
  <2>5. \A p \in Calls : pc[p] # "pause_job"
    BY <2>1
  <2> QED
    BY <2>1, <2>2, <2>3, <2>4, <2>5 DEF Present
<1>3. ASSUME NEW q \in Calls, ReadBack(q) PROVE SerialRequests'
  BY <1>3 DEF ReadBack, Proceed, NextStep, Present
<1>4. ASSUME NEW q \in Calls, Register(q) PROVE SerialRequests'
  BY <1>4 DEF Register, Proceed, Jobs
<1>5. ASSUME NEW q \in Calls, ReadStatus(q) PROVE SerialRequests'
  BY <1>5 DEF ReadStatus, Enter, Present
<1>6. ASSUME NEW q \in Calls, WriteStatus(q) PROVE SerialRequests'
  BY <1>6 DEF WriteStatus, Proceed, Present
<1>7. ASSUME NEW q \in Calls, ToggleJob(q) PROVE SerialRequests'
  BY <1>7 DEF ToggleJob, Proceed, Jobs
<1>8. ASSUME NEW q \in Calls, Unschedule(q) PROVE SerialRequests'
  <2> SUFFICES ASSUME ~ overlapped' PROVE SerialRequests'
    BY DEF SerialRequests
  <2>1. Under = {} /\ pc[q] = "idle" /\ pc' = [pc EXCEPT ![q] = "deleting"]
    BY <1>8 DEF Unschedule, Enter
  <2>2. Under' = {q}
    BY <2>1
  <2>3. job' = NoJob
    BY <1>8 DEF Unschedule
  <2>4. \A p \in Calls : pc'[p] \in {"idle", "over", "deleting"}
    BY <2>1
  <2> QED
    BY <2>2, <2>3, <2>4
<1>9. ASSUME NEW q \in Calls, Delete(q) PROVE SerialRequests'
  BY <1>9 DEF Delete, Proceed
<1>10. ASSUME NEW d \in Dispatches, Fire(d) PROVE SerialRequests'
  BY <1>10 DEF Fire, Jobs
<1>11. ASSUME NEW d \in Dispatches, Skip(d) PROVE SerialRequests'
  BY <1>11 DEF Skip
<1>12. ASSUME NEW d \in Dispatches, Begin(d) PROVE SerialRequests'
  BY <1>12 DEF Begin, Handle
<1>13. ASSUME NEW d \in Dispatches, Trigger(d) PROVE SerialRequests'
  BY <1>13 DEF Trigger, Submit, Present
<1>14. ASSUME NEW d \in Dispatches, NoHandler(d) PROVE SerialRequests'
  BY <1>14 DEF NoHandler, CountUp, Counting
<1>15. ASSUME NEW d \in Dispatches, Finish(d) PROVE SerialRequests'
  BY <1>15 DEF Finish, LastRun, CountUp, Reached, Present, Counting
<1>16. CASE Start
  BY <1>16 DEF Start, Loaded, Jobs
<1>17. CASE Die
  BY <1>17 DEF Die, Under
<1>18. CASE Misfire
  BY <1>18 DEF Misfire
<1>19. CASE Cleanup
  BY <1>19 DEF Cleanup, Done
<1>20. ASSUME NEW q \in Calls, NEW m \in Limits, Relimit(q, m) PROVE SerialRequests'
  BY <1>20 DEF Relimit, Enter, Present
<1>21. ASSUME NEW d \in Dispatches, ToolTrigger(d) PROVE SerialRequests'
  BY <1>21 DEF ToolTrigger, Submit, Present
<1>22. ASSUME NEW d \in Dispatches, Record(d) PROVE SerialRequests'
  BY <1>22 DEF Record, Present, Counting
<1>23. CASE UNCHANGED vars
  BY <1>23
<1> QED
  BY <1>1, <1>2, <1>3, <1>4, <1>5, <1>6, <1>7, <1>8, <1>9, <1>10, <1>11, <1>12, <1>13,
     <1>14, <1>15, <1>16, <1>17, <1>18, <1>19, <1>20, <1>21, <1>22, <1>23 DEF Next, Call, Dispatch

\* IInv is invariant.
THEOREM SchedulerInvariant == Spec => []IInv
<1>1. Init => IInv
  BY InitInv
<1>2. IInv /\ [Next]_vars => IInv'
  BY TypeStep, CountStep, StartStep, SerialStep
<1> QED
  BY <1>1, <1>2, PTL DEF Spec

\* Every variable keeps its type.
THEOREM SchedulerTypeCorrect == Spec => []TypeOK
<1>1. IInv => TypeOK
  OBVIOUS
<1> QED
  BY <1>1, SchedulerInvariant, PTL

\* run_count loses no execution, however executions overlap, unless two count up and commit
\* at once, which takes one of a tool's thread.
THEOREM NoRunUncounted == Spec => []CountIsExact
<1>1. IInv => CountIsExact
  OBVIOUS
<1> QED
  BY <1>1, SchedulerInvariant, PTL

\* What start() builds stays true until the first request.
THEOREM RestartRebuilds == Spec => []StartAgrees
<1>1. IInv => StartAgrees
  OBVIOUS
<1> QED
  BY <1>1, SchedulerInvariant, PTL

\* Requests that do not overlap stop a task for good.
THEOREM SerialStopHolds == Spec => []StoppedIsStopped
<1>1. IInv => StoppedIsStopped
  BY DEF SerialRequests, StoppedIsStopped, Quiet, Under
<1> QED
  BY <1>1, SchedulerInvariant, PTL
=============================================================================
