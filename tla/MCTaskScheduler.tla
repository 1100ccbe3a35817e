--------------------------- MODULE MCTaskScheduler ---------------------------
(* TaskScheduler on small sets; requests are interchangeable, and so are   *)
(* executions.                                                             *)
EXTENDS TaskScheduler, TLC

Interchangeable == Permutations(Calls) \cup Permutations(Dispatches)
=============================================================================
