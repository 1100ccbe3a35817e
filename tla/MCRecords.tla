------------------------------ MODULE MCRecords ------------------------------
(* Four components that share no state, explored one after the other: the  *)
(* part chosen at the start takes all steps, and the others stay as they   *)
(* are.  Requests of each part are interchangeable, and so are folders and *)
(* sandboxes.                                                              *)
EXTENDS ClientSync, SandboxLifecycle, KnowledgeTree, MessageIntake, TLC

VARIABLE part

recordVars == <<part, syncVars, sandboxVars, treeVars, intakeVars>>

RecordsInit ==
  /\ part \in {"sync", "sandbox", "tree", "intake"}
  /\ SyncInit /\ SandboxInit /\ TreeInit /\ IntakeInit

SyncPart ==
  /\ part = "sync" /\ SyncNext
  /\ UNCHANGED <<part, sandboxVars, treeVars, intakeVars>>

SandboxPart ==
  /\ part = "sandbox" /\ SandboxNext
  /\ UNCHANGED <<part, syncVars, treeVars, intakeVars>>

TreePart ==
  /\ part = "tree" /\ TreeNext
  /\ UNCHANGED <<part, syncVars, sandboxVars, intakeVars>>

IntakePart ==
  /\ part = "intake" /\ IntakeNext
  /\ UNCHANGED <<part, syncVars, sandboxVars, treeVars>>

RecordsNext == SyncPart \/ SandboxPart \/ TreePart \/ IntakePart

RecordsSpec == RecordsInit /\ [][RecordsNext]_recordVars

Interchangeable == Permutations(Threads) \cup Permutations(Folders)

\* The type invariants of the four modules.
RecordsTypeOK == SyncTypeOK /\ SandboxTypeOK /\ TreeTypeOK /\ IntakeTypeOK
=============================================================================
