---------------------------- MODULE ServicesProofs ----------------------------
(***************************************************************************)
(* What holds of the background indexing, of the terminals of a sandbox    *)
(* and of the caches of agents, for any messages, jobs, pools, shells,     *)
(* connections, agents, requests and chats.                                *)
(***************************************************************************)
EXTENDS BackgroundIndex, SandboxTerminal, AgentCache, FiniteSetTheorems, TLAPS

-----------------------------------------------------------------------------
(* Background indexing.                                                    *)

USE IndexAssumption

\* A job that has not begun wants nothing; only backfill goes in rounds; and an index task at
\* work has indexed all it has come to, unless its ORM session is broken.
IndexedSoFar ==
  \A t \in Jobs :
    /\ at[t] \in {"new", "queued", "begun"} => wanted[t] = {} /\ done[t] = 0
    /\ at[t] = "new" => kind[t] = NoKind
    /\ at[t] = "loop" => kind[t] = "backfill"
    /\ kind[t] = "index" /\ at[t] = "work" /\ ~ broken[t] =>
         wanted[t] \ Textless \subseteq indexed \cup todo[t]

\* The rows a script holds have the status it looks for, unless one has been deleted since.
BatchKnown ==
  \A s \in Scripts : ~ stale[s] => \A m \in batch[s] : m \in indexed /\ vector[m] = s

\* A task does not count further than it has messages, and backfill asks for no page past
\* the last.
Counted ==
  \A t \in Jobs :
    /\ done[t] + Cardinality(todo[t]) <= Cardinality(Mails)
    /\ at[t] = "embed" /\ kind[t] = "backfill" => offset[t] <= Cardinality(Mails)

\* What a job holds is stored, and what backfill computes embeddings for is indexed.
HeldRows ==
  \A t \in Jobs :
    /\ todo[t] \cup page[t] \subseteq stored
    /\ at[t] = "embed" /\ kind[t] = "backfill" => page[t] \subseteq indexed

\* The inductive invariant.
IndexInv ==
  /\ IndexTypeOK /\ IndexedSoFar /\ BatchKnown /\ Counted /\ HeldRows
  /\ CompletedIsIndexed

\* The types by what they are about: the rows, what jobs have in hand,
RowsTypeOK ==
  /\ stored \subseteq Mails /\ indexing \subseteq stored /\ indexed \subseteq stored
  /\ vector \in [Mails -> {"none", "pending", "completed", "failed"}]
  /\ \A m \in Mails \ indexed : vector[m] = "none"
WorkTypeOK ==
  /\ at \in [Jobs -> {"new", "queued", "begun", "work", "loop", "page", "embed", "over", "lost"}]
  /\ todo \in [Jobs -> SUBSET Mails] /\ page \in [Jobs -> SUBSET Mails]
  /\ done \in [Jobs -> 0..Cardinality(Mails)] /\ broken \in [Jobs -> BOOLEAN]
  /\ offset \in [Jobs -> 0..Cardinality(Mails) + PageSize]
\* the tasks,
TaskTypeOK ==
  /\ kind \in [Jobs -> JobKinds \cup {NoKind}]
  /\ status \in [Jobs -> {"none", "pending", "running", "completed", "failed", "cancelled"}]
  /\ wanted \in [Jobs -> SUBSET Mails] /\ cancelling \subseteq Jobs
\* and the scripts.
ScriptTypeOK ==
  /\ batch \in [Scripts -> SUBSET Mails] /\ stale \in [Scripts -> BOOLEAN]

\* The messages can be counted.
LEMMA MailsCounted ==
  /\ Cardinality(Mails) \in Nat /\ Cardinality({}) = 0
  /\ \A S \in SUBSET Mails : /\ IsFiniteSet(S) /\ Cardinality(S) \in Nat
                             /\ Cardinality(S) <= Cardinality(Mails)
  /\ \A S \in SUBSET Mails : \A R \in SUBSET S : Cardinality(R) <= Cardinality(S)
  /\ \A S \in SUBSET Mails : \A m \in S : Cardinality(S \ {m}) = Cardinality(S) - 1
<1>1. Cardinality(Mails) \in Nat /\ Cardinality({}) = 0
  BY FS_CardinalityType, FS_EmptySet
<1>2. \A S \in SUBSET Mails : IsFiniteSet(S) /\ Cardinality(S) <= Cardinality(Mails)
  BY FS_Subset
<1>3. \A S \in SUBSET Mails : Cardinality(S) \in Nat
  BY <1>2, FS_CardinalityType
<1>4. \A S \in SUBSET Mails : \A R \in SUBSET S : Cardinality(R) <= Cardinality(S)
  BY <1>2, FS_Subset
<1>5. \A S \in SUBSET Mails : \A m \in S : Cardinality(S \ {m}) = Cardinality(S) - 1
  BY <1>2, FS_RemoveElement
<1> QED
  BY <1>1, <1>2, <1>3, <1>4, <1>5

\* Jobs that stop have nothing in hand any more.
LEMMA StopKeeps ==
  ASSUME WorkTypeOK, Counted, NEW S \in SUBSET Jobs, NEW where \in {"over", "lost"}, Stop(S,
         where),
         kind' = kind
  PROVE  WorkTypeOK' /\ Counted'
<1>1. {} \in SUBSET Mails /\ 0 \in 0..Cardinality(Mails) /\ 0 \in 0..Cardinality(Mails) + PageSize
  BY MailsCounted
<1>2. WorkTypeOK'
  BY <1>1 DEF WorkTypeOK, Stop
<1>3. Counted'
  BY MailsCounted DEF WorkTypeOK, Counted, Stop
<1> QED
  BY <1>2, <1>3

\* A job that only goes on to another place counts what it counted.
LEMMA GoesOn ==
  ASSUME WorkTypeOK, Counted, NEW t \in Jobs, NEW where \in {"queued", "begun", "work", "loop",
         "page"},
         At(t, where), UNCHANGED <<todo, done, broken, offset, page>>,
         \A u \in Jobs \ {t} : kind'[u] = kind[u]
  PROVE  WorkTypeOK' /\ Counted'
  BY DEF WorkTypeOK, Counted, At

\* These are all the types there are.
LEMMA IndexTypeParts == IndexTypeOK <=> RowsTypeOK /\ WorkTypeOK /\ TaskTypeOK /\ ScriptTypeOK
  BY DEF IndexTypeOK, RowsTypeOK, WorkTypeOK, TaskTypeOK, ScriptTypeOK

\* The steps that change rows, or what scripts hold of them.
LEMMA RowSteps ==
  ASSUME IndexNext
  PROVE  \/ \E t \in Jobs, m \in Mails : IndexOne(t, m)
         \/ \E t \in Jobs : BackfillWrite(t) \/ ReindexWrite(t)
         \/ \E m \in Mails : Arrive(m) \/ IndexNew(m)
         \/ \E s \in Scripts : ScriptRead(s) \/ ScriptWrite(s)
         \/ Crash
         \/ UNCHANGED <<rowVars, scriptVars>>
<1>1. ASSUME NEW t \in Jobs, Request(t)
      PROVE  UNCHANGED <<rowVars, scriptVars>>
  BY <1>1 DEF Request, StartIndex, StartBackfill, StartReindex, StartVectorize, StartRegenerate,
    Submit, CancelRead, CancelWrite
<1>2. ASSUME NEW t \in Jobs, MarkRunning(t) \/ Begin(t) \/ IndexCancelled(t) \/ IndexEnd(t)
      PROVE  UNCHANGED <<rowVars, scriptVars>>
  BY <1>2 DEF MarkRunning, Begin, IndexBegin, BackfillBegin, ReindexBegin, VectorizeBegin,
    IndexCancelled, IndexEnd, Leave
<1>3. ASSUME NEW t \in Jobs,
             BackfillRound(t) \/ BackfillRead(t) \/ ReindexRead(t) \/ VectorizeEnd(t)
      PROVE  UNCHANGED <<rowVars, scriptVars>>
  BY <1>3 DEF BackfillRound, BackfillRead, ReindexRead, VectorizeEnd, Leave
<1> QED
  BY <1>1, <1>2, <1>3 DEF IndexNext, Execute

\* What an embedding may come to when a message is indexed.
LEMMA OutcomesAre == \A m \in Mails : Outcomes(m) \subseteq {"none", "pending", "completed",
"failed"}
  BY DEF Outcomes

\* The rows keep their types, and no message and no row of the index is ever removed.
LEMMA RowsKept ==
  ASSUME IndexInv, IndexNext
  PROVE  RowsTypeOK' /\ stored \subseteq stored' /\ indexed \subseteq indexed'
<1> USE DEF IndexInv, RowsTypeOK, WorkTypeOK
<1>0. RowsTypeOK /\ WorkTypeOK
  BY IndexTypeParts
<1>1. ASSUME NEW t \in Jobs, NEW m \in Mails, IndexOne(t, m)
      PROVE  RowsTypeOK' /\ stored \subseteq stored' /\ indexed \subseteq indexed'
  <2>1. m \in stored
    BY <1>1 DEF IndexOne, HeldRows
  <2>2. CASE UNCHANGED <<indexed, vector>>
    BY <1>0, <1>1, <2>2 DEF IndexOne
  <2>3. CASE indexed' = indexed \cup {m} /\ \E v \in Outcomes(m) : vector' = [vector EXCEPT ![m] = v]
    BY <1>0, <1>1, <2>1, <2>3, OutcomesAre DEF IndexOne
  <2> QED
    BY <1>1, <2>2, <2>3 DEF IndexOne
<1>2. ASSUME NEW t \in Jobs, BackfillWrite(t)
      PROVE  RowsTypeOK' /\ stored \subseteq stored' /\ indexed \subseteq indexed'
  <2>1. /\ UNCHANGED <<stored, indexing, indexed>> /\ page[t] \subseteq indexed
        /\ \E S \in SUBSET page[t] :
             vector' \in {vector, [m \in Mails |-> IF m \in S THEN "completed" ELSE vector[m]]}
    BY <1>2 DEF BackfillWrite, HeldRows
  <2> QED
    BY <1>0, <2>1
<1>3. ASSUME NEW t \in Jobs, ReindexWrite(t)
      PROVE  RowsTypeOK' /\ stored \subseteq stored' /\ indexed \subseteq indexed'
  <2>1. page[t] \subseteq stored
    BY DEF HeldRows
  <2>2. CASE UNCHANGED rowVars
    BY <1>0, <2>2 DEF rowVars
  <2>3. CASE ~ UNCHANGED rowVars
    <3>1. indexed' = indexed \cup page[t] /\ UNCHANGED <<stored, indexing>>
      BY <1>3, <2>3 DEF ReindexWrite
    <3>2. PICK S \in SUBSET page[t] :
            vector' = [m \in Mails |-> IF m \in S THEN "completed"
                                       ELSE IF m \in page[t] THEN "none" ELSE vector[m]]
      BY <1>3, <2>3 DEF ReindexWrite
    <3> QED
      BY <1>0, <2>1, <3>1, <3>2
  <2> QED
    BY <2>2, <2>3
<1>4. ASSUME NEW m \in Mails, Arrive(m) \/ IndexNew(m)
      PROVE  RowsTypeOK' /\ stored \subseteq stored' /\ indexed \subseteq indexed'
  BY <1>0, <1>4, OutcomesAre DEF Arrive, IndexNew
<1>5. ASSUME NEW s \in Scripts, ScriptWrite(s)
      PROVE  RowsTypeOK' /\ stored \subseteq stored' /\ indexed \subseteq indexed'
  <2>1. UNCHANGED <<stored, indexing, indexed>>
    BY <1>5 DEF ScriptWrite
  <2>2. CASE stale[s]
    BY <1>0, <1>5, <2>1, <2>2 DEF ScriptWrite
  <2>3. CASE ~ stale[s]
    <3>1. batch[s] \subseteq indexed
      BY <2>3 DEF BatchKnown
    <3>2. PICK S \in SUBSET batch[s] :
            vector' = [m \in Mails |-> IF m \in S THEN "completed"
                                       ELSE IF m \in batch[s] THEN Unmade(s, m) ELSE vector[m]]
      BY <1>5, <2>3 DEF ScriptWrite
    <3>3. \A m \in Mails : Unmade(s, m) \in {"none", "pending", "completed", "failed"}
      BY <1>0 DEF Unmade
    <3> QED
      BY <1>0, <2>1, <3>1, <3>2, <3>3
  <2> QED
    BY <2>2, <2>3
<1>6. ASSUME NEW s \in Scripts, ScriptRead(s)
      PROVE  RowsTypeOK' /\ stored \subseteq stored' /\ indexed \subseteq indexed'
  BY <1>0, <1>6 DEF ScriptRead, rowVars
<1>7. CASE Crash
  BY <1>0, <1>7 DEF Crash
<1>8. CASE UNCHANGED <<rowVars, scriptVars>>
  BY <1>0, <1>8 DEF rowVars
<1> QED
  BY <1>1, <1>2, <1>3, <1>4, <1>5, <1>6, <1>7, <1>8, RowSteps

\* A script that is to write its results holds what it has read, or knows that it does not:
\* whoever changes an embedding that is there marks it.
LEMMA BatchesKept ==
  ASSUME IndexInv, IndexNext
  PROVE  BatchKnown'
<1> USE DEF IndexInv
<1>0. RowsTypeOK
  BY IndexTypeParts
<1>1. ASSUME NEW t \in Jobs, NEW m \in Mails, IndexOne(t, m)
      PROVE  BatchKnown'
  BY <1>0, <1>1 DEF IndexOne, BatchKnown, scriptVars, RowsTypeOK
<1>2. ASSUME NEW t \in Jobs, BackfillWrite(t)
      PROVE  BatchKnown'
  BY <1>0, <1>2 DEF BackfillWrite, BatchKnown, scriptVars, Scripts, RowsTypeOK
<1>3. ASSUME NEW t \in Jobs, ReindexWrite(t)
      PROVE  BatchKnown'
  <2>1. CASE UNCHANGED <<rowVars, scriptVars>>
    BY <2>1 DEF BatchKnown, rowVars, scriptVars
  <2>2. CASE ~ UNCHANGED <<rowVars, scriptVars>>
    <3>1. /\ indexed' = indexed \cup page[t] /\ batch' = batch
          /\ Outdated({m \in page[t] : vector[m] # "none"})
      BY <1>3, <2>2 DEF ReindexWrite
    <3>2. \A m \in Mails \ page[t] : vector'[m] = vector[m]
      BY <1>3, <2>2 DEF ReindexWrite
    <3>3. ASSUME NEW s \in Scripts, ~ stale'[s], NEW m \in batch[s]
          PROVE  ~ stale[s] /\ m \notin {w \in page[t] : vector[w] # "none"}
      BY <3>1, <3>3 DEF Outdated
    <3>4. ASSUME NEW s \in Scripts, ~ stale'[s], NEW m \in batch[s]
          PROVE  m \in indexed' /\ vector'[m] = s
      <4>1. m \in indexed /\ vector[m] = s /\ s # "none" /\ m \in Mails
        BY <1>0, <3>3, <3>4 DEF BatchKnown, Scripts, RowsTypeOK
      <4>2. m \notin page[t]
        BY <3>3, <3>4, <4>1
      <4> QED
        BY <3>1, <3>2, <4>1, <4>2
    <3> QED
      BY <3>1, <3>4 DEF BatchKnown
  <2> QED
    BY <2>1, <2>2
<1>4. ASSUME NEW m \in Mails, Arrive(m) \/ IndexNew(m)
      PROVE  BatchKnown'
  BY <1>0, <1>4 DEF Arrive, IndexNew, BatchKnown, scriptVars, RowsTypeOK
<1>5. ASSUME NEW s \in Scripts, ScriptWrite(s) \/ ScriptRead(s)
      PROVE  BatchKnown'
  BY <1>0, <1>5, IndexTypeParts DEF ScriptWrite, ScriptRead, BatchKnown, rowVars, Scripts,
    RowsTypeOK, ScriptTypeOK
<1>6. CASE Crash
  BY <1>6 DEF Crash, BatchKnown, scriptVars
<1>7. CASE UNCHANGED <<rowVars, scriptVars>>
  BY <1>7 DEF BatchKnown, rowVars, scriptVars
<1> QED
  BY <1>1, <1>2, <1>3, <1>4, <1>5, <1>6, <1>7, RowSteps
\* What jobs hold, how far an index task is, and what a completed one has done.
LEMMA JobsKept ==
  ASSUME IndexInv, IndexNext
  PROVE  HeldRows' /\ IndexedSoFar' /\ CompletedIsIndexed'
<1>0. RowsTypeOK /\ WorkTypeOK /\ TaskTypeOK /\ stored \subseteq stored' /\ indexed \subseteq indexed'
  BY IndexTypeParts, RowsKept DEF IndexInv
<1>1. ASSUME NEW t \in Jobs, Request(t)
      PROVE  HeldRows' /\ IndexedSoFar' /\ CompletedIsIndexed'
  BY <1>0, <1>1 DEF Request, StartIndex, StartBackfill, StartReindex, StartVectorize,
    StartRegenerate,
    Submit, CancelRead, CancelWrite, HeldRows, IndexedSoFar, CompletedIsIndexed, IndexInv,
    Verdict, RowsTypeOK, WorkTypeOK, TaskTypeOK,
    Submit, Set, At, Stop, End, Leave, Failed, Missing, Advance,
    rowVars, jobVars, scriptVars, TaskKinds, JobKinds
<1>2. ASSUME NEW t \in Jobs, MarkRunning(t)
      PROVE  HeldRows' /\ IndexedSoFar' /\ CompletedIsIndexed'
  BY <1>0, <1>2 DEF MarkRunning, HeldRows, IndexedSoFar, CompletedIsIndexed, IndexInv, Verdict,
    RowsTypeOK, WorkTypeOK, TaskTypeOK,
    Submit, Set, At, Stop, End, Leave, Failed, Missing, Advance,
    rowVars, jobVars, scriptVars, TaskKinds, JobKinds
<1>3. ASSUME NEW t \in Jobs, IndexBegin(t)
      PROVE  HeldRows' /\ IndexedSoFar' /\ CompletedIsIndexed'
  BY <1>0, <1>3 DEF IndexBegin, HeldRows, IndexedSoFar, CompletedIsIndexed, IndexInv, Verdict,
    RowsTypeOK, WorkTypeOK, TaskTypeOK,
    Submit, Set, At, Stop, End, Leave, Failed, Missing, Advance,
    rowVars, jobVars, scriptVars, TaskKinds, JobKinds
<1>4. ASSUME NEW t \in Jobs, BackfillBegin(t) \/ VectorizeBegin(t)
      PROVE  HeldRows' /\ IndexedSoFar' /\ CompletedIsIndexed'
  BY <1>0, <1>4 DEF BackfillBegin, VectorizeBegin, HeldRows, IndexedSoFar, CompletedIsIndexed,
    IndexInv, Verdict, RowsTypeOK, WorkTypeOK, TaskTypeOK,
    Submit, Set, At, Stop, End, Leave, Failed, Missing, Advance,
    rowVars, jobVars, scriptVars, TaskKinds, JobKinds
<1>5. ASSUME NEW t \in Jobs, ReindexBegin(t)
      PROVE  HeldRows' /\ IndexedSoFar' /\ CompletedIsIndexed'
  BY <1>0, <1>5 DEF ReindexBegin, HeldRows, IndexedSoFar, CompletedIsIndexed, IndexInv,
    Verdict, RowsTypeOK, WorkTypeOK, TaskTypeOK,
    Submit, Set, At, Stop, End, Leave, Failed, Missing, Advance,
    rowVars, jobVars, scriptVars, TaskKinds, JobKinds
<1>6. ASSUME NEW t \in Jobs, NEW m \in Mails, IndexOne(t, m)
      PROVE  HeldRows' /\ IndexedSoFar' /\ CompletedIsIndexed'
  BY <1>0, <1>6 DEF IndexOne, HeldRows, IndexedSoFar, CompletedIsIndexed, IndexInv, Verdict,
    RowsTypeOK, WorkTypeOK, TaskTypeOK,
    Submit, Set, At, Stop, End, Leave, Failed, Missing, Advance,
    rowVars, jobVars, scriptVars, TaskKinds, JobKinds
<1>7. ASSUME NEW t \in Jobs, IndexCancelled(t) \/ IndexEnd(t) \/ VectorizeEnd(t)
      PROVE  HeldRows' /\ IndexedSoFar' /\ CompletedIsIndexed'
  BY <1>0, <1>7 DEF IndexCancelled, IndexEnd, VectorizeEnd, HeldRows, IndexedSoFar,
    CompletedIsIndexed, IndexInv, Verdict, RowsTypeOK, WorkTypeOK, TaskTypeOK,
    Submit, Set, At, Stop, End, Leave, Failed, Missing, Advance,
    rowVars, jobVars, scriptVars, TaskKinds, JobKinds
<1>8. ASSUME NEW t \in Jobs, BackfillRound(t)
      PROVE  HeldRows' /\ IndexedSoFar' /\ CompletedIsIndexed'
  BY <1>0, <1>8 DEF BackfillRound, HeldRows, IndexedSoFar, CompletedIsIndexed, IndexInv,
    Verdict, RowsTypeOK, WorkTypeOK, TaskTypeOK,
    Submit, Set, At, Stop, End, Leave, Failed, Missing, Advance,
    rowVars, jobVars, scriptVars, TaskKinds, JobKinds
<1>9. ASSUME NEW t \in Jobs, BackfillRead(t)
      PROVE  HeldRows' /\ IndexedSoFar' /\ CompletedIsIndexed'
  BY <1>0, <1>9 DEF BackfillRead, HeldRows, IndexedSoFar, CompletedIsIndexed, IndexInv,
    Verdict, RowsTypeOK, WorkTypeOK, TaskTypeOK,
    Submit, Set, At, Stop, End, Leave, Failed, Missing, Advance,
    rowVars, jobVars, scriptVars, TaskKinds, JobKinds
<1>10. ASSUME NEW t \in Jobs, BackfillWrite(t)
      PROVE  HeldRows' /\ IndexedSoFar' /\ CompletedIsIndexed'
  BY <1>0, <1>10 DEF BackfillWrite, HeldRows, IndexedSoFar, CompletedIsIndexed, IndexInv,
    Verdict, RowsTypeOK, WorkTypeOK, TaskTypeOK,
    Submit, Set, At, Stop, End, Leave, Failed, Missing, Advance,
    rowVars, jobVars, scriptVars, TaskKinds, JobKinds
<1>11. ASSUME NEW t \in Jobs, ReindexRead(t)
      PROVE  HeldRows' /\ IndexedSoFar' /\ CompletedIsIndexed'
  BY <1>0, <1>11 DEF ReindexRead, HeldRows, IndexedSoFar, CompletedIsIndexed, IndexInv,
    Verdict, RowsTypeOK, WorkTypeOK, TaskTypeOK,
    Submit, Set, At, Stop, End, Leave, Failed, Missing, Advance,
    rowVars, jobVars, scriptVars, TaskKinds, JobKinds
<1>12. ASSUME NEW t \in Jobs, ReindexWrite(t)
      PROVE  HeldRows' /\ IndexedSoFar' /\ CompletedIsIndexed'
  BY <1>0, <1>12 DEF ReindexWrite, HeldRows, IndexedSoFar, CompletedIsIndexed, IndexInv,
    Verdict, RowsTypeOK, WorkTypeOK, TaskTypeOK,
    Submit, Set, At, Stop, End, Leave, Failed, Missing, Advance,
    rowVars, jobVars, scriptVars, TaskKinds, JobKinds
<1>13. ASSUME NEW m \in Mails, Arrive(m) \/ IndexNew(m)
      PROVE  HeldRows' /\ IndexedSoFar' /\ CompletedIsIndexed'
  BY <1>0, <1>13 DEF Arrive, IndexNew, HeldRows, IndexedSoFar, CompletedIsIndexed, IndexInv,
    Verdict, RowsTypeOK, WorkTypeOK, TaskTypeOK,
    Submit, Set, At, Stop, End, Leave, Failed, Missing, Advance,
    rowVars, jobVars, scriptVars, TaskKinds, JobKinds
<1>14. ASSUME NEW s \in Scripts, ScriptRead(s) \/ ScriptWrite(s)
      PROVE  HeldRows' /\ IndexedSoFar' /\ CompletedIsIndexed'
  BY <1>0, <1>14 DEF ScriptRead, ScriptWrite, HeldRows, IndexedSoFar, CompletedIsIndexed,
    IndexInv, Verdict, RowsTypeOK, WorkTypeOK, TaskTypeOK,
    Submit, Set, At, Stop, End, Leave, Failed, Missing, Advance,
    rowVars, jobVars, scriptVars, TaskKinds, JobKinds
<1>15. CASE Crash
  BY <1>0, <1>15 DEF Crash, HeldRows, IndexedSoFar, CompletedIsIndexed, IndexInv, Verdict,
    RowsTypeOK, WorkTypeOK, TaskTypeOK,
    Submit, Set, At, Stop, End, Leave, Failed, Missing, Advance,
    rowVars, jobVars, scriptVars, TaskKinds, JobKinds
<1> QED
  BY <1>1, <1>2, <1>3, <1>4, <1>5, <1>6, <1>7, <1>8, <1>9, <1>10, <1>11, <1>12,
    <1>13, <1>14, <1>15 DEF IndexNext, Execute, Begin

\* The types of tasks,
LEMMA TasksKept ==
  ASSUME IndexInv, IndexNext
  PROVE  TaskTypeOK'
<1>0. RowsTypeOK /\ WorkTypeOK /\ TaskTypeOK /\ stored \subseteq stored' /\ indexed \subseteq indexed'
  BY IndexTypeParts, RowsKept DEF IndexInv
<1>1. ASSUME NEW t \in Jobs, Request(t)
      PROVE  TaskTypeOK'
  BY <1>0, <1>1 DEF Request, StartIndex, StartBackfill, StartReindex, StartVectorize,
    StartRegenerate,
    Submit, CancelRead, CancelWrite, Verdict, RowsTypeOK, WorkTypeOK, TaskTypeOK, Submit, Set,
    At, Stop, End, Leave, Failed, Missing, Advance,
    rowVars, jobVars, scriptVars, TaskKinds, JobKinds
<1>2. ASSUME NEW t \in Jobs, MarkRunning(t)
      PROVE  TaskTypeOK'
  BY <1>0, <1>2 DEF MarkRunning, Verdict, RowsTypeOK, WorkTypeOK, TaskTypeOK, Submit, Set, At,
    Stop, End, Leave, Failed, Missing, Advance,
    rowVars, jobVars, scriptVars, TaskKinds, JobKinds
<1>3. ASSUME NEW t \in Jobs, IndexBegin(t)
      PROVE  TaskTypeOK'
  BY <1>0, <1>3 DEF IndexBegin, Verdict, RowsTypeOK, WorkTypeOK, TaskTypeOK, Submit, Set, At,
    Stop, End, Leave, Failed, Missing, Advance,
    rowVars, jobVars, scriptVars, TaskKinds, JobKinds
<1>4. ASSUME NEW t \in Jobs, BackfillBegin(t) \/ VectorizeBegin(t)
      PROVE  TaskTypeOK'
  BY <1>0, <1>4 DEF BackfillBegin, VectorizeBegin, Verdict, RowsTypeOK, WorkTypeOK, TaskTypeOK,
    Submit, Set, At, Stop, End, Leave, Failed, Missing, Advance,
    rowVars, jobVars, scriptVars, TaskKinds, JobKinds
<1>5. ASSUME NEW t \in Jobs, ReindexBegin(t)
      PROVE  TaskTypeOK'
  BY <1>0, <1>5 DEF ReindexBegin, Verdict, RowsTypeOK, WorkTypeOK, TaskTypeOK, Submit, Set, At,
    Stop, End, Leave, Failed, Missing, Advance,
    rowVars, jobVars, scriptVars, TaskKinds, JobKinds
<1>6. ASSUME NEW t \in Jobs, NEW m \in Mails, IndexOne(t, m)
      PROVE  TaskTypeOK'
  BY <1>0, <1>6 DEF IndexOne, Verdict, RowsTypeOK, WorkTypeOK, TaskTypeOK, Submit, Set, At,
    Stop, End, Leave, Failed, Missing, Advance,
    rowVars, jobVars, scriptVars, TaskKinds, JobKinds
<1>7. ASSUME NEW t \in Jobs, IndexCancelled(t) \/ IndexEnd(t) \/ VectorizeEnd(t)
      PROVE  TaskTypeOK'
  BY <1>0, <1>7 DEF IndexCancelled, IndexEnd, VectorizeEnd, Verdict, RowsTypeOK, WorkTypeOK,
    TaskTypeOK, Submit, Set, At, Stop, End, Leave, Failed, Missing, Advance,
    rowVars, jobVars, scriptVars, TaskKinds, JobKinds
<1>8. ASSUME NEW t \in Jobs, BackfillRound(t)
      PROVE  TaskTypeOK'
  BY <1>0, <1>8 DEF BackfillRound, Verdict, RowsTypeOK, WorkTypeOK, TaskTypeOK, Submit, Set,
    At, Stop, End, Leave, Failed, Missing, Advance,
    rowVars, jobVars, scriptVars, TaskKinds, JobKinds
<1>9. ASSUME NEW t \in Jobs, BackfillRead(t)
      PROVE  TaskTypeOK'
  BY <1>0, <1>9 DEF BackfillRead, Verdict, RowsTypeOK, WorkTypeOK, TaskTypeOK, Submit, Set, At,
    Stop, End, Leave, Failed, Missing, Advance,
    rowVars, jobVars, scriptVars, TaskKinds, JobKinds
<1>10. ASSUME NEW t \in Jobs, BackfillWrite(t)
      PROVE  TaskTypeOK'
  BY <1>0, <1>10 DEF BackfillWrite, Verdict, RowsTypeOK, WorkTypeOK, TaskTypeOK, Submit, Set,
    At, Stop, End, Leave, Failed, Missing, Advance,
    rowVars, jobVars, scriptVars, TaskKinds, JobKinds
<1>11. ASSUME NEW t \in Jobs, ReindexRead(t)
      PROVE  TaskTypeOK'
  BY <1>0, <1>11 DEF ReindexRead, Verdict, RowsTypeOK, WorkTypeOK, TaskTypeOK, Submit, Set, At,
    Stop, End, Leave, Failed, Missing, Advance,
    rowVars, jobVars, scriptVars, TaskKinds, JobKinds
<1>12. ASSUME NEW t \in Jobs, ReindexWrite(t)
      PROVE  TaskTypeOK'
  BY <1>0, <1>12 DEF ReindexWrite, Verdict, RowsTypeOK, WorkTypeOK, TaskTypeOK, Submit, Set,
    At, Stop, End, Leave, Failed, Missing, Advance,
    rowVars, jobVars, scriptVars, TaskKinds, JobKinds
<1>13. ASSUME NEW m \in Mails, Arrive(m) \/ IndexNew(m)
      PROVE  TaskTypeOK'
  BY <1>0, <1>13 DEF Arrive, IndexNew, Verdict, RowsTypeOK, WorkTypeOK, TaskTypeOK, Submit,
    Set, At, Stop, End, Leave, Failed, Missing, Advance,
    rowVars, jobVars, scriptVars, TaskKinds, JobKinds
<1>14. ASSUME NEW s \in Scripts, ScriptRead(s) \/ ScriptWrite(s)
      PROVE  TaskTypeOK'
  BY <1>0, <1>14 DEF ScriptRead, ScriptWrite, Verdict, RowsTypeOK, WorkTypeOK, TaskTypeOK,
    Submit, Set, At, Stop, End, Leave, Failed, Missing, Advance,
    rowVars, jobVars, scriptVars, TaskKinds, JobKinds
<1>15. CASE Crash
  BY <1>0, <1>15 DEF Crash, Verdict, RowsTypeOK, WorkTypeOK, TaskTypeOK, Submit, Set, At, Stop,
    End, Leave, Failed, Missing, Advance,
    rowVars, jobVars, scriptVars, TaskKinds, JobKinds
<1> QED
  BY <1>1, <1>2, <1>3, <1>4, <1>5, <1>6, <1>7, <1>8, <1>9, <1>10, <1>11, <1>12,
    <1>13, <1>14, <1>15 DEF IndexNext, Execute, Begin

\* of what jobs have in hand, and how much that is,
LEMMA WorkKept ==
  ASSUME IndexInv, IndexNext
  PROVE  WorkTypeOK' /\ Counted'
<1>0. RowsTypeOK /\ WorkTypeOK /\ TaskTypeOK /\ Counted
  BY IndexTypeParts DEF IndexInv
<1>1. ASSUME NEW t \in Jobs, Request(t)
      PROVE  WorkTypeOK' /\ Counted'
  <2>1. CASE UNCHANGED <<jobVars, kind>>
    BY <1>0, <2>1 DEF jobVars, WorkTypeOK, Counted
  <2>2. CASE \E k \in JobKinds : Submit(t, k)
    BY <1>0, <2>2, GoesOn DEF Submit
  <2>3. CASE StartRegenerate(t)
    BY <1>0, <2>3, GoesOn DEF StartRegenerate, JobKinds, TaskTypeOK
  <2> QED
    BY <1>1, <2>1, <2>2, <2>3 DEF Request, StartIndex, StartBackfill, StartReindex,
      StartVectorize,
      CancelRead, CancelWrite, jobVars, JobKinds, TaskKinds
<1>2. ASSUME NEW t \in Jobs, MarkRunning(t)
      PROVE  WorkTypeOK' /\ Counted'
  BY <1>0, <1>2, StopKeeps, GoesOn, MailsCounted DEF IndexInv, Counted, WorkTypeOK,
    MarkRunning, Submit, Set, End, Leave, Failed, Missing,
    rowVars, jobVars, scriptVars, TaskKinds, JobKinds
<1>3. ASSUME NEW t \in Jobs, IndexBegin(t)
      PROVE  WorkTypeOK' /\ Counted'
  <2>1. CASE Stop({t}, "over") /\ kind' = kind
    BY <1>0, <2>1, StopKeeps
  <2>2. CASE /\ todo' = [todo EXCEPT ![t] = stored] /\ At(t, "work")
             /\ UNCHANGED <<kind, done, broken, offset, page>>
    <3>1. done[t] = 0 /\ stored \in SUBSET Mails
      BY <1>0, <1>3 DEF IndexBegin, IndexInv, IndexedSoFar, RowsTypeOK
    <3>2. WorkTypeOK'
      BY <1>0, <2>2, <3>1 DEF WorkTypeOK, At
    <3>3. Counted'
      BY <1>0, <2>2, <3>1, MailsCounted DEF WorkTypeOK, Counted, At
    <3> QED
      BY <3>2, <3>3
  <2> QED
    BY <1>3, <2>1, <2>2 DEF IndexBegin, Leave, End
<1>4. ASSUME NEW t \in Jobs, BackfillBegin(t) \/ VectorizeBegin(t)
      PROVE  WorkTypeOK' /\ Counted'
  BY <1>0, <1>4, StopKeeps, GoesOn, MailsCounted DEF IndexInv, Counted, WorkTypeOK,
    BackfillBegin, VectorizeBegin, Submit, Set, End, Leave, Failed, Missing,
    rowVars, jobVars, scriptVars, TaskKinds, JobKinds
<1>5. ASSUME NEW t \in Jobs, ReindexBegin(t)
      PROVE  WorkTypeOK' /\ Counted'
  <2>1. CASE Stop({t}, "over") /\ kind' = kind
    BY <1>0, <2>1, StopKeeps
  <2>2. CASE /\ \E S \in SUBSET stored : todo' = [todo EXCEPT ![t] = S]
             /\ At(t, "page") /\ UNCHANGED <<kind, done, broken, offset, page>>
    <3>1. done[t] = 0 /\ stored \in SUBSET Mails
      BY <1>0, <1>5 DEF ReindexBegin, IndexInv, IndexedSoFar, RowsTypeOK
    <3>2. PICK S \in SUBSET Mails : todo' = [todo EXCEPT ![t] = S]
      BY <2>2, <3>1
    <3>3. WorkTypeOK'
      BY <1>0, <2>2, <3>2 DEF WorkTypeOK, At
    <3>4. Counted'
      BY <1>0, <2>2, <3>1, <3>2, MailsCounted DEF WorkTypeOK, Counted, At
    <3> QED
      BY <3>3, <3>4
  <2> QED
    BY <1>5, <2>1, <2>2 DEF ReindexBegin, Failed, End
<1>6. ASSUME NEW t \in Jobs, NEW m \in Mails, IndexOne(t, m)
      PROVE  WorkTypeOK' /\ Counted'
  <2>1. /\ todo' = [todo EXCEPT ![t] = @ \ {m}] /\ done' = [done EXCEPT ![t] = @ + 1]
        /\ UNCHANGED <<kind, at, offset, page>> /\ m \in todo[t]
        /\ broken' \in {broken, [broken EXCEPT ![t] = @ \/ m \in indexed]}
    BY <1>6 DEF IndexOne
  <2>2. /\ todo[t] \in SUBSET Mails /\ todo[t] \ {m} \in SUBSET Mails
        /\ done[t] \in Nat /\ done[t] + Cardinality(todo[t]) <= Cardinality(Mails)
    BY <1>0, MailsCounted DEF WorkTypeOK, Counted
  <2>3. /\ Cardinality(todo[t]) \in Nat /\ Cardinality(todo[t] \ {m}) \in Nat
        /\ Cardinality(todo[t] \ {m}) = Cardinality(todo[t]) - 1
    BY <2>1, <2>2, MailsCounted
  <2>4. done[t] + 1 \in 0..Cardinality(Mails)
    BY <2>2, <2>3, MailsCounted
  <2>5. broken' \in [Jobs -> BOOLEAN]
    BY <1>0, <2>1 DEF WorkTypeOK
  <2>6. WorkTypeOK'
    BY <1>0, <2>1, <2>2, <2>4, <2>5 DEF WorkTypeOK
  <2>7. Counted'
    BY <1>0, <2>1, <2>2, <2>3, MailsCounted DEF WorkTypeOK, Counted
  <2> QED
    BY <2>6, <2>7
<1>7. ASSUME NEW t \in Jobs, IndexCancelled(t) \/ IndexEnd(t) \/ VectorizeEnd(t)
      PROVE  WorkTypeOK' /\ Counted'
  BY <1>0, <1>7, StopKeeps, GoesOn, MailsCounted DEF IndexInv, Counted, WorkTypeOK,
    IndexCancelled, IndexEnd, VectorizeEnd, Submit, Set, End, Leave, Failed, Missing,
    rowVars, jobVars, scriptVars, TaskKinds, JobKinds
<1>8. ASSUME NEW t \in Jobs, BackfillRound(t)
      PROVE  WorkTypeOK' /\ Counted'
  BY <1>0, <1>8, StopKeeps, GoesOn, MailsCounted DEF IndexInv, Counted, WorkTypeOK,
    BackfillRound, Submit, Set, End, Leave, Failed, Missing,
    rowVars, jobVars, scriptVars, TaskKinds, JobKinds
<1>9. ASSUME NEW t \in Jobs, BackfillRead(t)
      PROVE  WorkTypeOK' /\ Counted'
  <2>1. CASE Stop({t}, "over") /\ kind' = kind
    BY <1>0, <2>1, StopKeeps
  <2>2. CASE /\ Cardinality(Missing) > offset[t]
             /\ \E P \in SUBSET Missing : page' = [page EXCEPT ![t] = P]
             /\ At(t, "embed") /\ UNCHANGED <<kind, todo, done, broken, offset>>
    <3>1. Missing \in SUBSET Mails
      BY <1>0 DEF Missing, RowsTypeOK
    <3>2. PICK P \in SUBSET Mails : page' = [page EXCEPT ![t] = P]
      BY <2>2, <3>1
    <3>3. offset[t] \in Nat /\ offset[t] <= Cardinality(Mails)
      BY <1>0, <2>2, <3>1, MailsCounted DEF WorkTypeOK
    <3>4. WorkTypeOK'
      BY <1>0, <2>2, <3>2 DEF WorkTypeOK, At
    <3>5. Counted'
      BY <1>0, <2>2, <3>3 DEF WorkTypeOK, Counted, At
    <3> QED
      BY <3>4, <3>5
  <2>3. offset[t] \in Nat /\ Cardinality(Missing) \in Nat
    BY <1>0, MailsCounted DEF WorkTypeOK, Missing, RowsTypeOK
  <2> QED
    BY <1>9, <2>1, <2>2, <2>3 DEF BackfillRead, End
<1>10. ASSUME NEW t \in Jobs, BackfillWrite(t)
      PROVE  WorkTypeOK' /\ Counted'
  <2>1. CASE Stop({t}, "over") /\ kind' = kind
    BY <1>0, <2>1, StopKeeps
  <2>2. CASE /\ offset' = [offset EXCEPT ![t] = Advance(t)]
             /\ At(t, "page") /\ UNCHANGED <<kind, todo, done, broken, page>>
    <3>1. offset[t] \in Nat /\ offset[t] <= Cardinality(Mails)
      BY <1>0, <1>10 DEF BackfillWrite, Counted, WorkTypeOK
    <3>2. Advance(t) \in 0..Cardinality(Mails) + PageSize
      BY <3>1, MailsCounted DEF Advance
    <3>3. WorkTypeOK'
      BY <1>0, <2>2, <3>2 DEF WorkTypeOK, At
    <3>4. Counted'
      BY <1>0, <2>2 DEF WorkTypeOK, Counted, At
    <3> QED
      BY <3>3, <3>4
  <2> QED
    BY <1>10, <2>1, <2>2 DEF BackfillWrite, End
<1>11. ASSUME NEW t \in Jobs, ReindexRead(t)
      PROVE  WorkTypeOK' /\ Counted'
  <2>1. CASE Stop({t}, "over") /\ kind' = kind
    BY <1>0, <2>1, StopKeeps
  <2>2. CASE /\ \E P \in SUBSET todo[t] : /\ page' = [page EXCEPT ![t] = P]
                                          /\ todo' = [todo EXCEPT ![t] = @ \ P]
             /\ At(t, "embed") /\ UNCHANGED <<kind, done, broken, offset>>
    <3>1. PICK P \in SUBSET todo[t] : /\ page' = [page EXCEPT ![t] = P]
                                      /\ todo' = [todo EXCEPT ![t] = @ \ P]
      BY <2>2
    <3>2. todo[t] \in SUBSET Mails /\ todo[t] \ P \in SUBSET todo[t] /\ P \in SUBSET Mails
      BY <1>0 DEF WorkTypeOK
    <3>3. /\ Cardinality(todo[t] \ P) <= Cardinality(todo[t])
          /\ Cardinality(todo[t] \ P) \in Nat /\ Cardinality(todo[t]) \in Nat
      BY <3>2, MailsCounted
    <3>4. WorkTypeOK'
      BY <1>0, <2>2, <3>1, <3>2 DEF WorkTypeOK, At
    <3>5. kind[t] # "backfill"
      BY <1>11 DEF ReindexRead
    <3>6. Counted'
      BY <1>0, <2>2, <3>1, <3>3, <3>5, MailsCounted DEF WorkTypeOK, Counted, At
    <3> QED
      BY <3>4, <3>6
  <2> QED
    BY <1>11, <2>1, <2>2 DEF ReindexRead, Failed, End
<1>12. ASSUME NEW t \in Jobs, ReindexWrite(t)
      PROVE  WorkTypeOK' /\ Counted'
  BY <1>0, <1>12, StopKeeps, GoesOn, MailsCounted DEF IndexInv, Counted, WorkTypeOK,
    ReindexWrite, Submit, Set, End, Leave, Failed, Missing,
    rowVars, jobVars, scriptVars, TaskKinds, JobKinds
<1>13. ASSUME NEW m \in Mails, Arrive(m) \/ IndexNew(m)
      PROVE  WorkTypeOK' /\ Counted'
  BY <1>0, <1>13, StopKeeps, GoesOn, MailsCounted DEF IndexInv, Counted, WorkTypeOK, Arrive,
    IndexNew, Submit, Set, End, Leave, Failed, Missing,
    rowVars, jobVars, scriptVars, TaskKinds, JobKinds
<1>14. ASSUME NEW s \in Scripts, ScriptRead(s) \/ ScriptWrite(s)
      PROVE  WorkTypeOK' /\ Counted'
  BY <1>0, <1>14, StopKeeps, GoesOn, MailsCounted DEF IndexInv, Counted, WorkTypeOK,
    ScriptRead, ScriptWrite, Submit, Set, End, Leave, Failed, Missing,
    rowVars, jobVars, scriptVars, TaskKinds, JobKinds
<1>15. CASE Crash
  BY <1>0, <1>15, StopKeeps, GoesOn, MailsCounted DEF IndexInv, Counted, WorkTypeOK, Crash,
    Submit, Set, End, Leave, Failed, Missing,
    rowVars, jobVars, scriptVars, TaskKinds, JobKinds
<1> QED
  BY <1>1, <1>2, <1>3, <1>4, <1>5, <1>6, <1>7, <1>8, <1>9, <1>10, <1>11, <1>12,
    <1>13, <1>14, <1>15 DEF IndexNext, Execute, Begin

\* and of what scripts hold.
LEMMA ScriptsKept ==
  ASSUME IndexInv, IndexNext
  PROVE  ScriptTypeOK'
<1> USE DEF IndexInv, ScriptTypeOK
<1>0. RowsTypeOK /\ ScriptTypeOK
  BY IndexTypeParts
<1>1. ASSUME NEW t \in Jobs, ReindexWrite(t)
      PROVE  ScriptTypeOK'
  <2>1. /\ batch' = batch
        /\ stale' = stale \/ Outdated({m \in page[t] : vector[m] # "none"})
    BY <1>1 DEF ReindexWrite, scriptVars
  <2>2. stale' \in [Scripts -> BOOLEAN]
    BY <1>0, <2>1 DEF Outdated
  <2> QED
    BY <1>0, <2>1, <2>2
<1>2. ASSUME NEW s \in Scripts, ScriptRead(s)
      PROVE  ScriptTypeOK'
  <2>1. {m \in indexed : vector[m] = s} \in SUBSET Mails
    BY <1>0 DEF RowsTypeOK
  <2> QED
    BY <1>0, <1>2, <2>1 DEF ScriptRead
<1>3. ASSUME NEW s \in Scripts, ScriptWrite(s)
      PROVE  ScriptTypeOK'
  BY <1>0, <1>3 DEF ScriptWrite
<1>4. CASE UNCHANGED scriptVars
  BY <1>0, <1>4 DEF scriptVars
<1>5. \/ \E t \in Jobs : ReindexWrite(t)
      \/ \E s \in Scripts : ScriptRead(s) \/ ScriptWrite(s)
      \/ UNCHANGED scriptVars
  BY RowSteps DEF IndexOne, BackfillWrite, Arrive, IndexNew, Crash
<1> QED
  BY <1>1, <1>2, <1>3, <1>4, <1>5

\* The invariant holds at first, and every step keeps it.
LEMMA IndexStarts == IndexInit => IndexInv
<1> SUFFICES ASSUME IndexInit PROVE IndexInv
  OBVIOUS
<1>1. RowsTypeOK /\ TaskTypeOK /\ ScriptTypeOK
  BY DEF IndexInit, RowsTypeOK, TaskTypeOK, ScriptTypeOK
<1>2. WorkTypeOK /\ Counted
  BY MailsCounted DEF IndexInit, WorkTypeOK, Counted
<1>3. IndexedSoFar /\ BatchKnown /\ HeldRows /\ CompletedIsIndexed
  BY DEF IndexInit, IndexedSoFar, BatchKnown, HeldRows, CompletedIsIndexed
<1> QED
  BY <1>1, <1>2, <1>3, IndexTypeParts DEF IndexInv

\* Every step keeps the invariant.
LEMMA IndexKept == IndexInv /\ [IndexNext]_indexVars => IndexInv'
<1> SUFFICES ASSUME IndexInv, [IndexNext]_indexVars PROVE IndexInv'
  OBVIOUS
<1>1. CASE IndexNext
  <2>1. IndexTypeOK'
    BY <1>1, RowsKept, WorkKept, TasksKept, ScriptsKept
    DEF IndexTypeOK, RowsTypeOK, WorkTypeOK, TaskTypeOK, ScriptTypeOK
  <2> QED
    BY <1>1, <2>1, WorkKept, BatchesKept, JobsKept DEF IndexInv
<1>2. CASE UNCHANGED indexVars
  BY <1>2 DEF IndexInv, IndexTypeOK, IndexedSoFar, BatchKnown, Counted, HeldRows,
    CompletedIsIndexed,
    indexVars, rowVars, jobVars, scriptVars
<1> QED
  BY <1>1, <1>2

\* So it holds always.
LEMMA IndexInvariant == IndexSpec => []IndexInv
  BY IndexStarts, IndexKept, PTL DEF IndexSpec

\* A session whose index task is reported completed is indexed: each message the task set out
\* with has its row, whichever other jobs have indexed messages meanwhile (execute_index_session).
THEOREM TasksIndex == IndexSpec => []CompletedIsIndexed
<1>1. IndexInv => CompletedIsIndexed
  BY DEF IndexInv
<1> QED
  BY <1>1, IndexInvariant, PTL

\* Of the steps, only the write of regenerate takes an embedding away.
LEMMA StepKeepsVectors ==
  ASSUME IndexInv, IndexNext
  PROVE  \A m \in Mails : vector[m] = "completed" /\ vector'[m] # "completed" =>
           \E t \in Jobs : kind[t] = "regenerate" /\ at[t] = "embed" /\ m \in page[t]
<1> DEFINE Stays == \A m \in Mails : vector[m] = "completed" => vector'[m] = "completed"
<1>0. RowsTypeOK
  BY IndexTypeParts DEF IndexInv
<1>1. ASSUME NEW t \in Jobs, NEW m \in Mails, IndexOne(t, m)
      PROVE  Stays
  BY <1>0, <1>1 DEF IndexOne, RowsTypeOK
<1>2. ASSUME NEW t \in Jobs, BackfillWrite(t)
      PROVE  Stays
  BY <1>0, <1>2 DEF BackfillWrite, RowsTypeOK
<1>3. ASSUME NEW t \in Jobs, ReindexWrite(t), NEW m \in Mails,
             vector[m] = "completed", vector'[m] # "completed"
      PROVE  kind[t] = "regenerate" /\ at[t] = "embed" /\ m \in page[t]
  BY <1>0, <1>3 DEF ReindexWrite, RowsTypeOK, rowVars
<1>4. ASSUME NEW m \in Mails, Arrive(m) \/ IndexNew(m)
      PROVE  Stays
  BY <1>0, <1>4 DEF Arrive, IndexNew, RowsTypeOK
<1>5. ASSUME NEW s \in Scripts, ScriptWrite(s)
      PROVE  Stays
  BY <1>0, <1>5 DEF ScriptWrite, Unmade, RowsTypeOK, IndexInv, BatchKnown, Scripts
<1>6. ASSUME UNCHANGED vector
      PROVE  Stays
  BY <1>6
<1> HIDE DEF Stays
<1>7. Stays \/ \E t \in Jobs : ReindexWrite(t)
  BY <1>1, <1>2, <1>4, <1>5, <1>6, RowSteps DEF Crash, ScriptRead, rowVars
<1> QED
  BY <1>3, <1>7 DEF Stays

\* An embedding, once made, stays: no job and no script writes over it what it read before
\* (backfill_embeddings, reindex and the scripts), only regenerate replaces it.
THEOREM VectorsAreKept == IndexSpec => VectorsStay
<1>1. IndexInv /\ [IndexNext]_indexVars =>
        [\A m \in Mails : vector[m] = "completed" /\ vector'[m] # "completed" =>
           \E t \in Jobs : kind[t] = "regenerate" /\ at[t] = "embed" /\ m \in page[t]]_indexVars
  BY StepKeepsVectors
<1> QED
  BY <1>1, IndexInvariant, PTL DEF IndexSpec, VectorsStay

\* The types of the background indexing hold always.
THEOREM IndexTypeCorrect == IndexSpec => []IndexTypeOK
<1>1. IndexInv => IndexTypeOK
  BY DEF IndexInv
<1> QED
  BY <1>1, IndexInvariant, PTL

-----------------------------------------------------------------------------
(* Terminals.                                                              *)

USE TerminalAssumption

\* The types by what they are about: a connection,
Where == {"away", "clear", "check", "make", "write", "attach", "drop", "attached", "end"}
ConnType == [step : Where, row : BOOLEAN, saw : Shells \cup {NoShell},
             target : Shells \cup {NoShell}, retry : BOOLEAN, pty : BOOLEAN]
\* and the rest.
BoxTypeOK ==
  /\ up \in {"running", "paused", "stopped", "gone"}
  /\ shell \in Shells \cup {NoShell} /\ lives \subseteq Shells /\ attached \subseteq lives
  /\ pausing \in [step : {"no", "delete", "pause"}, saw : Shells \cup {NoShell}]
  /\ failed \subseteq lives /\ overwritten \subseteq lives /\ single \in BOOLEAN

\* No shell outlives its sandbox.
NoneOutlives == up \in {"stopped", "gone"} => lives = {}
\* What a connection has read is of its own row; it makes a shell when it knows of none.
Unread(k) ==
  /\ ~ k.row => k.saw = NoShell /\ k.target = NoShell
  /\ k.step \in {"make", "write"} => k.saw = NoShell
\* A pause that is to take a name from the row has deleted the shell, or failed to.
PauseDeleted == pausing.step = "pause" => pausing.saw \notin lives \ failed
\* The first half of NoShellLost.
AllNamed ==
  \A p \in lives \ (failed \cup overwritten) :
    p = shell \/ \E c \in Terminals : conn[c].step = "write" /\ conn[c].target = p
\* The row names what the one connection, or the pause, has read, or nothing.
Apart ==
  /\ overwritten = {}
  /\ \A c, d \in Terminals : c = d \/ conn[c].step = "away" \/ conn[d].step = "away"
  /\ \A c \in Terminals : conn[c].step # "away" /\ conn[c].row => shell \in {conn[c].saw, NoShell}
  /\ pausing.step # "no" =>
       shell \in {pausing.saw, NoShell} /\ \A c \in Terminals : conn[c].step \in {"away", "attached"}

\* The inductive invariant.
TerminalInv ==
  /\ TerminalTypeOK /\ NoneOutlives /\ PauseDeleted /\ AllNamed
  /\ \A c \in Terminals : Unread(conn[c])
  /\ single => Apart

\* These are all the types there are.
LEMMA TerminalTypeParts == TerminalTypeOK <=> BoxTypeOK /\ conn \in [Terminals -> ConnType]
  BY DEF TerminalTypeOK, BoxTypeOK, ConnType, Where

\* The places a connection goes to.
LEMMA Places ==
  "attach" \in Where /\ "drop" \in Where /\ "attached" \in Where /\ "end" \in Where /\ "write" \in Where
  /\ NoShell \in Shells \cup {NoShell}
  BY DEF Where

\* A connection that is away.
LEMMA AwayIsTyped == Away \in ConnType /\ Away.step = "away" /\ Unread(Away)
  BY DEF Away, ConnType, Where, Unread

\* A connection that only goes on.
LEMMA Stepped ==
  ASSUME NEW k \in ConnType, NEW w \in Where
  PROVE  /\ [k EXCEPT !.step = w] \in ConnType
         /\ [k EXCEPT !.step = w].step = w /\ [k EXCEPT !.step = w].row = k.row
         /\ [k EXCEPT !.step = w].saw = k.saw /\ [k EXCEPT !.step = w].target = k.target
  BY DEF ConnType

\* What a connection knows after _ensure_terminal_session, of a row that names shell p,
LEMMA Ensured ==
  ASSUME NEW k \in ConnType, NEW p \in Shells \cup {NoShell}, NEW reset
  PROVE  /\ Ensure(k, p, reset) \in ConnType
         /\ Ensure(k, p, reset).row = k.row /\ Ensure(k, p, reset).saw = p
         /\ Ensure(k, p, reset).target = NoShell
         /\ p = NoShell => Ensure(k, p, reset).step = "make"
         /\ p # NoShell => Ensure(k, p, reset).step \in {"clear", "check"}
<1>1. PICK w \in Where : /\ w = (IF p = NoShell THEN "make" ELSE IF reset THEN "clear" ELSE "check")
                         /\ (p = NoShell => w = "make")
                         /\ p # NoShell => w \in {"clear", "check"}
  BY DEF Where
<1>2. Ensure(k, p, reset) = [k EXCEPT !.saw = p, !.target = NoShell, !.step = w]
  BY <1>1 DEF Ensure
<1>3. PICK j : j = [k EXCEPT !.saw = p, !.target = NoShell, !.step = w]
  OBVIOUS
<1>4. j \in ConnType /\ j.step = w /\ j.saw = p /\ j.row = k.row /\ j.target = NoShell
  BY <1>3 DEF ConnType
<1>5. Ensure(k, p, reset) = j
  BY <1>2, <1>3, Zenon
<1> QED
  BY <1>1, <1>4, <1>5

\* and of a row that names none.
LEMMA EnsuredAnew ==
  ASSUME NEW k \in ConnType
  PROVE  /\ Ensure(k, NoShell, FALSE) \in ConnType /\ Ensure(k, NoShell, FALSE).step = "make"
         /\ Ensure(k, NoShell, FALSE).saw = NoShell /\ Ensure(k, NoShell, FALSE).target = NoShell
<1>1. PICK reset : reset = FALSE
  OBVIOUS
<1>2. PICK j : j = Ensure(k, NoShell, reset)
  OBVIOUS
<1>3. j \in ConnType /\ j.saw = NoShell /\ j.step = "make" /\ j.target = NoShell
  BY <1>2, Ensured, Places
<1>4. Ensure(k, NoShell, FALSE) = j
  BY <1>1, <1>2
<1> QED
  BY <1>3, <1>4

\* A connection that has its chances counted.
LEMMA Chances ==
  ASSUME NEW k \in ConnType, NEW r \in BOOLEAN
  PROVE  [k EXCEPT !.retry = r] \in ConnType /\ [k EXCEPT !.pty = FALSE] \in ConnType
         /\ [k EXCEPT !.pty = FALSE].row = k.row
  BY DEF ConnType

\* What is known of a connection.
LEMMA OneKnown ==
  ASSUME TerminalInv, NEW c \in Terminals
  PROVE  /\ BoxTypeOK /\ conn[c] \in ConnType /\ NoneOutlives /\ PauseDeleted /\ AllNamed
         /\ Unread(conn[c])
         /\ single => overwritten = {}
         /\ single /\ conn[c].step # "away" /\ conn[c].row => shell \in {conn[c].saw, NoShell}
         /\ single /\ conn[c].step \notin {"away", "attached"} => pausing.step = "no"
  BY TerminalTypeParts DEF TerminalInv, Apart

\* The name that a handler replaces is of no shell that lives, if it is the one the handler has
\* read, and lost otherwise.
LEMMA NameReplaced ==
  ASSUME BoxTypeOK, lives' \subseteq Shells, NEW p, NEW known, Name(p, known), known \notin lives' \ failed'
  PROVE  /\ shell \notin lives' \ (failed' \cup overwritten')
         /\ overwritten' \subseteq lives' /\ overwritten \cap lives' \subseteq overwritten'
         /\ overwritten = {} /\ shell \in {known, NoShell} => overwritten' = {}
  BY DEF Name, BoxTypeOK

\* A connection that takes a step keeps the invariant if what it knows is still true.
LEMMA OneGoes ==
  ASSUME TerminalInv, NEW c \in Terminals, NEW k \in ConnType, Go(c, k), Unread(k),
         BoxTypeOK', pausing' = pausing, NoneOutlives', PauseDeleted',
         \A p \in lives' \ (failed' \cup overwritten') :
           \/ p = shell' \/ (k.step = "write" /\ k.target = p)
           \/ \E d \in Terminals \ {c} : conn[d].step = "write" /\ conn[d].target = p,
         single' => /\ single /\ overwritten' = {}
                    /\ conn[c].step # "away" \/ \A d \in Terminals : conn[d].step = "away"
                    /\ k.step # "away" /\ k.row => shell' \in {k.saw, NoShell}
                    /\ pausing.step # "no" => shell' = shell /\ k.step \in {"away", "attached"}
  PROVE  TerminalInv'
<1>1. conn \in [Terminals -> ConnType] /\ (single => Apart) /\ \A d \in Terminals : Unread(conn[d])
  BY TerminalTypeParts DEF TerminalInv
<1>2. conn' \in [Terminals -> ConnType]
  BY <1>1 DEF Go
<1>3. conn'[c] = k /\ \A d \in Terminals \ {c} : conn'[d] = conn[d]
  BY <1>1 DEF Go
<1>4. AllNamed'
  BY <1>3 DEF AllNamed
<1>5. ASSUME single'
      PROVE  Apart'
  <2>1. \A d \in Terminals \ {c} : conn'[d].step = "away"
    BY <1>1, <1>3, <1>5 DEF Apart
  <2>2. \A d, e \in Terminals : d = e \/ conn'[d].step = "away" \/ conn'[e].step = "away"
    BY <2>1
  <2>3. \A d \in Terminals : conn'[d].step # "away" /\ conn'[d].row => shell' \in {conn'[d].saw, NoShell}
    BY <1>3, <1>5, <2>1
  <2>4. pausing'.step # "no" =>
          shell' \in {pausing'.saw, NoShell} /\ \A d \in Terminals : conn'[d].step \in {"away", "attached"}
    BY <1>1, <1>3, <1>5, <2>1 DEF Apart
  <2> QED
    BY <1>5, <2>2, <2>3, <2>4 DEF Apart
<1>6. TerminalTypeOK'
  BY <1>2 DEF TerminalTypeOK, BoxTypeOK, ConnType, Where
<1>7. \A d \in Terminals : Unread(conn'[d])
  BY <1>1, <1>3
<1> QED
  BY <1>4, <1>5, <1>6, <1>7 DEF TerminalInv

\* What a deletion leaves, be it a failure or not.
LEMMA DeletionTyped ==
  ASSUME BoxTypeOK, NEW p, DeleteFails(p)
  PROVE  /\ lives' \subseteq lives /\ attached' \subseteq lives' /\ failed' \subseteq lives'
         /\ failed \cap lives' \subseteq failed' /\ p \notin lives' \ failed'
  BY DEF DeleteFails, Delete, BoxTypeOK

\* A shell is dropped: the row names none, whatever has become of the shell.
LEMMA DropGoes ==
  ASSUME TerminalInv, NEW c \in Terminals, NEW k \in ConnType, Go(c, k), Unread(k),
         conn[c].step \in {"clear", "drop", "end"}, k.step \in {"away", "make"},
         \/ DeleteFails(conn[c].saw) /\ Name(NoShell, conn[c].saw) /\ conn[c].row
         \/ UNCHANGED shellVars /\ k.step = "away",
         UNCHANGED <<up, pausing, single>>
  PROVE  TerminalInv'
<1>1. /\ BoxTypeOK /\ conn[c] \in ConnType /\ NoneOutlives /\ PauseDeleted /\ AllNamed
      /\ single => overwritten = {}
      /\ single /\ conn[c].row => shell \in {conn[c].saw, NoShell}
      /\ single => pausing.step = "no"
  BY OneKnown
<1>2. CASE UNCHANGED shellVars /\ k.step = "away"
  <2>1. BoxTypeOK' /\ NoneOutlives' /\ PauseDeleted'
    BY <1>1, <1>2 DEF shellVars, BoxTypeOK, NoneOutlives, PauseDeleted
  <2>2. ASSUME NEW p \in lives' \ (failed' \cup overwritten')
        PROVE  p = shell' \/ \E d \in Terminals \ {c} : conn[d].step = "write" /\ conn[d].target = p
    BY <1>1, <1>2, <2>2 DEF shellVars, AllNamed
  <2> QED
    BY <1>1, <1>2, <2>1, <2>2, OneGoes DEF shellVars
<1>3. CASE DeleteFails(conn[c].saw) /\ Name(NoShell, conn[c].saw) /\ conn[c].row
  <2>1. /\ lives' \subseteq lives /\ attached' \subseteq lives' /\ failed' \subseteq lives'
        /\ failed \cap lives' \subseteq failed' /\ conn[c].saw \notin lives' \ failed'
    BY <1>1, <1>3, DeletionTyped
  <2>2. /\ shell \notin lives' \ (failed' \cup overwritten')
        /\ overwritten' \subseteq lives' /\ overwritten \cap lives' \subseteq overwritten'
        /\ overwritten = {} /\ shell \in {conn[c].saw, NoShell} => overwritten' = {}
        /\ shell' = NoShell
    <3>1. lives' \subseteq Shells
      BY <1>1, <2>1 DEF BoxTypeOK
    <3> QED
      BY <1>1, <1>3, <2>1, <3>1, NameReplaced DEF Name
  <2>3. BoxTypeOK' /\ NoneOutlives' /\ PauseDeleted'
    BY <1>1, <2>1, <2>2 DEF BoxTypeOK, NoneOutlives, PauseDeleted
  <2>4. ASSUME NEW p \in lives' \ (failed' \cup overwritten')
        PROVE  \E d \in Terminals \ {c} : conn[d].step = "write" /\ conn[d].target = p
    BY <1>1, <2>1, <2>2, <2>4 DEF AllNamed
  <2> QED
    BY <1>1, <1>3, <2>2, <2>3, <2>4, OneGoes
<1> QED
  BY <1>2, <1>3

LEMMA DropKept ==
  ASSUME TerminalInv, NEW c \in Terminals, TerminalDrop(c)
  PROVE  TerminalInv'
<1>1. conn[c] \in ConnType
  BY OneKnown
<1>2. CASE DropFails(c) /\ GiveUp(c)
  BY <1>2, AwayIsTyped, DropGoes DEF TerminalDrop, DropFails, SameRow, GiveUp
<1>3. CASE Dropped(c) /\ Go(c, Ensure([conn[c] EXCEPT !.retry = @ /\ conn[c].step = "clear"], NoShell, FALSE))
  <2>0. PICK j : j = [conn[c] EXCEPT !.retry = @ /\ conn[c].step = "clear"]
    OBVIOUS
  <2> DEFINE k == Ensure(j, NoShell, FALSE)
  <2>1. Go(c, k) /\ Delete(conn[c].saw) /\ Name(NoShell, conn[c].saw) /\ conn[c].row
    BY <1>3, <2>0 DEF Dropped, Answers, SameRow
  <2>2. conn[c].retry \in BOOLEAN
    BY <1>1 DEF ConnType
  <2>3. j \in ConnType
    BY <1>1, <2>0, <2>2, Chances
  <2>4. k \in ConnType /\ k.step = "make" /\ k.saw = NoShell /\ k.target = NoShell
    BY <2>3, EnsuredAnew
  <2> HIDE DEF k
  <2>5. Unread(k)
    BY <2>4 DEF Unread
  <2>6. DeleteFails(conn[c].saw) /\ conn[c].step \in {"clear", "drop", "end"} /\ UNCHANGED <<up, pausing, single>>
    BY <2>1 DEF DeleteFails, TerminalDrop
  <2> QED
    BY <2>1, <2>4, <2>5, <2>6, DropGoes
<1> QED
  BY <1>2, <1>3 DEF TerminalDrop

\* The same for the last time.
LEMMA EndKept ==
  ASSUME TerminalInv, NEW c \in Terminals, TerminalEnd(c)
  PROVE  TerminalInv'
<1>1. DropFails(c) /\ GiveUp(c) /\ conn[c].step = "end" /\ UNCHANGED <<up, pausing, single>>
  BY DEF TerminalEnd, Dropped, DropFails, Answers, DeleteFails
<1> QED
  BY <1>1, AwayIsTyped, DropGoes DEF DropFails, SameRow, GiveUp

\* The shell is looked for.
LEMMA CheckKept ==
  ASSUME TerminalInv, NEW c \in Terminals, TerminalCheck(c)
  PROVE  TerminalInv'
<1>1. /\ BoxTypeOK /\ conn[c] \in ConnType /\ NoneOutlives /\ PauseDeleted /\ AllNamed
      /\ single => overwritten = {} /\ pausing.step = "no"
      /\ single /\ conn[c].row => shell \in {conn[c].saw, NoShell}
  BY OneKnown DEF TerminalCheck
<1>2. /\ UNCHANGED <<up, lives, attached, failed, pausing, single>> /\ conn[c].step = "check"
      /\ conn[c].row
  BY DEF TerminalCheck, Answers, SameRow
<1>3. CASE conn[c].saw \notin lives
  <2> DEFINE k == Ensure(conn[c], NoShell, FALSE)
  <2>1. Go(c, k) /\ Name(NoShell, conn[c].saw)
    BY <1>3 DEF TerminalCheck
  <2>2. k \in ConnType /\ k.step = "make" /\ k.saw = NoShell /\ k.target = NoShell
    BY <1>1, EnsuredAnew
  <2> HIDE DEF k
  <2>3. /\ shell \notin lives' \ (failed' \cup overwritten') /\ overwritten' \subseteq lives'
        /\ overwritten \cap lives' \subseteq overwritten'
        /\ overwritten = {} /\ shell \in {conn[c].saw, NoShell} => overwritten' = {}
        /\ shell' = NoShell
    <3>1. lives' \subseteq Shells /\ conn[c].saw \notin lives' \ failed'
      BY <1>1, <1>2, <1>3 DEF BoxTypeOK
    <3> QED
      BY <1>1, <2>1, <3>1, NameReplaced DEF Name
  <2>4. BoxTypeOK' /\ NoneOutlives' /\ PauseDeleted' /\ Unread(k)
    BY <1>1, <1>2, <2>2, <2>3 DEF BoxTypeOK, NoneOutlives, PauseDeleted, Unread
  <2>5. ASSUME NEW p \in lives' \ (failed' \cup overwritten')
        PROVE  \E d \in Terminals \ {c} : conn[d].step = "write" /\ conn[d].target = p
    BY <1>1, <1>2, <2>3, <2>5 DEF AllNamed
  <2> QED
    BY <1>1, <1>2, <2>1, <2>2, <2>3, <2>4, <2>5, OneGoes
<1>4. ASSUME UNCHANGED <<shell, overwritten>>, NEW k \in ConnType, Go(c, k), Unread(k),
             k.step # "away" => k.saw = shell
      PROVE  TerminalInv'
  <2>1. BoxTypeOK' /\ NoneOutlives' /\ PauseDeleted'
    BY <1>1, <1>2, <1>4 DEF BoxTypeOK, NoneOutlives, PauseDeleted
  <2>2. ASSUME NEW p \in lives' \ (failed' \cup overwritten')
        PROVE  p = shell' \/ \E d \in Terminals \ {c} : conn[d].step = "write" /\ conn[d].target = p
    BY <1>1, <1>2, <1>4, <2>2 DEF AllNamed
  <2> QED
    BY <1>1, <1>2, <1>4, <2>1, <2>2, OneGoes
<1>5. CASE conn[c].saw \in lives /\ shell = NoShell
  BY <1>4, <1>5, AwayIsTyped DEF TerminalCheck, GiveUp
<1>6. CASE conn[c].saw \in lives /\ shell # NoShell
  <2>0. shell \in Shells \cup {NoShell}
    BY <1>1 DEF BoxTypeOK
  <2>1. PICK j, k : j = conn[c] /\ k = [j EXCEPT !.step = "attach", !.target = shell, !.saw = shell]
    OBVIOUS
  <2>2. k \in ConnType /\ k.step = "attach" /\ k.row = conn[c].row /\ k.saw = shell
    BY <1>1, <2>0, <2>1, Places DEF ConnType
  <2>3. Go(c, k) /\ UNCHANGED <<shell, overwritten>>
    BY <1>6, <2>1 DEF TerminalCheck
  <2>4. Unread(k)
    BY <1>2, <2>2 DEF Unread
  <2> QED
    BY <1>4, <2>2, <2>3, <2>4
<1> QED
  BY <1>3, <1>5, <1>6

\* A shell is made,
LEMMA MakeKept ==
  ASSUME TerminalInv, NEW c \in Terminals, NEW p \in Shells, TerminalMake(c, p)
  PROVE  TerminalInv'
<1>1. /\ BoxTypeOK /\ conn[c] \in ConnType /\ NoneOutlives /\ PauseDeleted /\ AllNamed /\ Unread(conn[c])
      /\ single => overwritten = {} /\ pausing.step = "no"
      /\ single /\ conn[c].row => shell \in {conn[c].saw, NoShell}
  BY OneKnown DEF TerminalMake
<1>0. PICK j, k : j = conn[c] /\ k = [j EXCEPT !.step = "write", !.target = p]
  OBVIOUS
<1>2. /\ UNCHANGED <<up, shell, attached, failed, overwritten, pausing, single>> /\ up = "running"
      /\ lives' = lives \cup {p} /\ Go(c, k) /\ conn[c].step = "make" /\ conn[c].row /\ pausing.saw # p
  BY <1>0 DEF TerminalMake, Born, Answers, SameRow
<1>3. k \in ConnType /\ k.step = "write" /\ k.row = conn[c].row /\ k.saw = conn[c].saw /\ k.target = p
  BY <1>0, <1>1, Places DEF ConnType
<1>4. BoxTypeOK' /\ NoneOutlives' /\ PauseDeleted' /\ Unread(k)
  BY <1>1, <1>2, <1>3 DEF BoxTypeOK, NoneOutlives, PauseDeleted, Unread
<1>5. ASSUME NEW q \in lives' \ (failed' \cup overwritten')
      PROVE  \/ q = shell' \/ (k.step = "write" /\ k.target = q)
             \/ \E d \in Terminals \ {c} : conn[d].step = "write" /\ conn[d].target = q
  BY <1>1, <1>2, <1>3, <1>5 DEF AllNamed
<1> QED
  BY <1>1, <1>2, <1>3, <1>4, <1>5, OneGoes

\* made without the handler's knowledge,
LEMMA MakeFailsKept ==
  ASSUME TerminalInv, NEW c \in Terminals, NEW p \in Shells, TerminalMakeFails(c, p)
  PROVE  TerminalInv'
<1>1. /\ BoxTypeOK /\ conn[c] \in ConnType /\ NoneOutlives /\ PauseDeleted /\ AllNamed
      /\ single => overwritten = {} /\ pausing.step = "no"
  BY OneKnown DEF TerminalMakeFails
<1>2. /\ UNCHANGED <<up, shell, attached, overwritten, pausing, single>> /\ up = "running"
      /\ lives' = lives \cup {p} /\ failed' = failed \cup {p} /\ Go(c, Away) /\ conn[c].step = "make"
  BY DEF TerminalMakeFails, Born, Answers, GiveUp
<1>3. BoxTypeOK' /\ NoneOutlives' /\ PauseDeleted'
  BY <1>1, <1>2 DEF BoxTypeOK, NoneOutlives, PauseDeleted
<1>4. ASSUME NEW q \in lives' \ (failed' \cup overwritten')
      PROVE  q = shell' \/ \E d \in Terminals \ {c} : conn[d].step = "write" /\ conn[d].target = q
  BY <1>1, <1>2, <1>4 DEF AllNamed
<1> QED
  BY <1>1, <1>2, <1>3, <1>4, OneGoes, AwayIsTyped

\* and the row names it.
LEMMA WriteKept ==
  ASSUME TerminalInv, NEW c \in Terminals, TerminalWrite(c)
  PROVE  TerminalInv'
<1>1. /\ BoxTypeOK /\ conn[c] \in ConnType /\ NoneOutlives /\ PauseDeleted /\ AllNamed /\ Unread(conn[c])
      /\ single => overwritten = {} /\ pausing.step = "no"
      /\ single /\ conn[c].row => shell \in {conn[c].saw, NoShell}
  BY OneKnown DEF TerminalWrite
<1>2. UNCHANGED <<up, lives, attached, failed, pausing, single>> /\ conn[c].step = "write"
  BY DEF TerminalWrite
<1>3. conn[c].saw = NoShell /\ conn[c].target \in Shells \cup {NoShell} /\ NoShell \notin lives
  BY <1>1, <1>2 DEF Unread, ConnType, BoxTypeOK
<1>4. CASE ~ conn[c].row
  <2>1. Go(c, Away) /\ UNCHANGED <<shell, overwritten>> /\ conn[c].target = NoShell
    BY <1>1, <1>4 DEF TerminalWrite, SameRow, GiveUp, Unread
  <2>2. BoxTypeOK' /\ NoneOutlives' /\ PauseDeleted'
    BY <1>1, <1>2, <2>1 DEF BoxTypeOK, NoneOutlives, PauseDeleted
  <2>3. ASSUME NEW p \in lives' \ (failed' \cup overwritten')
        PROVE  p = shell' \/ \E d \in Terminals \ {c} : conn[d].step = "write" /\ conn[d].target = p
    BY <1>1, <1>2, <1>3, <2>1, <2>3 DEF AllNamed
  <2> QED
    BY <1>1, <1>2, <2>1, <2>2, <2>3, OneGoes, AwayIsTyped
<1>5. CASE conn[c].row
  <2>0. PICK j, k : j = conn[c] /\ k = [j EXCEPT !.step = "attach", !.saw = j.target]
    OBVIOUS
  <2>1. k \in ConnType /\ k.step = "attach" /\ k.row = conn[c].row /\ k.saw = conn[c].target
    BY <1>1, <1>3, <2>0, Places DEF ConnType
  <2>2. Go(c, k) /\ Name(conn[c].target, conn[c].saw) /\ shell' = conn[c].target
    BY <1>5, <2>0 DEF TerminalWrite, SameRow, Name
  <2>3. /\ shell \notin lives' \ (failed' \cup overwritten') /\ overwritten' \subseteq lives'
        /\ overwritten \cap lives' \subseteq overwritten'
        /\ overwritten = {} /\ shell \in {conn[c].saw, NoShell} => overwritten' = {}
    <3>1. lives' \subseteq Shells /\ conn[c].saw \notin lives' \ failed'
      BY <1>1, <1>2, <1>3 DEF BoxTypeOK
    <3> QED
      BY <1>1, <2>2, <3>1, NameReplaced
  <2>4. BoxTypeOK' /\ NoneOutlives' /\ PauseDeleted' /\ Unread(k)
    BY <1>1, <1>2, <1>3, <1>5, <2>1, <2>2, <2>3 DEF BoxTypeOK, NoneOutlives, PauseDeleted, Unread
  <2>5. ASSUME NEW p \in lives' \ (failed' \cup overwritten')
        PROVE  p = shell' \/ \E d \in Terminals \ {c} : conn[d].step = "write" /\ conn[d].target = p
    BY <1>1, <1>2, <2>2, <2>3, <2>5 DEF AllNamed
  <2> QED
    BY <1>1, <1>2, <1>5, <2>1, <2>2, <2>3, <2>4, <2>5, OneGoes
<1> QED
  BY <1>4, <1>5

\* A connection that leaves the shells and the row's name as they are keeps the invariant.
LEMMA QuietGoes ==
  ASSUME TerminalInv, NEW c \in Terminals, NEW k \in ConnType, Go(c, k), Unread(k),
         UNCHANGED <<up, shell, lives, failed, overwritten, pausing>>, attached' \subseteq lives,
         single' \in BOOLEAN, conn[c].step \notin {"away", "write"}, k.row => conn[c].row,
         k.step # "away" => k.saw = conn[c].saw,
         single' => single /\ (pausing.step # "no" => k.step \in {"away", "attached"})
  PROVE  TerminalInv'
<1>1. /\ BoxTypeOK /\ conn[c] \in ConnType /\ NoneOutlives /\ PauseDeleted /\ AllNamed
      /\ single => overwritten = {}
      /\ single /\ conn[c].row => shell \in {conn[c].saw, NoShell}
  BY OneKnown
<1>2. BoxTypeOK' /\ NoneOutlives' /\ PauseDeleted'
  BY <1>1 DEF BoxTypeOK, NoneOutlives, PauseDeleted
<1>3. ASSUME NEW p \in lives' \ (failed' \cup overwritten')
      PROVE  p = shell' \/ \E d \in Terminals \ {c} : conn[d].step = "write" /\ conn[d].target = p
  BY <1>1, <1>3 DEF AllNamed
<1> QED
  BY <1>1, <1>2, <1>3, OneGoes

\* A call fails.
LEMMA FailsKept ==
  ASSUME TerminalInv, NEW c \in Terminals, TerminalFails(c)
  PROVE  TerminalInv'
<1>1. BoxTypeOK /\ Go(c, Away) /\ UNCHANGED <<up, shellVars, pausing, single>> /\ conn[c].step \notin {"away", "write"}
  BY OneKnown DEF TerminalFails, GiveUp
<1>2. ~ Away.row
  BY DEF Away
<1> QED
  BY <1>1, <1>2, AwayIsTyped, QuietGoes DEF shellVars, BoxTypeOK

\* The connection to the shell.
LEMMA AttachKept ==
  ASSUME TerminalInv, NEW c \in Terminals, TerminalAttach(c)
  PROVE  TerminalInv'
<1>1. /\ BoxTypeOK /\ conn[c] \in ConnType /\ Unread(conn[c])
      /\ single => pausing.step = "no"
      /\ UNCHANGED <<up, shell, lives, failed, overwritten, pausing, single>> /\ conn[c].step = "attach"
  BY OneKnown DEF TerminalAttach
<1>2. attached' \subseteq lives
  BY <1>1 DEF TerminalAttach, BoxTypeOK
<1>3. ASSUME NEW k \in ConnType, Go(c, k), Unread(k), k.row => conn[c].row,
             k.step # "away" => k.saw = conn[c].saw
      PROVE  TerminalInv'
  BY <1>1, <1>2, <1>3, QuietGoes DEF BoxTypeOK
<1>4. CASE GiveUp(c)
  BY <1>3, <1>4, AwayIsTyped DEF GiveUp, Away
<1>5. CASE Go(c, [conn[c] EXCEPT !.step = "drop"])
  <2> DEFINE k == [conn[c] EXCEPT !.step = "drop"]
  <2>1. /\ k \in ConnType /\ k.step = "drop" /\ k.row = conn[c].row
        /\ k.saw = conn[c].saw /\ k.target = conn[c].target
    BY <1>1, Stepped, Places
  <2>2. Go(c, k)
    BY <1>5
  <2> HIDE DEF k
  <2> QED
    BY <1>1, <1>3, <2>1, <2>2 DEF Unread
<1>6. CASE Go(c, [conn[c] EXCEPT !.step = "attached", !.retry = TRUE])
  <2>1. PICK j, k : j = conn[c] /\ k = [j EXCEPT !.step = "attached", !.retry = TRUE]
    OBVIOUS
  <2>2. /\ k \in ConnType /\ k.step = "attached" /\ k.row = conn[c].row
        /\ k.saw = conn[c].saw /\ k.target = conn[c].target
    BY <1>1, <2>1, Places DEF ConnType
  <2>3. Go(c, k)
    BY <1>6, <2>1
  <2> QED
    BY <1>1, <1>3, <2>2, <2>3 DEF Unread
<1> QED
  BY <1>4, <1>5, <1>6 DEF TerminalAttach

\* The connection ends.
LEMMA CloseKept ==
  ASSUME TerminalInv, NEW c \in Terminals, TerminalClose(c)
  PROVE  TerminalInv'
<1>1. /\ BoxTypeOK /\ Go(c, Away) /\ UNCHANGED <<up, shell, lives, failed, overwritten, pausing, single>>
      /\ conn[c].step = "attached" /\ attached' \subseteq attached
  BY OneKnown DEF TerminalClose, GiveUp
<1>2. ~ Away.row
  BY DEF Away
<1> QED
  BY <1>1, <1>2, AwayIsTyped, QuietGoes DEF BoxTypeOK

\* Once more without a PTY, or for the last time.
LEMMA FallbackKept ==
  ASSUME TerminalInv, NEW c \in Terminals, TerminalFallback(c)
  PROVE  TerminalInv'
<1>1. /\ BoxTypeOK /\ conn[c] \in ConnType /\ Unread(conn[c])
      /\ UNCHANGED <<up, shell, lives, failed, overwritten, pausing>> /\ attached' \subseteq attached
      /\ conn[c].step = "attached" /\ conn[c].row /\ single' = (single /\ pausing = NotPausing)
  BY OneKnown DEF TerminalFallback, Answers, SameRow
<1>2. single' \in BOOLEAN /\ (single' => single /\ pausing.step = "no")
  <2>1. single' => single /\ pausing = NotPausing
    BY <1>1, Zenon
  <2>2. single' \in BOOLEAN
    BY <1>1, Zenon
  <2> QED
    BY <2>1, <2>2 DEF NotPausing
<1>3. ASSUME NEW k \in ConnType, Go(c, k), Unread(k), k.step # "away" => k.saw = conn[c].saw
      PROVE  TerminalInv'
  BY <1>1, <1>2, <1>3, QuietGoes DEF BoxTypeOK
<1>4. CASE conn[c].pty
  <2>0. PICK j, reset : j = [conn[c] EXCEPT !.pty = FALSE] /\ reset = FALSE
    OBVIOUS
  <2> DEFINE k == Ensure(j, conn[c].saw, reset)
  <2>1. Go(c, k)
    BY <1>4, <2>0 DEF TerminalFallback
  <2>2. j \in ConnType /\ j.row = conn[c].row
    BY <1>1, <2>0, Chances
  <2>3. conn[c].saw \in Shells \cup {NoShell}
    BY <1>1 DEF ConnType
  <2>4. /\ k \in ConnType /\ k.row = conn[c].row /\ k.saw = conn[c].saw
        /\ conn[c].saw # NoShell => k.step \in {"clear", "check"}
    BY <2>2, <2>3, Ensured
  <2> HIDE DEF k
  <2>5. Unread(k)
    BY <1>1, <2>4 DEF Unread
  <2> QED
    BY <1>3, <2>1, <2>4, <2>5
<1>5. CASE ~ conn[c].pty
  <2> DEFINE k == [conn[c] EXCEPT !.step = "end"]
  <2>1. /\ k \in ConnType /\ k.step = "end" /\ k.row = conn[c].row
        /\ k.saw = conn[c].saw /\ k.target = conn[c].target
    BY <1>1, Stepped, Places
  <2>2. Go(c, k)
    BY <1>5 DEF TerminalFallback
  <2> HIDE DEF k
  <2> QED
    BY <1>1, <1>3, <2>1, <2>2 DEF Unread
<1> QED
  BY <1>4, <1>5

\* A connection begins.
LEMMA ConnectKept ==
  ASSUME TerminalInv, NEW c \in Terminals, NEW reset \in BOOLEAN, Connect(c, reset)
  PROVE  TerminalInv'
<1>1. /\ BoxTypeOK /\ conn[c] \in ConnType /\ NoneOutlives /\ PauseDeleted /\ AllNamed
      /\ single => overwritten = {}
  BY OneKnown
<1>2. PICK i, j, k, p, r : /\ i = Away /\ j = [i EXCEPT !.row = TRUE, !.retry = TRUE, !.pty = TRUE]
                           /\ p = shell /\ r = reset /\ k = Ensure(j, p, r)
  OBVIOUS
<1>3. j \in ConnType /\ j.row /\ p \in Shells \cup {NoShell}
  <2>1. i \in ConnType
    BY <1>2, AwayIsTyped
  <2> QED
    BY <1>1, <1>2, <2>1 DEF ConnType, BoxTypeOK
<1>4. k \in ConnType /\ k.row /\ k.saw = shell /\ (shell # NoShell => k.step \in {"clear", "check"})
  <2>1. k = Ensure(j, p, r) /\ p = shell
    BY <1>2
  <2> QED
    BY <1>3, <2>1, Ensured
<1>5. /\ Go(c, k) /\ conn[c] = Away /\ UNCHANGED <<up, pausing, shellVars>>
      /\ single' = (single /\ pausing = NotPausing /\ \A d \in Terminals : conn[d] = Away)
  BY <1>2 DEF Connect
<1>6. BoxTypeOK' /\ NoneOutlives' /\ PauseDeleted' /\ Unread(k)
  BY <1>1, <1>4, <1>5 DEF shellVars, BoxTypeOK, NoneOutlives, PauseDeleted, Unread
<1>7. ASSUME NEW q \in lives' \ (failed' \cup overwritten')
      PROVE  q = shell' \/ \E d \in Terminals \ {c} : conn[d].step = "write" /\ conn[d].target = q
  BY <1>1, <1>5, <1>7, AwayIsTyped DEF shellVars, AllNamed
<1>8. single' => /\ single /\ overwritten' = {} /\ shell' = shell /\ pausing.step = "no"
                 /\ \A d \in Terminals : conn[d].step = "away"
  <2>1. single' => single /\ pausing = NotPausing /\ \A d \in Terminals : conn[d] = Away
    BY <1>5, Zenon
  <2> QED
    BY <1>1, <1>5, <2>1, AwayIsTyped DEF shellVars, NotPausing
<1> QED
  BY <1>4, <1>5, <1>6, <1>7, <1>8, OneGoes

\* What the requests for the sandbox, its own end and the exit of a shell have in common: the
\* row names what it named, or nothing.
LEMMA BoxGoes ==
  ASSUME TerminalInv, BoxTypeOK', NoneOutlives', PauseDeleted', UNCHANGED conn,
         shell' \in {shell, NoShell}, lives' \subseteq lives, failed \cap lives' \subseteq failed',
         overwritten \cap lives' \subseteq overwritten',
         shell' = shell \/ shell \notin lives' \ (failed' \cup overwritten'),
         single' => single /\ overwritten' = {},
         \/ pausing' = pausing
         \/ pausing'.step = "no"
         \/ single' => /\ shell' \in {pausing'.saw, NoShell}
                       /\ \A c \in Terminals : conn[c].step \in {"away", "attached"}
  PROVE  TerminalInv'
<1>1. /\ conn \in [Terminals -> ConnType] /\ AllNamed /\ \A c \in Terminals : Unread(conn[c])
      /\ single => Apart
  BY TerminalTypeParts DEF TerminalInv
<1>2. TerminalTypeOK' /\ \A c \in Terminals : Unread(conn'[c])
  BY <1>1 DEF TerminalTypeOK, BoxTypeOK, ConnType, Where
<1>3. AllNamed'
  BY <1>1 DEF AllNamed
<1>4. single' => Apart'
  BY <1>1 DEF Apart
<1> QED
  BY <1>2, <1>3, <1>4 DEF TerminalInv

LEMMA BoxStepKept ==
  ASSUME TerminalInv, StopBox \/ ResumeBox \/ ExpireBox \/ \E p \in Shells : Exit(p)
  PROVE  TerminalInv'
<1>1. /\ BoxTypeOK /\ NoneOutlives /\ PauseDeleted /\ (single => Apart)
  BY TerminalTypeParts DEF TerminalInv
<1>2. NotPausing \in [step : {"no", "delete", "pause"}, saw : Shells \cup {NoShell}] /\ NotPausing.step = "no"
  BY DEF NotPausing
<1>3. CASE StopBox \/ ExpireBox
  <2>1. /\ lives' = {} /\ attached' = {} /\ failed' = {} /\ overwritten' = {} /\ pausing' = NotPausing
        /\ UNCHANGED <<conn, single>> /\ shell' \in {shell, NoShell} /\ up' \in {"stopped", "gone"}
    BY <1>3 DEF StopBox, ExpireBox, Ends
  <2>2. BoxTypeOK' /\ NoneOutlives' /\ PauseDeleted'
    BY <1>1, <1>2, <2>1 DEF BoxTypeOK, NoneOutlives, PauseDeleted
  <2> QED
    BY <1>2, <2>1, <2>2, BoxGoes
<1>4. CASE ResumeBox
  <2>1. UNCHANGED <<shellVars, conn, pausing, single>> /\ up' = "running"
    BY <1>4 DEF ResumeBox
  <2>2. BoxTypeOK' /\ NoneOutlives' /\ PauseDeleted'
    BY <1>1, <2>1 DEF shellVars, BoxTypeOK, NoneOutlives, PauseDeleted
  <2> QED
    BY <1>1, <2>1, <2>2, BoxGoes DEF shellVars, Apart
<1>5. ASSUME NEW p \in Shells, Exit(p)
      PROVE  TerminalInv'
  <2>1. /\ lives' = lives \ {p} /\ attached' = attached \ {p} /\ failed' = failed \ {p}
        /\ overwritten' = overwritten \ {p} /\ UNCHANGED <<up, shell, conn, pausing, single>>
    BY <1>5 DEF Exit, Delete
  <2>2. BoxTypeOK' /\ NoneOutlives' /\ PauseDeleted'
    BY <1>1, <2>1 DEF BoxTypeOK, NoneOutlives, PauseDeleted
  <2> QED
    BY <1>1, <2>1, <2>2, BoxGoes DEF Apart
<1> QED
  BY <1>3, <1>4, <1>5

\* A pause, call by call.
LEMMA PauseKept ==
  ASSUME TerminalInv, PauseBegin \/ PauseDelete \/ PauseEnd \/ PauseFails
  PROVE  TerminalInv'
<1>1. /\ BoxTypeOK /\ NoneOutlives /\ PauseDeleted /\ (single => Apart)
  BY TerminalTypeParts DEF TerminalInv
<1>2. NotPausing \in [step : {"no", "delete", "pause"}, saw : Shells \cup {NoShell}] /\ NotPausing.step = "no"
  BY DEF NotPausing
<1>3. CASE PauseBegin
  <2>1. /\ UNCHANGED <<up, shellVars, conn>> /\ pausing'.step \in {"pause", "delete"} /\ pausing'.saw = shell
        /\ pausing' \in [step : {"no", "delete", "pause"}, saw : Shells \cup {NoShell}]
        /\ pausing'.step = "pause" => shell = NoShell
        /\ single' = (single /\ \A c \in Terminals : conn[c].step \in {"away", "attached"})
    BY <1>1, <1>3 DEF PauseBegin, BoxTypeOK
  <2>2. BoxTypeOK' /\ NoneOutlives' /\ PauseDeleted'
    BY <1>1, <2>1 DEF shellVars, BoxTypeOK, NoneOutlives, PauseDeleted
  <2> QED
    BY <1>1, <2>1, <2>2, BoxGoes DEF shellVars, Apart
<1>4. CASE PauseDelete
  <2>1. /\ DeleteFails(pausing.saw) /\ overwritten' = overwritten \cap lives' /\ UNCHANGED <<up, shell, conn, single>>
        /\ pausing' = [pausing EXCEPT !.step = "pause"] /\ pausing.step = "delete"
    BY <1>4 DEF PauseDelete
  <2>2. /\ lives' \subseteq lives /\ attached' \subseteq lives' /\ failed' \subseteq lives'
        /\ failed \cap lives' \subseteq failed' /\ pausing.saw \notin lives' \ failed'
    BY <1>1, <2>1, DeletionTyped
  <2>3. /\ pausing' \in [step : {"no", "delete", "pause"}, saw : Shells \cup {NoShell}]
        /\ pausing'.step = "pause" /\ pausing'.saw = pausing.saw
    BY <1>1, <2>1 DEF BoxTypeOK
  <2>4. BoxTypeOK' /\ NoneOutlives' /\ PauseDeleted'
    BY <1>1, <2>1, <2>2, <2>3 DEF BoxTypeOK, NoneOutlives, PauseDeleted
  <2>5. single' => /\ single /\ overwritten' = {} /\ shell' \in {pausing'.saw, NoShell}
                   /\ \A c \in Terminals : conn[c].step \in {"away", "attached"}
    BY <1>1, <2>1, <2>3 DEF Apart
  <2> QED
    BY <2>1, <2>2, <2>3, <2>4, <2>5, BoxGoes
<1>5. CASE PauseEnd
  <2>1. /\ UNCHANGED <<lives, attached, conn, failed, single>> /\ pausing' = NotPausing /\ up' = "paused"
        /\ pausing.step = "pause"
        /\ \/ UNCHANGED <<shell, overwritten>>
           \/ Name(NoShell, pausing.saw)
    BY <1>5 DEF PauseEnd
  <2>2. CASE UNCHANGED <<shell, overwritten>>
    <3>1. BoxTypeOK' /\ NoneOutlives' /\ PauseDeleted'
      BY <1>1, <1>2, <2>1, <2>2 DEF BoxTypeOK, NoneOutlives, PauseDeleted
    <3> QED
      BY <1>1, <1>2, <2>1, <2>2, <3>1, BoxGoes DEF Apart
  <2>3. CASE Name(NoShell, pausing.saw)
    <3>1. /\ shell \notin lives' \ (failed' \cup overwritten')
          /\ overwritten' \subseteq lives' /\ overwritten \cap lives' \subseteq overwritten'
          /\ overwritten = {} /\ shell \in {pausing.saw, NoShell} => overwritten' = {}
          /\ shell' = NoShell
      <4>1. lives' \subseteq Shells /\ pausing.saw \notin lives' \ failed'
        BY <1>1, <2>1 DEF BoxTypeOK, PauseDeleted
      <4> QED
        BY <1>1, <2>3, <4>1, NameReplaced DEF Name
    <3>2. BoxTypeOK' /\ NoneOutlives' /\ PauseDeleted'
      BY <1>1, <1>2, <2>1, <3>1 DEF BoxTypeOK, NoneOutlives, PauseDeleted
    <3>3. single' => single /\ overwritten' = {}
      BY <1>1, <2>1, <3>1 DEF Apart
    <3> QED
      BY <1>2, <2>1, <3>1, <3>2, <3>3, BoxGoes
  <2> QED
    BY <2>1, <2>2, <2>3
<1>6. CASE PauseFails
  <2>1. UNCHANGED <<up, shellVars, conn, single>> /\ pausing' = NotPausing
    BY <1>6 DEF PauseFails
  <2>2. BoxTypeOK' /\ NoneOutlives' /\ PauseDeleted'
    BY <1>1, <1>2, <2>1 DEF shellVars, BoxTypeOK, NoneOutlives, PauseDeleted
  <2> QED
    BY <1>1, <1>2, <2>1, <2>2, BoxGoes DEF shellVars, Apart
<1> QED
  BY <1>3, <1>4, <1>5, <1>6

\* A new row: nothing lives, and what connections have read is of no use.
LEMMA StartKept ==
  ASSUME TerminalInv, StartBox
  PROVE  TerminalInv'
<1>1. /\ BoxTypeOK /\ conn \in [Terminals -> ConnType] /\ NoneOutlives /\ PauseDeleted /\ (single => Apart)
  BY TerminalTypeParts DEF TerminalInv
<1>2. /\ shell' = NoShell /\ up = "stopped" /\ up' = "running"
      /\ UNCHANGED <<lives, attached, failed, overwritten, pausing, single>>
      /\ conn' = [c \in Terminals |-> [Away EXCEPT !.step = conn[c].step]]
  BY DEF StartBox
<1>3. ASSUME NEW c \in Terminals
      PROVE  /\ conn'[c] \in ConnType /\ conn'[c].step = conn[c].step /\ ~ conn'[c].row
             /\ conn'[c].saw = NoShell /\ conn'[c].target = NoShell
  <2>1. PICK i : i = Away
    OBVIOUS
  <2>2. i \in ConnType /\ ~ i.row /\ i.saw = NoShell /\ i.target = NoShell
    BY <2>1, AwayIsTyped DEF Away
  <2>3. conn[c].step \in Where
    BY <1>1 DEF ConnType
  <2>4. conn'[c] = [i EXCEPT !.step = conn[c].step]
    BY <1>2, <2>1
  <2> QED
    BY <2>2, <2>3, <2>4, Stepped
<1>4. conn' \in [Terminals -> ConnType] /\ \A c \in Terminals : Unread(conn'[c])
  BY <1>2, <1>3 DEF Unread
<1>5. BoxTypeOK' /\ NoneOutlives' /\ PauseDeleted' /\ lives' = {}
  BY <1>1, <1>2 DEF BoxTypeOK, NoneOutlives, PauseDeleted
<1>6. TerminalTypeOK' /\ AllNamed'
  BY <1>4, <1>5 DEF TerminalTypeOK, BoxTypeOK, ConnType, Where, AllNamed
<1>7. ASSUME single'
      PROVE  Apart'
  <2>1. Apart
    BY <1>1, <1>2, <1>7
  <2>2. \A c, d \in Terminals : c = d \/ conn'[c].step = "away" \/ conn'[d].step = "away"
    BY <1>3, <2>1 DEF Apart
  <2>3. \A c \in Terminals : ~ conn'[c].row
    BY <1>3
  <2>4. pausing'.step # "no" => \A c \in Terminals : conn'[c].step \in {"away", "attached"}
    BY <1>2, <1>3, <2>1 DEF Apart
  <2> QED
    BY <1>2, <2>1, <2>2, <2>3, <2>4 DEF Apart
<1> QED
  BY <1>4, <1>5, <1>6, <1>7 DEF TerminalInv

\* The process dies: a shell it was about to name is among those that were left.
LEMMA DieKept ==
  ASSUME TerminalInv, TerminalDie
  PROVE  TerminalInv'
<1>1. BoxTypeOK /\ NoneOutlives /\ AllNamed /\ (single => Apart)
  BY TerminalTypeParts DEF TerminalInv
<1>2. /\ conn' = [c \in Terminals |-> Away] /\ pausing' = NotPausing /\ attached' = {}
      /\ failed' = failed \cup (lives \cap {conn[c].target : c \in {d \in Terminals : conn[d].step = "write"}})
      /\ UNCHANGED <<up, shell, lives, overwritten, single>>
  BY DEF TerminalDie
<1>3. conn' \in [Terminals -> ConnType] /\ \A c \in Terminals : Unread(conn'[c]) /\ conn'[c].step = "away"
  BY <1>2, AwayIsTyped
<1>4. BoxTypeOK' /\ NoneOutlives' /\ PauseDeleted' /\ pausing'.step = "no"
  BY <1>1, <1>2 DEF BoxTypeOK, NoneOutlives, PauseDeleted, NotPausing
<1>5. TerminalTypeOK'
  BY <1>3, <1>4 DEF TerminalTypeOK, BoxTypeOK, ConnType, Where
<1>6. AllNamed'
  BY <1>1, <1>2 DEF AllNamed
<1>7. single' => Apart'
  BY <1>1, <1>2, <1>3, <1>4 DEF Apart
<1> QED
  BY <1>3, <1>4, <1>5, <1>6, <1>7 DEF TerminalInv

\* The invariant holds at first,
LEMMA TerminalStarts == TerminalInit => TerminalInv
<1> SUFFICES ASSUME TerminalInit PROVE TerminalInv
  OBVIOUS
<1>1. conn \in [Terminals -> ConnType] /\ \A c \in Terminals : Unread(conn[c]) /\ conn[c].step = "away"
  BY AwayIsTyped DEF TerminalInit
<1>2. BoxTypeOK /\ NoneOutlives /\ PauseDeleted /\ AllNamed /\ pausing.step = "no"
  BY DEF TerminalInit, BoxTypeOK, NoneOutlives, PauseDeleted, AllNamed, NotPausing
<1>3. Apart
  BY <1>1, <1>2 DEF TerminalInit, Apart
<1> QED
  BY <1>1, <1>2, <1>3, TerminalTypeParts DEF TerminalInv

\* every step keeps it,
LEMMA TerminalKept == TerminalInv /\ [TerminalNext]_terminalVars => TerminalInv'
<1> SUFFICES ASSUME TerminalInv, [TerminalNext]_terminalVars PROVE TerminalInv'
  OBVIOUS
<1>1. ASSUME NEW c \in Terminals, Handle(c) \/ TerminalClose(c) \/ TerminalFallback(c)
      PROVE  TerminalInv'
  BY <1>1, DropKept, CheckKept, MakeKept, MakeFailsKept, FailsKept, WriteKept, AttachKept, EndKept,
    CloseKept, FallbackKept
  DEF Handle
<1>2. CASE UNCHANGED terminalVars
  BY <1>2 DEF terminalVars, shellVars, TerminalInv, TerminalTypeOK, NoneOutlives, PauseDeleted,
    AllNamed, Unread, Apart
<1> QED
  BY <1>1, <1>2, ConnectKept, BoxStepKept, PauseKept, StartKept, DieKept DEF TerminalNext

\* and so it holds always.
LEMMA TerminalInvariant == TerminalSpec => []TerminalInv
  BY TerminalStarts, TerminalKept, PTL DEF TerminalSpec

\* Whatever connections, resets, fallbacks, pauses and restarts of the sandbox do, and whichever
\* of their calls fail, each shell that lives is the one the row names or is about to be named,
\* but for those a failed call left behind and those whose name was replaced by a handler that
\* had not read it, which takes two handlers at once (sandbox_terminal, pause_sandbox).
THEOREM NoShellIsLost == TerminalSpec => []NoShellLost
<1>1. TerminalInv => NoShellLost
  BY DEF TerminalInv, AllNamed, Apart, NoShellLost
<1> QED
  BY <1>1, TerminalInvariant, PTL

\* The types of terminals hold always.
THEOREM TerminalTypeCorrect == TerminalSpec => []TerminalTypeOK
<1>1. TerminalInv => TerminalTypeOK
  BY DEF TerminalInv
<1> QED
  BY <1>1, TerminalInvariant, PTL

-----------------------------------------------------------------------------
(* Agents and what is cached of them.                                      *)

USE AgentAssumption

\* The types by what they are about: a request, a chat,
ManagerType ==
  [does : {"rest", "delete", "mount", "cascade", "clear", "commit"},
   agent : Agents \cup {NoAgent}, child : Agents \cup {NoAgent}, clears : SUBSET Agents]
ChatType == [does : {"rest", "store", "fetch", "fetching"},
             agent : Agents \cup {NoAgent}, service : Services \cup {NoService}]
\* what is stored, with the tools, and the services.
StoreTypeOK ==
  /\ life \in [Agents -> {"none", "live", "deleted"}] /\ mounts \subseteq Agents \X Agents
  /\ tools \in [Agents -> {"none", "new", "old", "late"}] /\ overtaken \subseteq Agents
CacheTypeOK == cache \in [Agents -> Services \cup {NoService}]
\* An agent that has been created.
Created(a) == a \in Agents /\ life[a] # "none"
\* Requests are about agents that have been created; one that is to cascade has the agent's
\* own entry to clear first.
ManagersKnow ==
  /\ manager \in [Managers -> ManagerType]
  /\ \A h \in Managers :
       /\ manager[h].does \in {"delete", "mount", "cascade"} => Created(manager[h].agent)
       /\ manager[h].does = "mount" => Created(manager[h].child)
       /\ manager[h].does = "cascade" => manager[h].clears = {manager[h].agent}
\* Chats that are getting a service have one of a created agent.
ChatsKnow ==
  /\ chat \in [Chats -> ChatType]
  /\ \A c \in Chats :
       /\ chat[c].does = "store" => Created(chat[c].agent)
       /\ chat[c].does = "fetching" => chat[c].agent \in Agents
       /\ chat[c].does # "rest" => chat[c].service \in Services
\* Nothing is cached of an agent that has not been created, nor is it mounted.
NoneYet ==
  \A a \in Agents : life[a] = "none" =>
    /\ cache[a] = NoService /\ tools[a] # "old"
    /\ \A m \in mounts : a \notin {m[1], m[2]}
\* Tools are out of date only until the agent's own entry is cleared.
OldIsCovered ==
  \A a \in Agents : tools[a] = "old" =>
    \E h \in Managers : manager[h].does = "cascade" /\ manager[h].agent = a
\* The inductive invariant.
AgentTyped == StoreTypeOK /\ CacheTypeOK /\ ManagersKnow /\ ChatsKnow
AgentInv == AgentTyped /\ NoneYet /\ OldIsCovered /\ CacheFresh

\* These are all the types there are.
LEMMA AgentTypeParts == AgentTyped => AgentTypeOK
  BY DEF AgentTyped, AgentTypeOK, StoreTypeOK, CacheTypeOK, ManagersKnow, ChatsKnow,
    ManagerType, ChatType
\* Requests and chats that do nothing.
LEMMA AtRest ==
  /\ NotManaging \in ManagerType /\ NotManaging.does = "rest"
  /\ NotChatting \in ChatType /\ NotChatting.does = "rest"
  BY DEF NotManaging, ManagerType, NotChatting, ChatType

\* A service that is older now; one that is not made of what has changed is as it was.
LEMMA AgedIsTyped ==
  ASSUME NEW s \in Services \cup {NoService}, NEW S \in SUBSET Agents
  PROVE  /\ Aged(s, S) \in Services \cup {NoService}
         /\ s \in Services => Aged(s, S) \in Services
         /\ s = NoService \/ S \cap s.agents = {} => Aged(s, S) = s
  BY DEF Aged, Services

\* The service that is made of an agent.
LEMMA ServiceIsTyped ==
  ASSUME NEW a \in Agents
  PROVE  UpToDate(a) \in Services /\ UpToDate(a).agents = MadeOf(a)
  BY DEF UpToDate, MadeOf, Services, Children, LiveAgents

\* A request goes on, and the others stay where they are,
LEMMA OneManages ==
  ASSUME ManagersKnow, NEW h \in Managers, NEW r \in ManagerType, Manage(h, r),
         \A a : Created(a) => Created(a)',
         r.does \in {"delete", "mount", "cascade"} => Created(r.agent)',
         r.does = "mount" => Created(r.child)',
         r.does = "cascade" => r.clears = {r.agent}
  PROVE  ManagersKnow' /\ manager'[h] = r /\ \A g \in Managers \ {h} : manager'[g] = manager[g]
<1>1. manager' \in [Managers -> ManagerType]
  BY DEF ManagersKnow, Manage
<1>2. manager'[h] = r /\ \A g \in Managers \ {h} : manager'[g] = manager[g]
  BY DEF ManagersKnow, Manage
<1> QED
  BY <1>1, <1>2 DEF ManagersKnow

\* as when it goes on to clear entries.
LEMMA ClearsOn ==
  ASSUME ManagersKnow, NEW h \in Managers, NEW S \in SUBSET Agents, Clears(h, S),
         \A a : Created(a) => Created(a)'
  PROVE  /\ ManagersKnow' /\ manager'[h].clears = S
         /\ manager'[h].does = IF S = {} THEN "rest" ELSE "clear"
         /\ \A g \in Managers \ {h} : manager'[g] = manager[g]
<1>1. PICK r \in ManagerType : /\ Manage(h, r) /\ r.clears = S
                               /\ r.does = IF S = {} THEN "rest" ELSE "clear"
  <2>1. CASE S = {}
    BY <2>1, AtRest DEF Clears, NotManaging
  <2>2. CASE S # {}
    <3> DEFINE r == [NotManaging EXCEPT !.does = "clear", !.clears = S]
    <3>1. r \in ManagerType /\ r.clears = S /\ r.does = "clear"
      BY DEF NotManaging, ManagerType
    <3>2. Manage(h, r)
      BY <2>2 DEF Clears
    <3> HIDE DEF r
    <3> QED
      BY <2>2, <3>1, <3>2
  <2> QED
    BY <2>1, <2>2
<1> QED
  BY <1>1, OneManages

\* What has been created stays.
LEMMA CreatedStays ==
  ASSUME AgentInv, AgentNext
  PROVE  \A a : Created(a) => Created(a)'
<1>0. ManagersKnow /\ StoreTypeOK
  BY DEF AgentInv, AgentTyped
<1>1. ASSUME NEW h \in Managers, ManagerStep(h)
      PROVE  life' = life \/ life' = [life EXCEPT ![manager[h].agent] = "deleted"]
  BY <1>1 DEF ManagerStep, UpdateAgent, DeleteAgentRead, MountRead, ReplaceMounts, Unmount,
    UpdateMount, Cascade,
    ClearNext, DeleteAgentCommit, MountCommit, SettingsClear, SettingsCommit
<1>2. \/ life' = life
      \/ \E a \in Agents \cup {NoAgent}, l \in {"live", "deleted"} : life' = [life EXCEPT ![a] = l]
  <2>1. \A h \in Managers : manager[h].agent \in Agents \cup {NoAgent}
    BY <1>0 DEF ManagersKnow, ManagerType
  <2>2. CASE \E h \in Managers : ManagerStep(h)
    BY <1>1, <2>1, <2>2
  <2>3. CASE \E c \in Chats : \/ \E a \in Agents : ChatBuild(c, a) \/ ChatFetch(c, a)
                              \/ ChatService(c) \/ ChatFetched(c)
    <3>1. life' = life
      BY <2>3 DEF ChatBuild, ChatFetch, ChatService, ChatFetched
    <3> QED
      BY <3>1
  <2>4. CASE \E a \in Agents : UpdateServers(a) \/ ToolsExpire(a) \/ \E S \in SUBSET Agents : CreateAgent(a, S)
    <3>1. life' = life \/ \E a \in Agents : life' = [life EXCEPT ![a] = "live"]
      BY <2>4 DEF UpdateServers, ToolsExpire, CreateAgent
    <3> QED
      BY <3>1
  <2> QED
    BY <2>2, <2>3, <2>4 DEF AgentNext
<1> QED
  BY <1>0, <1>2 DEF Created, StoreTypeOK

\* Every step keeps what requests know,
LEMMA ManagersKept ==
  ASSUME AgentInv, AgentNext
  PROVE  ManagersKnow'
<1>0. ManagersKnow /\ StoreTypeOK
  BY DEF AgentInv, AgentTyped
<1>a. \A a : Created(a) => Created(a)'
  BY CreatedStays
<1>1. ASSUME NEW h \in Managers, NEW a \in Agents, UpdateAgent(h, a)
      PROVE  ManagersKnow'
  <2> DEFINE r == [NotManaging EXCEPT !.does = "cascade", !.agent = a, !.clears = {a}]
  <2>1. r \in ManagerType /\ r.does = "cascade" /\ r.agent = a /\ r.clears = {a}
    BY DEF NotManaging, ManagerType
  <2>2. Manage(h, r) /\ Created(a)
    BY <1>1 DEF UpdateAgent, LiveAgents, Created
  <2> HIDE DEF r
  <2> QED
    BY <1>0, <1>a, <2>1, <2>2, OneManages
<1>2. ASSUME NEW h \in Managers, NEW a \in Agents, DeleteAgentRead(h, a)
      PROVE  ManagersKnow'
  <2> DEFINE S == {a} \cup (Parents(a) \cap LiveAgents)
             r == [NotManaging EXCEPT !.does = "delete", !.agent = a, !.clears = S]
  <2>1. S \in SUBSET Agents
    BY DEF LiveAgents
  <2>2. Manage(h, r) /\ Created(a)
    BY <1>2 DEF DeleteAgentRead, LiveAgents, Created
  <2> HIDE DEF S
  <2>3. r \in ManagerType /\ r.does = "delete" /\ r.agent = a
    BY <2>1 DEF NotManaging, ManagerType
  <2> HIDE DEF r
  <2> QED
    BY <1>0, <1>a, <2>2, <2>3, OneManages
<1>3. ASSUME NEW h \in Managers, NEW a \in Agents, NEW b \in Agents, MountRead(h, a, b)
      PROVE  ManagersKnow'
  <2> DEFINE r == [NotManaging EXCEPT !.does = "mount", !.agent = a, !.child = b]
  <2>1. r \in ManagerType /\ r.does = "mount" /\ r.agent = a /\ r.child = b
    BY DEF NotManaging, ManagerType
  <2>2. Manage(h, r) /\ Created(a) /\ Created(b)
    BY <1>3 DEF MountRead, MayMount, LiveAgents, Created
  <2> HIDE DEF r
  <2> QED
    BY <1>0, <1>a, <2>1, <2>2, OneManages
<1>4. ASSUME NEW h \in Managers, NEW a \in Agents, NEW S \in SUBSET Agents, ReplaceMounts(h, a, S)
      PROVE  ManagersKnow'
  BY <1>0, <1>a, <1>4, ClearsOn DEF ReplaceMounts
<1>5. ASSUME NEW h \in Managers, NEW m \in mounts, Unmount(h, m) \/ UpdateMount(h, m)
      PROVE  ManagersKnow'
  <2>1. {m[1]} \in SUBSET Agents /\ Clears(h, {m[1]})
    BY <1>0, <1>5 DEF Unmount, UpdateMount, StoreTypeOK
  <2> QED
    BY <1>0, <1>a, <2>1, ClearsOn
<1>6. ASSUME NEW h \in Managers, Cascade(h)
      PROVE  ManagersKnow'
  <2>1. \E S \in SUBSET Agents : Clears(h, S)
    BY <1>0, <1>6 DEF Cascade, Cascaded, Parents, ManagersKnow, Created
  <2> QED
    BY <1>0, <1>a, <2>1, ClearsOn
<1>7. ASSUME NEW h \in Managers, ClearNext(h) \/ DeleteAgentCommit(h)
      PROVE  ManagersKnow'
  <2>1. manager[h].clears \in SUBSET Agents
    BY <1>0 DEF ManagersKnow, ManagerType
  <2>2. \E S \in SUBSET Agents : Clears(h, S)
    BY <1>7, <2>1 DEF ClearNext, DeleteAgentCommit
  <2> QED
    BY <1>0, <1>a, <2>2, ClearsOn
<1>8. ASSUME NEW h \in Managers, MountCommit(h)
      PROVE  ManagersKnow'
  <2>1. Manage(h, NotManaging) \/ \E S \in SUBSET Agents : Clears(h, S)
    BY <1>0, <1>8 DEF MountCommit, ManagersKnow, Created
  <2> QED
    BY <1>0, <1>a, <2>1, AtRest, ClearsOn, OneManages
<1>9. ASSUME NEW h \in Managers, SettingsClear(h)
      PROVE  ManagersKnow'
  <2> DEFINE r == [NotManaging EXCEPT !.does = "commit"]
  <2>1. r \in ManagerType /\ r.does = "commit"
    BY DEF NotManaging, ManagerType
  <2>2. Manage(h, r)
    BY <1>9 DEF SettingsClear
  <2> HIDE DEF r
  <2> QED
    BY <1>0, <1>a, <2>1, <2>2, OneManages
<1>10. ASSUME NEW h \in Managers, SettingsCommit(h)
      PROVE  ManagersKnow'
  BY <1>0, <1>a, <1>10, AtRest, OneManages DEF SettingsCommit
<1>11. CASE UNCHANGED manager
  BY <1>0, <1>a, <1>11 DEF ManagersKnow
<1> QED
  BY <1>1, <1>2, <1>3, <1>4, <1>5, <1>6, <1>7, <1>8, <1>9, <1>10, <1>11 DEF AgentNext,
    ManagerStep,
    ChatBuild, ChatFetch, ChatService, ChatFetched, UpdateServers, ToolsExpire, CreateAgent

\* Chats whose services are older now are where they were.
LEMMA ChatsAge ==
  ASSUME ChatsKnow, \A a : Created(a) => Created(a)', NEW S \in SUBSET Agents,
         \/ chat' = [c \in Chats |-> [chat[c] EXCEPT !.service = Aged(@, S)]]
         \/ AgeOwn(S)
  PROVE  ChatsKnow'
<1>1. ASSUME NEW c \in Chats
      PROVE  /\ chat'[c] \in ChatType
             /\ chat'[c].does = chat[c].does /\ chat'[c].agent = chat[c].agent
             /\ chat[c].service \in Services => chat'[c].service \in Services
  <2>1. PICK k \in ChatType : k = chat[c]
    BY DEF ChatsKnow
  <2>2. \E T \in SUBSET Agents : chat'[c] = k \/ chat'[c] = [k EXCEPT !.service = Aged(@, T)]
    BY <2>1 DEF AgeOwn
  <2>3. PICK T \in SUBSET Agents : chat'[c] = k \/ chat'[c] = [k EXCEPT !.service = Aged(@, T)]
    BY <2>2
  <2>4. PICK s : s = Aged(k.service, T)
    OBVIOUS
  <2>5. s \in Services \cup {NoService} /\ (k.service \in Services => s \in Services)
    BY <2>4, AgedIsTyped DEF ChatType
  <2>6. CASE chat'[c] = [k EXCEPT !.service = s]
    BY <2>1, <2>5, <2>6 DEF ChatType
  <2> QED
    BY <2>1, <2>3, <2>4, <2>6
<1>2. chat' = [c \in Chats |-> chat'[c]]
  BY DEF AgeOwn
<1> QED
  BY <1>1, <1>2 DEF ChatsKnow

\* A chat goes on, and the others stay where they are,
LEMMA OneChats ==
  ASSUME ChatsKnow, \A a : Created(a) => Created(a)', NEW c \in Chats, NEW k \in ChatType,
         chat' = [chat EXCEPT ![c] = k],
         k.does = "store" => Created(k.agent),
         k.does = "fetching" => k.agent \in Agents,
         k.does # "rest" => k.service \in Services
  PROVE  ChatsKnow'
  BY DEF ChatsKnow

\* as when it has the tools of one agent more.
LEMMA FetchIsEquipped ==
  ASSUME ChatsKnow, NEW c \in Chats, chat[c].does # "rest", NEW a
  PROVE  /\ Equipped(c, a) \in ChatType /\ Equipped(c, a).does \in {"rest", "fetch"}
         /\ Equipped(c, a).does # "rest" => Equipped(c, a).service \in Services
<1>1. PICK k \in ChatType : k = chat[c] /\ k.service \in Services
  BY DEF ChatsKnow
<1>2. PICK s : s = [agents |-> k.service.agents \ {a}, old |-> k.service.old \ {a}]
  OBVIOUS
<1>3. s \in Services
  BY <1>1, <1>2 DEF Services
<1>4. PICK j : j = [k EXCEPT !.does = "fetch", !.agent = NoAgent, !.service = s]
  OBVIOUS
<1>5. j \in ChatType /\ j.does = "fetch" /\ j.service \in Services
  BY <1>1, <1>3, <1>4 DEF ChatType
<1>6. CASE Equipped(c, a) = NotChatting
  BY <1>6, AtRest
<1>7. Equipped(c, a) = NotChatting \/ Equipped(c, a) = j
  BY <1>1, <1>2, <1>4 DEF Equipped
<1> QED
  BY <1>5, <1>6, <1>7

\* Every step keeps what chats know,
LEMMA ChatsKept ==
  ASSUME AgentInv, AgentNext
  PROVE  ChatsKnow'
<1>0. ChatsKnow /\ StoreTypeOK /\ \A a : Created(a) => Created(a)'
  BY CreatedStays DEF AgentInv, AgentTyped
<1>1. ASSUME NEW h \in Managers, NEW a \in Agents, UpdateAgent(h, a)
      PROVE  ChatsKnow'
  <2>1. {a} \in SUBSET Agents /\ chat' = [c \in Chats |-> [chat[c] EXCEPT !.service = Aged(@, {a})]]
    BY <1>1 DEF UpdateAgent, Age
  <2> QED
    BY <1>0, <2>1, ChatsAge
<1>2. ASSUME NEW h \in Managers, NEW m \in mounts, UpdateMount(h, m)
      PROVE  ChatsKnow'
  <2>1. {m[1]} \in SUBSET Agents /\ AgeOwn({m[1]})
    BY <1>0, <1>2 DEF UpdateMount, StoreTypeOK
  <2> QED
    BY <1>0, <2>1, ChatsAge
<1>3. ASSUME NEW h \in Managers, SettingsCommit(h)
      PROVE  ChatsKnow'
  BY <1>0, <1>3, ChatsAge DEF SettingsCommit
<1>4. ASSUME NEW a \in Agents, UpdateServers(a)
      PROVE  ChatsKnow'
  <2>1. {a} \in SUBSET Agents /\ chat' = [c \in Chats |-> [chat[c] EXCEPT !.service = Aged(@, {a})]]
    BY <1>4 DEF UpdateServers
  <2> QED
    BY <1>0, <2>1, ChatsAge
<1>5. ASSUME NEW c \in Chats, NEW a \in Agents, ChatBuild(c, a)
      PROVE  ChatsKnow'
  <2>1. PICK s : s = UpToDate(a)
    OBVIOUS
  <2> DEFINE k == [NotChatting EXCEPT !.does = "store", !.agent = a, !.service = s]
  <2>2. s \in Services
    BY <2>1, ServiceIsTyped
  <2>3. k \in ChatType /\ k.does = "store" /\ k.agent = a /\ k.service \in Services
    BY <2>2 DEF NotChatting, ChatType
  <2>4. chat' = [chat EXCEPT ![c] = k] /\ Created(a)
    BY <1>5, <2>1 DEF ChatBuild, LiveAgents, Created
  <2> HIDE DEF k
  <2> QED
    BY <1>0, <2>3, <2>4, OneChats
<1>6. ASSUME NEW c \in Chats, ChatService(c)
      PROVE  ChatsKnow'
  <2>1. PICK j \in ChatType : j = chat[c]
    BY <1>0 DEF ChatsKnow
  <2> DEFINE k == [j EXCEPT !.does = "fetch", !.agent = NoAgent]
  <2>2. k \in ChatType /\ k.does = "fetch" /\ k.service \in Services
    BY <1>0, <1>6, <2>1 DEF ChatsKnow, ChatService, ChatType
  <2>3. CASE chat' = [chat EXCEPT ![c] = NotChatting]
    BY <1>0, <2>3, AtRest, OneChats
  <2>4. CASE chat' = [chat EXCEPT ![c].does = "fetch", ![c].agent = NoAgent]
    <3>1. chat' = [chat EXCEPT ![c] = k]
      BY <1>0, <2>1, <2>4 DEF ChatsKnow, ChatType
    <3> HIDE DEF k
    <3> QED
      BY <1>0, <2>2, <3>1, OneChats
  <2> QED
    BY <1>6, <2>3, <2>4 DEF ChatService
<1>7. ASSUME NEW c \in Chats, NEW a \in Agents, ChatFetch(c, a)
      PROVE  ChatsKnow'
  <2>1. PICK j \in ChatType : j = chat[c]
    BY <1>0 DEF ChatsKnow
  <2> DEFINE k == [j EXCEPT !.does = "fetching", !.agent = a]
  <2>2. k \in ChatType /\ k.does = "fetching" /\ k.agent = a /\ k.service \in Services
    BY <1>0, <1>7, <2>1 DEF ChatsKnow, ChatFetch, ChatType
  <2>3. chat' = [chat EXCEPT ![c] = k] \/ chat' = [chat EXCEPT ![c] = Equipped(c, a)]
    BY <1>7, <2>1 DEF ChatFetch
  <2> HIDE DEF k
  <2>4. /\ Equipped(c, a) \in ChatType /\ Equipped(c, a).does \in {"rest", "fetch"}
        /\ Equipped(c, a).does # "rest" => Equipped(c, a).service \in Services
    BY <1>0, <1>7, FetchIsEquipped DEF ChatFetch, ChatFetched
  <2> QED
    BY <1>0, <2>2, <2>3, <2>4, OneChats
<1>8. ASSUME NEW c \in Chats, ChatFetched(c)
      PROVE  ChatsKnow'
  <2>1. PICK a : a = chat[c].agent
    OBVIOUS
  <2>2. /\ Equipped(c, a) \in ChatType /\ Equipped(c, a).does \in {"rest", "fetch"}
        /\ Equipped(c, a).does # "rest" => Equipped(c, a).service \in Services
    BY <1>0, <1>8, FetchIsEquipped DEF ChatFetch, ChatFetched
  <2>3. chat' = [chat EXCEPT ![c] = Equipped(c, a)]
    BY <1>8, <2>1 DEF ChatFetched
  <2> QED
    BY <1>0, <2>2, <2>3, OneChats
<1>9. CASE UNCHANGED chat
  BY <1>0, <1>9 DEF ChatsKnow
<1> QED
  BY <1>1, <1>2, <1>3, <1>4, <1>5, <1>6, <1>7, <1>8, <1>9 DEF AgentNext, ManagerStep,
    DeleteAgentRead, MountRead, ReplaceMounts, Unmount, Cascade, ClearNext, DeleteAgentCommit,
    MountCommit,
    SettingsClear, ToolsExpire, CreateAgent

\* the type of the cache,
LEMMA CacheIsTyped ==
  ASSUME AgentInv, AgentNext
  PROVE  CacheTypeOK'
<1>0. StoreTypeOK /\ CacheTypeOK /\ ChatsKnow
  BY DEF AgentInv, AgentTyped
<1>1. ASSUME NEW h \in Managers, NEW a \in Agents, UpdateAgent(h, a)
      PROVE  CacheTypeOK'
  BY <1>0, <1>1, AgedIsTyped DEF UpdateAgent, Age, CacheTypeOK
<1>2. ASSUME NEW h \in Managers, NEW m \in mounts, UpdateMount(h, m)
      PROVE  CacheTypeOK'
  BY <1>0, <1>2, AgedIsTyped DEF UpdateMount, AgeOwn, StoreTypeOK, CacheTypeOK
<1>3. ASSUME NEW h \in Managers, SettingsClear(h)
      PROVE  CacheTypeOK'
  BY <1>0, <1>3 DEF SettingsClear, CacheTypeOK
<1>4. ASSUME NEW h \in Managers, SettingsCommit(h)
      PROVE  CacheTypeOK'
  <2>1. cache' = [a \in Agents |-> Aged(cache[a], Agents \cap {a})]
    BY <1>4 DEF SettingsCommit, AgeOwn
  <2>2. \A a \in Agents : Aged(cache[a], Agents \cap {a}) \in Services \cup {NoService}
    BY <1>0, AgedIsTyped DEF CacheTypeOK
  <2> QED
    BY <2>1, <2>2 DEF CacheTypeOK
<1>5. ASSUME NEW h \in Managers, Cascade(h) \/ ClearNext(h)
      PROVE  CacheTypeOK'
  BY <1>0, <1>5 DEF Cascade, ClearNext, Cleared, CacheTypeOK
<1>6. ASSUME NEW a \in Agents, UpdateServers(a)
      PROVE  CacheTypeOK'
  BY <1>0, <1>6, AgedIsTyped DEF UpdateServers, CacheTypeOK
<1>7. ASSUME NEW c \in Chats, ChatService(c)
      PROVE  CacheTypeOK'
  BY <1>0, <1>7 DEF ChatService, CacheTypeOK, ChatsKnow
<1>8. CASE UNCHANGED cache
  BY <1>0, <1>8 DEF CacheTypeOK
<1> QED
  BY <1>1, <1>2, <1>3, <1>4, <1>5, <1>6, <1>7, <1>8 DEF AgentNext, ManagerStep,
    DeleteAgentRead, MountRead, ReplaceMounts, Unmount, DeleteAgentCommit, MountCommit,
    ChatBuild, ChatFetch, ChatFetched, ToolsExpire, CreateAgent

\* and what is stored.
LEMMA StoreKept ==
  ASSUME AgentInv, AgentNext
  PROVE  StoreTypeOK' /\ NoneYet' /\ OldIsCovered'
<1>0. StoreTypeOK /\ CacheTypeOK /\ ManagersKnow /\ ChatsKnow /\ NoneYet /\ OldIsCovered
  BY DEF AgentInv, AgentTyped
<1>1. ASSUME NEW h \in Managers, NEW a \in Agents, UpdateAgent(h, a)
      PROVE  StoreTypeOK' /\ NoneYet' /\ OldIsCovered'
  BY <1>0, <1>1 DEF UpdateAgent, Age, Aged, Manage,
    StoreTypeOK, NoneYet, OldIsCovered, ManagersKnow, Created, ManagerType, CacheTypeOK,
    NotManaging, LiveAgents
<1>2. ASSUME NEW h \in Managers, NEW a \in Agents, NEW b \in Agents, DeleteAgentRead(h,
             a) \/ MountRead(h, a, b)
      PROVE  StoreTypeOK' /\ NoneYet' /\ OldIsCovered'
  BY <1>0, <1>2 DEF DeleteAgentRead, MountRead, Manage,
    StoreTypeOK, NoneYet, OldIsCovered, ManagersKnow, Created, ManagerType, CacheTypeOK,
    NotManaging, LiveAgents
<1>3. ASSUME NEW h \in Managers, NEW a \in Agents, NEW S \in SUBSET Agents, ReplaceMounts(h, a, S)
      PROVE  StoreTypeOK' /\ NoneYet' /\ OldIsCovered'
  BY <1>0, <1>3 DEF ReplaceMounts, Clears, Manage,
    StoreTypeOK, NoneYet, OldIsCovered, ManagersKnow, Created, ManagerType, CacheTypeOK,
    NotManaging, LiveAgents
<1>4. ASSUME NEW h \in Managers, NEW m \in mounts, Unmount(h, m) \/ UpdateMount(h, m)
      PROVE  StoreTypeOK' /\ NoneYet' /\ OldIsCovered'
  BY <1>0, <1>4 DEF Unmount, UpdateMount, AgeOwn, Aged, Clears, Manage,
    StoreTypeOK, NoneYet, OldIsCovered, ManagersKnow, Created, ManagerType, CacheTypeOK,
    NotManaging, LiveAgents
<1>5. ASSUME NEW h \in Managers, Cascade(h)
      PROVE  StoreTypeOK' /\ NoneYet' /\ OldIsCovered'
  BY <1>0, <1>5 DEF Cascade, Cleared, Clears, Manage,
    StoreTypeOK, NoneYet, OldIsCovered, ManagersKnow, Created, ManagerType, CacheTypeOK,
    NotManaging, LiveAgents
<1>6. ASSUME NEW h \in Managers, ClearNext(h)
      PROVE  StoreTypeOK' /\ NoneYet' /\ OldIsCovered'
  BY <1>0, <1>6 DEF ClearNext, Cleared, Clears, Manage,
    StoreTypeOK, NoneYet, OldIsCovered, ManagersKnow, Created, ManagerType, CacheTypeOK,
    NotManaging, LiveAgents
<1>7. ASSUME NEW h \in Managers, DeleteAgentCommit(h)
      PROVE  StoreTypeOK' /\ NoneYet' /\ OldIsCovered'
  BY <1>0, <1>7 DEF DeleteAgentCommit, Parents, Clears, Manage,
    StoreTypeOK, NoneYet, OldIsCovered, ManagersKnow, Created, ManagerType, CacheTypeOK,
    NotManaging, LiveAgents
<1>8. ASSUME NEW h \in Managers, MountCommit(h)
      PROVE  StoreTypeOK' /\ NoneYet' /\ OldIsCovered'
  BY <1>0, <1>8 DEF MountCommit, Clears, Manage,
    StoreTypeOK, NoneYet, OldIsCovered, ManagersKnow, Created, ManagerType, CacheTypeOK,
    NotManaging, LiveAgents
<1>9. ASSUME NEW h \in Managers, SettingsClear(h)
      PROVE  StoreTypeOK' /\ NoneYet' /\ OldIsCovered'
  BY <1>0, <1>9 DEF SettingsClear, Manage,
    StoreTypeOK, NoneYet, OldIsCovered, ManagersKnow, Created, ManagerType, CacheTypeOK,
    NotManaging, LiveAgents
<1>10. ASSUME NEW h \in Managers, SettingsCommit(h)
      PROVE  StoreTypeOK' /\ NoneYet' /\ OldIsCovered'
  BY <1>0, <1>10 DEF SettingsCommit, AgeOwn, Aged, Manage,
    StoreTypeOK, NoneYet, OldIsCovered, ManagersKnow, Created, ManagerType, CacheTypeOK,
    NotManaging, LiveAgents
<1>11. ASSUME NEW c \in Chats, NEW a \in Agents, ChatBuild(c, a) \/ ChatFetch(c, a)
      PROVE  StoreTypeOK' /\ NoneYet' /\ OldIsCovered'
  BY <1>0, <1>11 DEF ChatBuild, ChatFetch,
    StoreTypeOK, NoneYet, OldIsCovered, ManagersKnow, Created, ManagerType, CacheTypeOK,
    NotManaging, LiveAgents
<1>12. ASSUME NEW c \in Chats, ChatService(c)
      PROVE  StoreTypeOK' /\ NoneYet' /\ OldIsCovered'
  BY <1>0, <1>12 DEF ChatService, ChatsKnow,
    StoreTypeOK, NoneYet, OldIsCovered, ManagersKnow, Created, ManagerType, CacheTypeOK,
    NotManaging, LiveAgents
<1>13. ASSUME NEW c \in Chats, ChatFetched(c)
      PROVE  StoreTypeOK' /\ NoneYet' /\ OldIsCovered'
  BY <1>0, <1>13 DEF ChatFetched, ChatsKnow,
    StoreTypeOK, NoneYet, OldIsCovered, ManagersKnow, Created, ManagerType, CacheTypeOK,
    NotManaging, LiveAgents
<1>14. ASSUME NEW a \in Agents, UpdateServers(a) \/ ToolsExpire(a)
      PROVE  StoreTypeOK' /\ NoneYet' /\ OldIsCovered'
  BY <1>0, <1>14 DEF UpdateServers, ToolsExpire, Aged,
    StoreTypeOK, NoneYet, OldIsCovered, ManagersKnow, Created, ManagerType, CacheTypeOK,
    NotManaging, LiveAgents
<1>15. ASSUME NEW a \in Agents, NEW S \in SUBSET Agents, CreateAgent(a, S)
      PROVE  StoreTypeOK' /\ NoneYet' /\ OldIsCovered'
  BY <1>0, <1>15 DEF CreateAgent,
    StoreTypeOK, NoneYet, OldIsCovered, ManagersKnow, Created, ManagerType, CacheTypeOK,
    NotManaging, LiveAgents
<1> QED
  BY <1>1, <1>2, <1>3, <1>4, <1>5, <1>6, <1>7, <1>8, <1>9, <1>10, <1>11, <1>12, <1>13, <1>14,
    <1>15 DEF AgentNext, ManagerStep

\* What CacheFresh says of one agent.
FreshFor(a) == (a \notin overtaken => cache[a] \in {NoService, UpToDate(a)}) /\ tools[a] # "old"

\* What has nothing to do with an agent leaves its cache fresh.
LEMMA FreshStays ==
  ASSUME AgentInv, NEW a \in Agents, life[a] = "live", ~ ToBeCleared(a),
         cache'[a] = NoService \/ a \in overtaken' \/ (a \notin overtaken /\ cache'[a] = cache[a]),
         tools'[a] \in {tools[a], "none", "new", "late"},
         UpToDate(a)' = UpToDate(a)
  PROVE  FreshFor(a)'
<1>1. FreshFor(a)
  BY DEF AgentInv, CacheFresh, FreshFor, LiveAgents
<1> QED
  BY <1>1 DEF FreshFor

\* An agent whose mounts stay, and whose children stay as live as they were, is made of the
\* same.
LEMMA MadeOfTheSame ==
  ASSUME NEW a \in Agents,
         \A b \in Agents : <<a, b>> \in mounts => (<<a, b>> \in mounts' /\ life'[b] = life[b]),
         \A b \in Agents : <<a, b>> \in mounts' => <<a, b>> \in mounts
  PROVE  UpToDate(a)' = UpToDate(a)
<1>1. (Children(a) \cap LiveAgents)' = Children(a) \cap LiveAgents
  BY DEF Children, LiveAgents
<1> QED
  BY <1>1 DEF UpToDate, MadeOf

\* What other requests are to clear they are still to clear,
LEMMA StillCleared ==
  ASSUME AgentInv, NEW h \in Managers,
         \A g \in Managers \ {h} : manager'[g] = manager[g],
         NEW a \in Agents, ToBeCleared(a), \A b \in Agents : <<a, b>> \in mounts => <<a,
         b>> \in mounts',
         manager[h].does \notin {"cascade", "clear"}
  PROVE  ToBeCleared(a)'
<1>1. \A g \in Managers : manager[g].does = "cascade" => manager[g].agent \in Agents
  BY DEF AgentInv, AgentTyped, ManagersKnow, Created
<1> QED
  BY <1>1 DEF ToBeCleared, Parents

\* and all of it if no request goes on.
LEMMA SameCleared ==
  ASSUME UNCHANGED <<manager, mounts>>, NEW a
  PROVE  ToBeCleared(a)' <=> ToBeCleared(a)
  BY DEF ToBeCleared, Parents

\* A fresh service that is not made of what has changed is not older now.
LEMMA FreshAges ==
  ASSUME AgentInv, NEW a \in Agents, life[a] = "live", ~ ToBeCleared(a), a \notin overtaken,
         NEW S \in SUBSET Agents, S \cap MadeOf(a) = {}
  PROVE  Aged(cache[a], S) = cache[a]
<1>1. cache[a] \in Services \cup {NoService}
  BY DEF AgentInv, AgentTyped, CacheTypeOK
<1>2. cache[a] = NoService \/ cache[a] = UpToDate(a)
  BY DEF AgentInv, CacheFresh, LiveAgents
<1>3. cache[a] = NoService \/ S \cap cache[a].agents = {}
  BY <1>2, ServiceIsTyped
<1> QED
  BY <1>1, <1>3, AgedIsTyped

\* Every step keeps each live agent's cache fresh, or a request is to clear it.
LEMMA FreshKept ==
  ASSUME AgentInv, AgentNext, NEW a \in Agents, life'[a] = "live", ~ ToBeCleared(a)'
  PROVE  FreshFor(a)'
<1>0. /\ AgentInv /\ life'[a] = "live" /\ ~ ToBeCleared(a)' /\ a \in Agents
      /\ StoreTypeOK /\ CacheTypeOK /\ ManagersKnow /\ ChatsKnow /\ NoneYet /\ OldIsCovered
  BY DEF AgentInv, AgentTyped
<1>a. \A b : Created(b) => Created(b)'
  BY CreatedStays
<1>1. ASSUME NEW h \in Managers, NEW b \in Agents, UpdateAgent(h, b)
      PROVE  FreshFor(a)'
  <2>1. /\ UNCHANGED <<life, mounts, overtaken>> /\ Age({b}) /\ manager[h].does = "rest"
        /\ Manage(h, [NotManaging EXCEPT !.does = "cascade", !.agent = b, !.clears = {b}])
    BY <1>1, AtRest DEF UpdateAgent
  <2>2. /\ \A g \in Managers \ {h} : manager'[g] = manager[g]
        /\ manager'[h].does = "cascade" /\ manager'[h].agent = b /\ manager'[h].clears = {b}
    BY <1>0, <2>1 DEF Manage, ManagersKnow, NotManaging
  <2>3. a # b /\ <<a, b>> \notin mounts
    BY <1>0, <2>1, <2>2 DEF ToBeCleared, Parents
  <2>4. ~ ToBeCleared(a)
    BY <1>0, <2>1, <2>2, StillCleared
  <2>5. {b} \cap MadeOf(a) = {}
    BY <2>3 DEF MadeOf, Children
  <2>6. cache'[a] = Aged(cache[a], {b}) /\ tools'[a] = tools[a]
    BY <1>0, <2>1, <2>3 DEF Age, StoreTypeOK
  <2>7. a \in overtaken \/ cache'[a] = cache[a]
    BY <1>0, <2>1, <2>4, <2>5, <2>6, FreshAges
  <2> QED
    BY <1>0, <2>1, <2>4, <2>6, <2>7, FreshStays, MadeOfTheSame
<1>2. ASSUME NEW h \in Managers, NEW b \in Agents, NEW d \in Agents, DeleteAgentRead(h,
             b) \/ MountRead(h, b, d)
      PROVE  FreshFor(a)'
  <2>1. /\ UNCHANGED <<life, mounts, cache, tools, overtaken>> /\ manager[h].does = "rest"
        /\ \E r : Manage(h, r)
    BY <1>2, AtRest DEF DeleteAgentRead, MountRead
  <2>2. \A g \in Managers \ {h} : manager'[g] = manager[g]
    BY <1>0, <2>1 DEF Manage, ManagersKnow
  <2>3. ~ ToBeCleared(a)
    BY <1>0, <2>1, <2>2, StillCleared
  <2> QED
    BY <1>0, <2>1, <2>3, FreshStays, MadeOfTheSame
<1>3. ASSUME NEW h \in Managers, NEW b \in Agents, NEW S \in SUBSET Agents, ReplaceMounts(h, b, S)
      PROVE  FreshFor(a)'
  <2>1. /\ UNCHANGED <<life, cache, tools, overtaken>> /\ manager[h].does = "rest" /\ Clears(h, {b})
        /\ mounts' = {m \in mounts : m[1] # b} \cup ({b} \X S)
    BY <1>3, AtRest DEF ReplaceMounts
  <2>2. a # b /\ \A g \in Managers \ {h} : manager'[g] = manager[g]
    BY <1>0, <1>a, <2>1, ClearsOn DEF ToBeCleared
  <2>3. \A d \in Agents : <<a, d>> \in mounts <=> <<a, d>> \in mounts'
    BY <2>1, <2>2
  <2>4. ~ ToBeCleared(a)
    BY <1>0, <2>1, <2>2, <2>3, StillCleared
  <2> QED
    BY <1>0, <2>1, <2>3, <2>4, FreshStays, MadeOfTheSame
<1>4. ASSUME NEW h \in Managers, NEW m \in mounts, Unmount(h, m) \/ UpdateMount(h, m)
      PROVE  FreshFor(a)'
  <2>1. PICK b, d \in Agents : m = <<b, d>>
    BY <1>0 DEF StoreTypeOK
  <2>2. /\ UNCHANGED <<life, tools, overtaken>> /\ manager[h].does = "rest" /\ Clears(h, {b})
        /\ mounts' \in {mounts, mounts \ {m}}
        /\ UNCHANGED cache \/ AgeOwn({b})
    BY <1>4, <2>1, AtRest DEF Unmount, UpdateMount
  <2>3. a # b /\ \A g \in Managers \ {h} : manager'[g] = manager[g]
    BY <1>0, <1>a, <2>1, <2>2, ClearsOn DEF ToBeCleared
  <2>4. \A e \in Agents : <<a, e>> \in mounts <=> <<a, e>> \in mounts'
    BY <2>1, <2>2, <2>3
  <2>5. ~ ToBeCleared(a)
    BY <1>0, <2>2, <2>3, <2>4, StillCleared
  <2>6. cache'[a] = cache[a]
    <3>1. {b} \cap {a} = {}
      BY <2>3
    <3>2. CASE AgeOwn({b})
      <4>1. cache'[a] = Aged(cache[a], {b} \cap {a})
        BY <3>2 DEF AgeOwn
      <4> QED
        BY <1>0, <3>1, <4>1, AgedIsTyped DEF CacheTypeOK
    <3> QED
      BY <2>2, <3>2
  <2> QED
    BY <1>0, <2>2, <2>4, <2>5, <2>6, FreshStays, MadeOfTheSame
<1>5. ASSUME NEW h \in Managers, Cascade(h)
      PROVE  FreshFor(a)'
  <2>1. PICK b \in Agents : /\ b = manager[h].agent /\ manager[h].does = "cascade"
                            /\ manager[h].clears = {b} /\ Cleared({b})
                            /\ Clears(h, Cascaded(b) \ {b}) /\ UNCHANGED <<life, mounts, chat>>
    BY <1>0, <1>5 DEF Cascade, ManagersKnow, Created
  <2>2. CASE a = b
    BY <2>1, <2>2 DEF Cleared, FreshFor
  <2>3. CASE a # b
    <3>1. Cascaded(b) \ {b} \in SUBSET Agents
      BY DEF Cascaded, Parents
    <3>2. /\ \A g \in Managers \ {h} : manager'[g] = manager[g]
          /\ a \notin Cascaded(b)
      BY <1>0, <1>a, <2>1, <2>3, <3>1, ClearsOn DEF ToBeCleared
    <3>3. ~ ToBeCleared(a)
      BY <1>0, <2>1, <2>3, <3>2 DEF ToBeCleared, Cascaded, Parents
    <3>4. cache'[a] = cache[a] /\ tools'[a] = tools[a] /\ (a \in overtaken => a \in overtaken')
      BY <1>0, <2>1, <2>3 DEF Cleared
    <3> QED
      BY <1>0, <2>1, <3>3, <3>4, FreshStays, MadeOfTheSame
  <2> QED
    BY <2>2, <2>3
<1>6. ASSUME NEW h \in Managers, ClearNext(h)
      PROVE  FreshFor(a)'
  <2>1. PICK b \in manager[h].clears : /\ manager[h].does = "clear" /\ Cleared({b})
                                       /\ Clears(h, manager[h].clears \ {b})
                                       /\ UNCHANGED <<life, mounts, chat>>
    BY <1>6 DEF ClearNext
  <2>2. CASE a = b
    BY <2>1, <2>2 DEF Cleared, FreshFor
  <2>3. CASE a # b
    <3>1. manager[h].clears \ {b} \in SUBSET Agents
      BY <1>0 DEF ManagersKnow, ManagerType
    <3>2. /\ \A g \in Managers \ {h} : manager'[g] = manager[g]
          /\ a \notin manager[h].clears
      BY <1>0, <1>a, <2>1, <2>3, <3>1, ClearsOn DEF ToBeCleared
    <3>3. ~ ToBeCleared(a)
      BY <1>0, <2>1, <2>3, <3>2 DEF ToBeCleared, Parents
    <3>4. cache'[a] = cache[a] /\ tools'[a] = tools[a] /\ (a \in overtaken => a \in overtaken')
      BY <1>0, <2>1, <2>3 DEF Cleared
    <3> QED
      BY <1>0, <2>1, <3>3, <3>4, FreshStays, MadeOfTheSame
  <2> QED
    BY <2>2, <2>3
<1>7. ASSUME NEW h \in Managers, DeleteAgentCommit(h)
      PROVE  FreshFor(a)'
  <2>1. PICK b \in Agents : /\ b = manager[h].agent /\ manager[h].does = "delete"
                            /\ life' = [life EXCEPT ![b] = "deleted"]
                            /\ mounts' = {m \in mounts : b \notin {m[1], m[2]}}
                            /\ overtaken' = overtaken \cup
                                 {d \in Parents(b) \ manager[h].clears : cache[d] # NoService}
                            /\ Clears(h, manager[h].clears) /\ UNCHANGED <<cache, tools, chat>>
    BY <1>0, <1>7 DEF DeleteAgentCommit, ManagersKnow, Created
  <2>2. a # b /\ life[a] = "live"
    BY <1>0, <2>1 DEF StoreTypeOK
  <2>3. manager[h].clears \in SUBSET Agents
    BY <1>0 DEF ManagersKnow, ManagerType
  <2>4. /\ \A g \in Managers \ {h} : manager'[g] = manager[g]
        /\ a \notin manager[h].clears
    BY <1>0, <1>a, <2>1, <2>3, ClearsOn DEF ToBeCleared
  <2>5. CASE <<a, b>> \in mounts
    <3>1. cache[a] = NoService \/ a \in overtaken'
      BY <2>1, <2>4, <2>5 DEF Parents
    <3>2. tools[a] # "old"
      BY <1>0, <2>1, <2>4 DEF OldIsCovered, ToBeCleared, ManagersKnow
    <3> QED
      BY <2>1, <3>1, <3>2 DEF FreshFor
  <2>6. CASE <<a, b>> \notin mounts
    <3>1. \A d \in Agents : <<a, d>> \in mounts <=> <<a, d>> \in mounts'
      BY <2>1, <2>2, <2>6
    <3>2. ~ ToBeCleared(a)
      BY <1>0, <2>1, <2>4, <3>1, StillCleared
    <3>3. UpToDate(a)' = UpToDate(a)
      BY <1>0, <2>1, <2>6, <3>1, MadeOfTheSame DEF StoreTypeOK
    <3> QED
      BY <1>0, <2>1, <2>2, <3>2, <3>3, FreshStays
  <2> QED
    BY <2>5, <2>6
<1>8. ASSUME NEW h \in Managers, MountCommit(h)
      PROVE  FreshFor(a)'
  <2>1. PICK b, d \in Agents : /\ b = manager[h].agent /\ d = manager[h].child
                               /\ manager[h].does = "mount"
                               /\ UNCHANGED <<life, cache, tools, overtaken>>
                               /\ mounts' = mounts \cup {<<b, d>>}
                               /\ \/ <<b, d>> \in mounts /\ Manage(h, NotManaging)
                                  \/ Clears(h, {b})
    BY <1>0, <1>8 DEF MountCommit, ManagersKnow, Created
  <2>2. \A g \in Managers \ {h} : manager'[g] = manager[g]
    BY <1>0, <1>a, <2>1, ClearsOn DEF Manage, ManagersKnow
  <2>3. \A e \in Agents : <<a, e>> \in mounts <=> <<a, e>> \in mounts'
    BY <1>0, <1>a, <2>1, ClearsOn DEF ToBeCleared
  <2>4. ~ ToBeCleared(a)
    BY <1>0, <2>1, <2>2, <2>3, StillCleared
  <2> QED
    BY <1>0, <2>1, <2>3, <2>4, FreshStays, MadeOfTheSame
<1>9. ASSUME NEW h \in Managers, SettingsClear(h)
      PROVE  FreshFor(a)'
  BY <1>0, <1>9 DEF SettingsClear, FreshFor
<1>10. ASSUME NEW h \in Managers, SettingsCommit(h)
      PROVE  FreshFor(a)'
  <2>1. /\ UNCHANGED <<life, mounts, tools>> /\ manager[h].does = "commit" /\ Manage(h, NotManaging)
        /\ AgeOwn(Agents) /\ overtaken' = overtaken \cup {d \in Agents : cache[d] # NoService}
    BY <1>10 DEF SettingsCommit
  <2>2. \A g \in Managers \ {h} : manager'[g] = manager[g]
    BY <1>0, <2>1 DEF Manage, ManagersKnow
  <2>3. ~ ToBeCleared(a)
    BY <1>0, <2>1, <2>2, StillCleared
  <2>4. cache'[a] = NoService \/ a \in overtaken'
    BY <2>1 DEF AgeOwn, Aged
  <2> QED
    BY <1>0, <2>1, <2>3, <2>4, FreshStays, MadeOfTheSame
<1>11. ASSUME NEW c \in Chats, ChatService(c)
      PROVE  FreshFor(a)'
  <2>1. UNCHANGED <<life, mounts, tools, manager>>
    BY <1>11 DEF ChatService
  <2>2. ~ ToBeCleared(a) /\ UpToDate(a)' = UpToDate(a)
    BY <1>0, <2>1, SameCleared, MadeOfTheSame
  <2>3. CASE UNCHANGED <<cache, overtaken>> \/ a # chat[c].agent
    <3>1. cache'[a] = cache[a] /\ (a \in overtaken => a \in overtaken')
      BY <1>0, <1>11, <2>3 DEF ChatService, CacheTypeOK
    <3> QED
      BY <1>0, <2>1, <2>2, <3>1, FreshStays
  <2>4. CASE ~ UNCHANGED <<cache, overtaken>> /\ a = chat[c].agent
    <3>1. /\ cache' = [cache EXCEPT ![a] = chat[c].service]
          /\ overtaken' = IF chat[c].service # UpToDate(a) THEN overtaken \cup {a} ELSE overtaken
      BY <1>11, <2>4 DEF ChatService
    <3>2. tools[a] # "old"
      BY <1>0, <2>1, <2>2 DEF CacheFresh, AgentInv, LiveAgents
    <3>3. cache'[a] = UpToDate(a) \/ a \in overtaken'
      BY <1>0, <3>1 DEF CacheTypeOK
    <3> QED
      BY <2>1, <2>2, <3>2, <3>3 DEF FreshFor
  <2> QED
    BY <2>3, <2>4
<1>12. ASSUME NEW b \in Agents, ToolsExpire(b) \/ \E c \in Chats : ChatBuild(c,
              b) \/ ChatFetch(c, b) \/ ChatFetched(c)
      PROVE  FreshFor(a)'
  <2>1. UNCHANGED <<life, mounts, cache, overtaken, manager>>
    BY <1>12 DEF ChatBuild, ChatFetch, ChatFetched, ToolsExpire
  <2>2. ~ ToBeCleared(a) /\ UpToDate(a)' = UpToDate(a)
    BY <1>0, <2>1, SameCleared, MadeOfTheSame
  <2>3. tools'[a] \in {tools[a], "none", "new", "late"}
    BY <1>0, <1>12 DEF ChatBuild, ChatFetch, ChatFetched, ToolsExpire, StoreTypeOK
  <2> QED
    BY <1>0, <2>1, <2>2, <2>3, FreshStays
<1>13. ASSUME NEW b \in Agents, UpdateServers(b)
      PROVE  FreshFor(a)'
  <2>1. UNCHANGED <<life, mounts, manager>>
    BY <1>13 DEF UpdateServers
  <2>2. ~ ToBeCleared(a) /\ UpToDate(a)' = UpToDate(a)
    BY <1>0, <2>1, SameCleared, MadeOfTheSame
  <2>3. CASE a \in Cascaded(b)
    BY <1>13, <2>3 DEF UpdateServers, FreshFor
  <2>4. CASE a \notin Cascaded(b)
    <3>1. {b} \cap MadeOf(a) = {}
      BY <2>4 DEF Cascaded, Parents, MadeOf, Children
    <3>2. cache'[a] = Aged(cache[a], {b}) /\ tools'[a] = tools[a] /\ (a \in overtaken => a \in overtaken')
      BY <1>13, <2>4 DEF UpdateServers
    <3>3. a \in overtaken \/ cache'[a] = cache[a]
      BY <1>0, <2>1, <2>2, <3>1, <3>2, FreshAges
    <3> QED
      BY <1>0, <2>1, <2>2, <3>2, <3>3, FreshStays
  <2> QED
    BY <2>3, <2>4
<1>14. ASSUME NEW b \in Agents, NEW S \in SUBSET Agents, CreateAgent(b, S)
      PROVE  FreshFor(a)'
  <2>1. /\ life[b] = "none" /\ life' = [life EXCEPT ![b] = "live"] /\ mounts' = mounts \cup ({b} \X S)
        /\ UNCHANGED <<cache, tools, manager, chat, overtaken>>
    BY <1>14 DEF CreateAgent
  <2>2. CASE a = b
    BY <1>0, <2>1, <2>2 DEF NoneYet, FreshFor
  <2>3. CASE a # b
    <3>1. /\ \A d \in Agents : <<a, d>> \in mounts <=> <<a, d>> \in mounts'
          /\ <<a, b>> \notin mounts /\ life[a] = "live"
      BY <1>0, <2>1, <2>3 DEF NoneYet, StoreTypeOK
    <3>2. ~ ToBeCleared(a)
      BY <1>0, <2>1, <3>1 DEF ToBeCleared, Parents, ManagersKnow, Created
    <3>3. UpToDate(a)' = UpToDate(a)
      BY <1>0, <2>1, <3>1, MadeOfTheSame DEF StoreTypeOK
    <3> QED
      BY <1>0, <2>1, <3>1, <3>2, <3>3, FreshStays
  <2> QED
    BY <2>2, <2>3
<1> QED
  BY <1>1, <1>2, <1>3, <1>4, <1>5, <1>6, <1>7, <1>8, <1>9, <1>10, <1>11, <1>12, <1>13,
    <1>14 DEF AgentNext, ManagerStep

\* The invariant holds at first,
LEMMA AgentStarts == AgentInit => AgentInv
<1> SUFFICES ASSUME AgentInit PROVE AgentInv
  OBVIOUS
<1>1. StoreTypeOK /\ CacheTypeOK /\ ManagersKnow /\ ChatsKnow
  BY AtRest DEF AgentInit, StoreTypeOK, CacheTypeOK, ManagersKnow, ChatsKnow
<1>2. NoneYet /\ OldIsCovered /\ CacheFresh
  BY DEF AgentInit, NoneYet, OldIsCovered, CacheFresh, LiveAgents
<1> QED
  BY <1>1, <1>2 DEF AgentInv, AgentTyped

\* and every step keeps it.
LEMMA AgentKept == AgentInv /\ [AgentNext]_agentVars => AgentInv'
<1> SUFFICES ASSUME AgentInv, [AgentNext]_agentVars PROVE AgentInv'
  OBVIOUS
<1>1. CASE AgentNext
  <2>1. CacheFresh'
    BY <1>1, FreshKept DEF CacheFresh, LiveAgents, FreshFor
  <2> QED
    BY <1>1, <2>1, ManagersKept, ChatsKept, CacheIsTyped, StoreKept DEF AgentInv, AgentTyped
<1>2. CASE UNCHANGED agentVars
  <2>1. AgentTyped' /\ NoneYet' /\ OldIsCovered'
    BY <1>2 DEF agentVars, AgentInv, AgentTyped, NoneYet, OldIsCovered, StoreTypeOK, CacheTypeOK,
      ManagersKnow, ChatsKnow, Created
  <2>2. CacheFresh'
    BY <1>2 DEF agentVars, AgentInv, CacheFresh, ToBeCleared, Parents, LiveAgents, UpToDate,
      MadeOf, Children
  <2> QED
    BY <2>1, <2>2 DEF AgentInv
<1> QED
  BY <1>1, <1>2

\* So it holds always.
LEMMA AgentInvariant == AgentSpec => []AgentInv
  BY AgentStarts, AgentKept, PTL DEF AgentSpec

\* A cached service is up to date, and so are cached tools, once the clearing under way is
\* over, whichever agents, mounts and settings are changed by requests that overlap
\* (AgentFactory, MCPToolCache); the exceptions are those the property names.
THEOREM CachesAreFresh == AgentSpec => []CacheFresh
<1>1. AgentInv => CacheFresh
  BY DEF AgentInv
<1> QED
  BY <1>1, AgentInvariant, PTL

\* The types of agents and their caches hold always.
THEOREM AgentTypeCorrect == AgentSpec => []AgentTypeOK
<1>1. AgentInv => AgentTypeOK
  BY AgentTypeParts DEF AgentInv
<1> QED
  BY <1>1, AgentInvariant, PTL
=============================================================================
