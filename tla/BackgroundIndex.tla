---------------------------- MODULE BackgroundIndex ----------------------------
(***************************************************************************)
(* app/service/background_task.py over app/service/search_indexer.py: the  *)
(* background tasks that index the messages of a session and compute their *)
(* embeddings, in a pool of threads, next to the indexing of each new      *)
(* message, the endpoints that do the same work at once, and the scripts   *)
(* that go over pending and failed embeddings.                             *)
(*                                                                         *)
(* A message has at most one row of the search index, and that at most one *)
(* embedding (unique columns); a second insertion waits for the first to   *)
(* be committed and fails, so an insertion is atomic with its commit here. *)
(***************************************************************************)
EXTENDS Integers, FiniteSets

CONSTANTS
  Mails,      \* messages of the session
  Textless,   \* those without text to index
  Short,      \* those whose text is too short for an embedding
  Jobs,       \* runs of an executor over time: tasks of the pool, and endpoint calls
  Workers,    \* threads of the pool
  Every,      \* an index task looks for its cancellation every so many messages
  PageSize,   \* batch_size of backfill and reindex
  Before,     \* messages there are from the start
  SyncEmbedding, \* SEARCH_SYNC_EMBEDDING: embed at once, or leave it to the scripts
  NoKind

ASSUME IndexAssumption ==
  /\ IsFiniteSet(Mails) /\ Textless \subseteq Mails /\ Short \subseteq Mails
  /\ Workers \in Nat \ {0} /\ Every \in Nat \ {0} /\ PageSize \in Nat \ {0}
  /\ Before \subseteq Mails /\ SyncEmbedding \in BOOLEAN

VARIABLES
  stored,     \* messages there are
  indexing,   \* messages whose own indexing, after their creation, is to come
  indexed,    \* messages with a row in the search index
  vector,     \* status of the embedding of each
  kind,       \* what a job does
  status,     \* status column of its task
  at,         \* where it is
  wanted,     \* messages it set out with
  todo,       \* those it has not come to
  done,       \* how many it has gone through
  broken,     \* its ORM session has had a failed flush
  offset,     \* offset of its next page
  page,       \* the page it is computing embeddings for
  cancelling, \* tasks a cancellation has read as pending or running
  batch,      \* rows each script has read and is computing embeddings for
  stale       \* one of them has been deleted since

rowVars    == <<stored, indexing, indexed, vector>>
jobVars    == <<kind, at, wanted, todo, done, broken, offset, page>>
scriptVars == <<batch, stale>>
indexVars  == <<rowVars, jobVars, status, cancelling, scriptVars>>

TaskKinds == {"index", "backfill", "reindex", "vectorize"}
JobKinds  == TaskKinds \cup {"regenerate"}   \* an endpoint: it has no task row
Scripts   == {"pending", "failed"}           \* named for the status they look for
Busy      == {t \in Jobs : kind[t] \in TaskKinds /\ at[t] \notin {"new", "queued", "over", "lost"}}

IndexTypeOK ==
  /\ stored \subseteq Mails /\ indexing \subseteq stored /\ indexed \subseteq stored
  /\ vector \in [Mails -> {"none", "pending", "completed", "failed"}]
  /\ \A m \in Mails \ indexed : vector[m] = "none"
  /\ kind \in [Jobs -> JobKinds \cup {NoKind}]
  /\ status \in [Jobs -> {"none", "pending", "running", "completed", "failed", "cancelled"}]
  /\ at \in [Jobs -> {"new", "queued", "begun", "work", "loop", "page", "embed", "over", "lost"}]
  /\ wanted \in [Jobs -> SUBSET Mails] /\ todo \in [Jobs -> SUBSET Mails]
  /\ done \in [Jobs -> 0..Cardinality(Mails)] /\ broken \in [Jobs -> BOOLEAN]
  /\ offset \in [Jobs -> 0..Cardinality(Mails) + PageSize] /\ page \in [Jobs -> SUBSET Mails]
  /\ cancelling \subseteq Jobs
  /\ batch \in [Scripts -> SUBSET Mails] /\ stale \in [Scripts -> BOOLEAN]

IndexInit ==
  /\ stored = Before /\ indexing = {} /\ indexed \in SUBSET (Before \ Textless)
  /\ vector = [m \in Mails |-> "none"]
  /\ kind = [t \in Jobs |-> NoKind]
  /\ status = [t \in Jobs |-> "none"]
  /\ at = [t \in Jobs |-> "new"]
  /\ wanted = [t \in Jobs |-> {}] /\ todo = [t \in Jobs |-> {}]
  /\ done = [t \in Jobs |-> 0] /\ broken = [t \in Jobs |-> FALSE]
  /\ offset = [t \in Jobs |-> 0] /\ page = [t \in Jobs |-> {}]
  /\ cancelling = {}
  /\ batch = [s \in Scripts |-> {}] /\ stale = [s \in Scripts |-> FALSE]

\* The messages that are not indexed at all count as missing an embedding too.
FaultyMissing == {m \in stored : vector[m] = "none"}

\* The rows of the index that have no embedding.
Missing == {m \in indexed : vector[m] = "none"}

-----------------------------------------------------------------------------
(* Tasks.                                                                  *)

At(t, where) == at' = [at EXCEPT ![t] = where]
Set(t, new)  == status' = [status EXCEPT ![t] = new]

\* The task row is committed, then the task is submitted to the pool.
Submit(t, k) ==
  /\ at[t] = "new"
  /\ kind' = [kind EXCEPT ![t] = k]
  /\ Set(t, "pending") /\ At(t, "queued")
  /\ UNCHANGED <<rowVars, wanted, todo, done, broken, offset, page, cancelling, scriptVars>>

StartIndex(t)     == Submit(t, "index")
StartBackfill(t)  == Submit(t, "backfill")
StartReindex(t)   == Submit(t, "reindex")
StartVectorize(t) == Submit(t, "vectorize")

\* A thread takes the task and marks it running, whatever its status.
MarkRunning(t) ==
  /\ at[t] = "queued" /\ Cardinality(Busy) < Workers
  /\ Set(t, "running") /\ At(t, "begun")
  /\ UNCHANGED <<rowVars, kind, wanted, todo, done, broken, offset, page,
                 cancelling, scriptVars>>

\* The jobs in S stop; what they had in hand is forgotten.
Stop(S, where) ==
  /\ at' = [t \in Jobs |-> IF t \in S THEN where ELSE at[t]]
  /\ todo' = [t \in Jobs |-> IF t \in S THEN {} ELSE todo[t]]
  /\ done' = [t \in Jobs |-> IF t \in S THEN 0 ELSE done[t]]
  /\ broken' = [t \in Jobs |-> t \notin S /\ broken[t]]
  /\ offset' = [t \in Jobs |-> IF t \in S THEN 0 ELSE offset[t]]
  /\ page' = [t \in Jobs |-> IF t \in S THEN {} ELSE page[t]]

\* The end of an executor, with the status it writes.
End(t, new) ==
  /\ Set(t, new) /\ Stop({t}, "over")
  /\ UNCHANGED <<kind, wanted, cancelling>>

\* An executor that returns because it has seen its cancellation.
Leave(t) ==
  /\ Stop({t}, "over")
  /\ UNCHANGED <<rowVars, kind, wanted, status, cancelling, scriptVars>>

\* cancel_task, first half: the task is pending or running.
CancelRead(t) ==
  /\ status[t] \in {"pending", "running"} /\ t \notin cancelling
  /\ cancelling' = cancelling \cup {t}
  /\ UNCHANGED <<rowVars, jobVars, status, scriptVars>>

CancelWrite(t) ==
  /\ t \in cancelling
  /\ cancelling' = cancelling \ {t}
  /\ Set(t, "cancelled")
  /\ UNCHANGED <<rowVars, jobVars, scriptVars>>

-----------------------------------------------------------------------------
(* Index a session.                                                        *)

\* What an embedding comes to when a message is indexed: none when it is not asked for or
\* the text is too short, pending when the scripts are to make it.
Outcomes(m) ==
  {"none"} \cup IF ~ SyncEmbedding THEN {"pending"}
                ELSE IF m \in Short THEN {} ELSE {"completed", "failed"}

IndexBegin(t) ==
  /\ at[t] = "begun" /\ kind[t] = "index"
  /\ IF status[t] = "cancelled" THEN Leave(t)
     ELSE IF stored = {} THEN End(t, "completed") /\ UNCHANGED <<rowVars, scriptVars>>
     ELSE /\ wanted' = [wanted EXCEPT ![t] = stored]
          /\ todo' = [todo EXCEPT ![t] = stored]
          /\ At(t, "work")
          /\ UNCHANGED <<rowVars, kind, done, broken, offset, page,
                         status, cancelling, scriptVars>>

\* index_message of one message.  A row that is there already breaks the ORM session, and
\* in a broken one every message fails; either failure is counted and the loop goes on.
IndexOne(t, m) ==
  /\ at[t] = "work" /\ m \in todo[t]
  /\ ~ (done[t] % Every = 0 /\ (broken[t] \/ status[t] = "cancelled"))
  /\ todo' = [todo EXCEPT ![t] = @ \ {m}]
  /\ done' = [done EXCEPT ![t] = @ + 1]
  /\ IF broken[t] \/ m \in indexed \cup Textless
       THEN /\ broken' = [broken EXCEPT ![t] = @ \/ m \in indexed]
            /\ UNCHANGED <<indexed, vector>>
       ELSE /\ indexed' = indexed \cup {m}
            /\ \E v \in Outcomes(m) : vector' = [vector EXCEPT ![m] = v]
            /\ UNCHANGED broken
  /\ UNCHANGED <<stored, indexing, kind, at, wanted, offset, page,
                 status, cancelling, scriptVars>>

\* The look at the task between two messages finds it cancelled.
IndexCancelled(t) ==
  /\ at[t] = "work" /\ todo[t] # {} /\ done[t] % Every = 0
  /\ ~ broken[t] /\ status[t] = "cancelled"
  /\ Leave(t)

\* Progress and status are written through a session of their own.
FaultyVerdict(t) == "completed"

\* A broken ORM session cannot write them, nor the failure: the wrapper does, in another.
Verdict(t) == IF broken[t] THEN "failed" ELSE "completed"

\* The last message, or the first query a broken ORM session has to refuse.
IndexEnd(t) ==
  /\ at[t] = "work" /\ kind[t] = "index"
  /\ todo[t] = {} \/ (broken[t] /\ done[t] % Every = 0)
  /\ End(t, Verdict(t))
  /\ UNCHANGED <<rowVars, scriptVars>>

-----------------------------------------------------------------------------
(* Backfill of missing embeddings.                                         *)

BackfillBegin(t) ==
  /\ at[t] = "begun" /\ kind[t] = "backfill"
  /\ IF Missing = {}
       THEN End(t, "completed")
       ELSE At(t, "loop") /\ UNCHANGED <<kind, wanted, todo, done, broken, offset, page,
                                         status, cancelling>>
  /\ UNCHANGED <<rowVars, scriptVars>>

\* One round: it is left when the task is cancelled, and when nothing is missing any
\* more or no embedding service is configured.
BackfillRound(t) ==
  /\ at[t] = "loop"
  /\ \/ /\ status[t] = "cancelled" /\ Leave(t)
     \/ /\ status[t] # "cancelled" /\ End(t, "completed")
        /\ UNCHANGED <<rowVars, scriptVars>>
     \/ /\ status[t] # "cancelled" /\ Missing # {}
        /\ At(t, "page")
        /\ UNCHANGED <<rowVars, kind, wanted, todo, done, broken, offset, page,
                       status, cancelling, scriptVars>>

\* A page of the rows that are missing an embedding now, past the offset; after the last
\* one the task fails, because it looks for a count that backfill_embeddings does not return.
BackfillRead(t) ==
  /\ at[t] = "page" /\ kind[t] = "backfill"
  /\ IF Cardinality(Missing) <= offset[t]
       THEN End(t, "failed")
       ELSE \E P \in SUBSET Missing :
              /\ Cardinality(P) = IF Cardinality(Missing) - offset[t] < PageSize
                                    THEN Cardinality(Missing) - offset[t] ELSE PageSize
              /\ page' = [page EXCEPT ![t] = P]
              /\ At(t, "embed")
              /\ UNCHANGED <<kind, wanted, todo, done, broken, offset, status, cancelling>>
  /\ UNCHANGED <<rowVars, scriptVars>>

\* The loop asks for the first page until there is none.
FaultyAdvance(t) == 0

Advance(t) == offset[t] + PageSize

\* Their embeddings, as far as the service makes them, are inserted and committed; one
\* that is there already makes the commit fail, and the task.
BackfillWrite(t) ==
  /\ at[t] = "embed" /\ kind[t] = "backfill"
  /\ \E S \in SUBSET (page[t] \ Short) :
       IF \E m \in S : vector[m] # "none"
         THEN End(t, "failed") /\ UNCHANGED vector
         ELSE /\ vector' = [m \in Mails |-> IF m \in S THEN "completed" ELSE vector[m]]
              /\ offset' = [offset EXCEPT ![t] = Advance(t)]
              /\ At(t, "page")
              /\ UNCHANGED <<kind, wanted, todo, done, broken, page, status, cancelling>>
  /\ UNCHANGED <<stored, indexing, indexed, scriptVars>>

-----------------------------------------------------------------------------
(* Reindex: messages without a row; regenerate: all of them.               *)

\* The endpoint with regenerate_embeddings: it works in the thread of its request.
StartRegenerate(t) ==
  /\ at[t] = "new"
  /\ kind' = [kind EXCEPT ![t] = "regenerate"]
  /\ At(t, "begun")
  /\ UNCHANGED <<rowVars, status, wanted, todo, done, broken, offset, page,
                 cancelling, scriptVars>>

\* The status is a task's; a request has none to write.
Failed(t) == IF kind[t] \in TaskKinds THEN End(t, "failed") ELSE End(t, status[t])

\* The messages, and of reindex the rows there are; without an embedding service it fails.
ReindexBegin(t) ==
  /\ at[t] = "begun" /\ kind[t] \in {"reindex", "regenerate"}
  /\ \/ /\ stored = {} /\ kind[t] = "reindex" /\ End(t, "completed")
     \/ /\ stored # {} /\ Failed(t)
     \/ /\ stored # {} \/ kind[t] = "regenerate"
        /\ todo' = [todo EXCEPT ![t] =
             (IF kind[t] = "reindex" THEN stored \ indexed ELSE stored) \ Textless]
        /\ At(t, "page")
        /\ UNCHANGED <<kind, wanted, done, broken, offset, page, status, cancelling>>
  /\ UNCHANGED <<rowVars, scriptVars>>

\* A page of them; past the last one the task fails, for the same reason as backfill.
ReindexRead(t) ==
  /\ at[t] = "page" /\ kind[t] \in {"reindex", "regenerate"}
  /\ IF todo[t] = {}
       THEN Failed(t)
       ELSE \E P \in SUBSET todo[t] :
              /\ Cardinality(P) = IF Cardinality(todo[t]) < PageSize
                                    THEN Cardinality(todo[t]) ELSE PageSize
              /\ page' = [page EXCEPT ![t] = P]
              /\ todo' = [todo EXCEPT ![t] = @ \ P]
              /\ At(t, "embed")
              /\ UNCHANGED <<kind, wanted, done, broken, offset, status, cancelling>>
  /\ UNCHANGED <<rowVars, scriptVars>>

\* An update that finds its row gone is not noticed.
FaultyOutdated(S) == stale' = stale

\* Rows of a script's batch that are deleted.
Outdated(S) == stale' = [s \in Scripts |-> stale[s] \/ batch[s] \cap S # {}]

\* Rows for the page, with the embeddings the service makes.  Reindex fails as a whole
\* if one of them is there by now; regenerate updates it and replaces its embedding,
\* by none where the service makes none.
ReindexWrite(t) ==
  /\ at[t] = "embed" /\ kind[t] \in {"reindex", "regenerate"}
  /\ IF kind[t] = "reindex" /\ page[t] \cap indexed # {}
       THEN Failed(t) /\ UNCHANGED <<rowVars, scriptVars>>
       ELSE /\ indexed' = indexed \cup page[t]
            /\ \E S \in SUBSET (page[t] \ Short) :
                 vector' = [m \in Mails |-> IF m \in S THEN "completed"
                                            ELSE IF m \in page[t] THEN "none" ELSE vector[m]]
            /\ Outdated({m \in page[t] : vector[m] # "none"})
            /\ At(t, "page")
            /\ UNCHANGED <<stored, indexing, kind, wanted, todo, done, broken, offset, page,
                           status, cancelling, batch>>

\* vectorize_folder (KnowledgeService) is one step here: its rows are another table's.
VectorizeBegin(t) ==
  /\ at[t] = "begun" /\ kind[t] = "vectorize"
  /\ \/ /\ status[t] = "cancelled" /\ Leave(t)
     \/ /\ status[t] # "cancelled"
        /\ At(t, "work")
        /\ UNCHANGED <<rowVars, kind, wanted, todo, done, broken, offset, page,
                       status, cancelling, scriptVars>>

VectorizeEnd(t) ==
  /\ at[t] = "work" /\ kind[t] = "vectorize"
  /\ \E new \in {"completed", "failed"} : End(t, new)
  /\ UNCHANGED <<rowVars, scriptVars>>

-----------------------------------------------------------------------------
(* New messages, scripts, and the death of the process.                    *)

\* A message is created; its indexing follows the response.
Arrive(m) ==
  /\ m \notin stored
  /\ stored' = stored \cup {m} /\ indexing' = indexing \cup {m}
  /\ UNCHANGED <<indexed, vector, jobVars, status, cancelling, scriptVars>>

IndexNew(m) ==
  /\ m \in indexing
  /\ indexing' = indexing \ {m}
  /\ IF m \in indexed \cup Textless
       THEN UNCHANGED <<indexed, vector>>
       ELSE /\ indexed' = indexed \cup {m}
            /\ \E v \in Outcomes(m) : vector' = [vector EXCEPT ![m] = v]
  /\ UNCHANGED <<stored, jobVars, status, cancelling, scriptVars>>

\* A script reads rows of its status and calls the embedding service.
ScriptRead(s) ==
  /\ batch[s] = {}
  /\ batch' = [batch EXCEPT ![s] = {m \in indexed : vector[m] = s}]
  /\ batch'[s] # {}
  /\ stale' = [stale EXCEPT ![s] = FALSE]
  /\ UNCHANGED <<rowVars, jobVars, status, cancelling>>

\* What a row becomes for which the service makes no embedding; a retry leaves it as it is.
Unmade(s, m) == IF s = "pending" THEN "failed" ELSE vector[m]

\* The results are written; if a row has been deleted since, none is.
ScriptWrite(s) ==
  /\ batch[s] # {}
  /\ IF stale[s] THEN UNCHANGED vector
     ELSE \E S \in SUBSET (batch[s] \ Short) :
            vector' = [m \in Mails |-> IF m \in S THEN "completed"
                                       ELSE IF m \in batch[s] THEN Unmade(s, m) ELSE vector[m]]
  /\ batch' = [batch EXCEPT ![s] = {}]
  /\ stale' = [stale EXCEPT ![s] = FALSE]
  /\ UNCHANGED <<stored, indexing, indexed, jobVars, status, cancelling>>

\* The process dies; what its threads had not committed is lost, the task rows stay.
Crash ==
  /\ Stop({t \in Jobs : at[t] \notin {"new", "over"}}, "lost")
  /\ indexing' = {} /\ cancelling' = {}
  /\ UNCHANGED <<stored, indexed, vector, kind, wanted, status, scriptVars>>

Begin(t) == IndexBegin(t) \/ BackfillBegin(t) \/ ReindexBegin(t) \/ VectorizeBegin(t)

\* A step of the thread that runs a job.
Execute(t) ==
  \/ MarkRunning(t) \/ Begin(t)
  \/ \E m \in Mails : IndexOne(t, m)
  \/ IndexCancelled(t) \/ IndexEnd(t)
  \/ BackfillRound(t) \/ BackfillRead(t) \/ BackfillWrite(t)
  \/ ReindexRead(t) \/ ReindexWrite(t)
  \/ VectorizeEnd(t)

Request(t) ==
  \/ StartIndex(t) \/ StartBackfill(t) \/ StartReindex(t) \/ StartVectorize(t)
  \/ StartRegenerate(t)
  \/ CancelRead(t) \/ CancelWrite(t)

IndexNext ==
  \/ \E t \in Jobs : Request(t) \/ Execute(t)
  \/ \E m \in Mails : Arrive(m) \/ IndexNew(m)
  \/ \E s \in Scripts : ScriptRead(s) \/ ScriptWrite(s)
  \/ Crash

IndexFairness == \A t \in Jobs : WF_indexVars(Execute(t))

IndexSpec == IndexInit /\ [][IndexNext]_indexVars /\ IndexFairness

-----------------------------------------------------------------------------
(* Properties.                                                             *)

\* A session whose index task is reported completed is indexed: every message the task
\* set out with has its row, whoever else indexed messages meanwhile and broke the task's
\* ORM session.
CompletedIsIndexed ==
  \A t \in Jobs : kind[t] = "index" /\ at[t] = "over" /\ status[t] = "completed" =>
                    wanted[t] \ Textless \subseteq indexed

\* An embedding, once made, is not declared missing or failed by a job or a script that
\* read its row before; only regenerate replaces it.
VectorsStay == [][
  \A m \in Mails : vector[m] = "completed" /\ vector'[m] # "completed" =>
    \E t \in Jobs : kind[t] = "regenerate" /\ at[t] = "embed" /\ m \in page[t]]_indexVars

\* A task that is handed to the pool comes to an end unless the process dies, with any
\* number of tasks before it and rows that never get an embedding.
TasksEnd == \A t \in Jobs : at[t] = "queued" ~> at[t] \in {"over", "lost"}
=============================================================================
