----------------------------- MODULE KnowledgeTree -----------------------------
(***************************************************************************)
(* app/service/knowledge.py: the tree of folders, documents and datasets   *)
(* of one user, and the embeddings of documents and dataset rows.  Its     *)
(* endpoints are def functions, which run in threads of the pool: each     *)
(* statement sees what is committed when it begins, and a handler's own    *)
(* changes are seen by others when it commits.  A walk of the tree (to the *)
(* root, or over the descendants of a node) is one step here.              *)
(*                                                                         *)
(* Names, icons, positions, schemas and the chunks of a text are left out: *)
(* a document or row has one text, and an embedding is that of one text.   *)
(***************************************************************************)
EXTENDS Integers, FiniteSets

CONSTANTS
  Folders, Documents, Datasets, TableRows,  \* ever created
  Planted,   \* nodes there are from the start, at the root
  Threads,   \* requests and vectorization tasks under way
  MaxText,   \* bound: texts a document or row has over time
  Root       \* parent_id of a node that has no parent

Leaves == Documents \cup TableRows
TreeNodes == Folders \cup Documents \cup Datasets

ASSUME TreeAssumption ==
  /\ Planted \subseteq TreeNodes /\ IsFiniteSet(TreeNodes)
  /\ Root \notin TreeNodes \cup TableRows /\ TreeNodes \cap TableRows = {}
  /\ MaxText \in Nat

VARIABLES
  parent,   \* parent_id of each node, and the dataset of each row
  present,  \* nodes and rows that have been created
  gone,     \* those with is_deleted
  enabled,  \* folders with vector_enabled
  text,     \* text of each document and row
  embedded, \* texts of its embeddings
  thread,   \* what each request or task is doing
  crossed,  \* history: two moves have overlapped
  mixed     \* history: leaves edited where nothing is vectorized, or whose embeddings
            \* were written by two threads at once

treeVars == <<parent, present, gone, enabled, text, embedded, thread, crossed, mixed>>

Resting == [does |-> "rest", node |-> Root, to |-> Root, new |-> 0, drop |-> {}, all |-> {}]

TreeTypeOK ==
  /\ parent \in [TreeNodes \cup TableRows -> Folders \cup Datasets \cup {Root}]
  /\ present \subseteq TreeNodes \cup TableRows /\ gone \subseteq present
  /\ enabled \subseteq Folders
  /\ text \in [Leaves -> 0..MaxText] /\ embedded \in [Leaves -> SUBSET (0..MaxText)]
  /\ thread \in [Threads -> [
       does : {"rest", "create", "move", "delete", "edit", "enabled", "sweep", "embed"},
       node : TreeNodes \cup TableRows \cup {Root}, to : Folders \cup Datasets \cup {Root},
       new : 0..MaxText, drop : SUBSET (0..MaxText), all : SUBSET (TreeNodes \cup TableRows)]]
  /\ crossed \in BOOLEAN /\ mixed \subseteq Leaves

TreeInit ==
  /\ parent = [n \in TreeNodes \cup TableRows |-> Root]
  /\ present = Planted /\ gone = {} /\ enabled = {}
  /\ text = [l \in Leaves |-> 0] /\ embedded = [l \in Leaves |-> {}]
  /\ thread = [t \in Threads |-> Resting]
  /\ crossed = FALSE /\ mixed = {}

-----------------------------------------------------------------------------
Here == present \ gone

\* The chain of parents of a node, by number of steps; both walks of the code stop at a
\* node they have seen.
Above(n) ==
  LET up[i \in 0..Cardinality(TreeNodes)] ==
        IF i = 0 THEN parent[n] ELSE IF up[i - 1] = Root THEN Root ELSE parent[up[i - 1]]
  IN {up[i] : i \in DOMAIN up} \ {Root}

\* The nodes and rows under a node, itself included, that are not deleted.
Under(n) == {m \in Here : m = n \/ n \in Above(m)}

\* The walk down does not end.
Circular(n) == \E m \in Under(n) : m \in Above(m)

Vectorized(n) == Above(n) \cap enabled # {}

Do(t, what) == thread' = [thread EXCEPT ![t] = what]
Rest(t)     == Do(t, Resting)
Free(t) == thread[t] = Resting
Sweep(all)  == IF all = {} THEN Resting ELSE [Resting EXCEPT !.does = "sweep", !.all = all]

\* Another thread is embedding leaf l.
Embeds(l, t) == \E u \in Threads \ {t} : thread[u].does \in {"edit", "embed"} /\ thread[u].node = l

-----------------------------------------------------------------------------
(* Nodes.                                                                  *)

\* The parent must be there and a folder; of a row, the dataset.
CreateNode(t, n, f) ==
  /\ Free(t) /\ n \in TreeNodes \ present /\ \A u \in Threads : thread[u].node # n
  /\ f \in (Folders \cap Here) \cup {Root}
  /\ Do(t, [Resting EXCEPT !.does = "create", !.node = n, !.to = f])
  /\ UNCHANGED <<parent, present, gone, enabled, text, embedded, crossed, mixed>>

CreateCommit(t) ==
  /\ thread[t].does = "create"
  /\ parent' = [parent EXCEPT ![thread[t].node] = thread[t].to]
  /\ present' = present \cup {thread[t].node}
  /\ Rest(t)
  /\ UNCHANGED <<gone, enabled, text, embedded, crossed, mixed>>

\* Only the new parent itself is compared.
FaultyMayMove(n, f) == f \in (Folders \cap Here) \cup {Root} /\ f # n

\* The target is a folder, not the node itself and not under it.
MayMove(n, f) == f = Root \/ (f \in Folders \cap Here /\ f # n /\ n \notin Above(f))

MoveRead(t, n, f) ==
  /\ Free(t) /\ n \in TreeNodes \cap Here /\ MayMove(n, f)
  /\ Do(t, [Resting EXCEPT !.does = "move", !.node = n, !.to = f])
  /\ crossed' = (crossed \/ \E u \in Threads : thread[u].does = "move")
  /\ UNCHANGED <<parent, present, gone, enabled, text, embedded, mixed>>

MoveCommit(t) ==
  /\ thread[t].does = "move"
  /\ parent' = [parent EXCEPT ![thread[t].node] = thread[t].to]
  /\ Rest(t)
  /\ UNCHANGED <<present, gone, enabled, text, embedded, crossed, mixed>>

\* Soft deletion of all nodes under a node, found one query after the other; rows stay.
DeleteRead(t, n) ==
  /\ Free(t) /\ n \in TreeNodes \cap Here /\ ~ Circular(n)
  /\ Do(t, [Resting EXCEPT !.does = "delete", !.node = n, !.all = Under(n) \ TableRows])
  /\ UNCHANGED <<parent, present, gone, enabled, text, embedded, crossed, mixed>>

DeleteCommit(t) ==
  /\ thread[t].does = "delete"
  /\ gone' = gone \cup thread[t].all
  /\ Rest(t)
  /\ UNCHANGED <<parent, present, enabled, text, embedded, crossed, mixed>>

-----------------------------------------------------------------------------
(* Texts and their embeddings.                                             *)

\* The old embeddings are kept.
FaultyOld(l) == {}

Old(l) == embedded[l]

\* A document gets a new text.  If it is vectorized its embeddings are deleted and made
\* again, which others see at the commit.
EditRead(t, l) ==
  /\ Free(t) /\ l \in Here /\ (l \in TableRows => parent[l] \in Here)
  /\ text[l] < MaxText /\ \A u \in Threads : thread[u].new # text[l] + 1 \/ thread[u].node # l
  /\ Do(t, [Resting EXCEPT !.does = "edit", !.node = l, !.new = text[l] + 1,
              !.drop = IF Vectorized(l) THEN Old(l) ELSE {},
              !.all = IF Vectorized(l) THEN {l} ELSE {}])
  /\ mixed' = IF ~ Vectorized(l) \/ Embeds(l, t) THEN mixed \cup {l} ELSE mixed
  /\ UNCHANGED <<parent, present, gone, enabled, text, embedded, crossed>>

\* If the service fails the embeddings stay deleted.
EditCommit(t) ==
  LET l == thread[t].node IN
  /\ thread[t].does = "edit"
  /\ text' = [text EXCEPT ![l] = thread[t].new]
  /\ \E made \in SUBSET ({thread[t].new} \cap {thread[t].new : m \in thread[t].all}) :
       embedded' = [embedded EXCEPT ![l] = (@ \ thread[t].drop) \cup made]
  /\ mixed' = IF thread[t].all # {} /\ embedded[l] \subseteq thread[t].drop /\ ~ Embeds(l, t)
                THEN mixed \ {l} ELSE mixed
  /\ Rest(t)
  /\ UNCHANGED <<parent, present, gone, enabled, crossed>>

\* A row of a dataset, validated and embedded as the dataset is.
CreateRow(l, d) ==
  /\ l \in TableRows \ present /\ d \in Datasets \cap Here
  /\ parent' = [parent EXCEPT ![l] = d]
  /\ present' = present \cup {l}
  /\ \E made \in SUBSET {text[l]} :
       embedded' = [embedded EXCEPT ![l] = IF Vectorized(d) THEN made ELSE {}]
  /\ UNCHANGED <<gone, enabled, text, thread, crossed, mixed>>

DeleteRow(l) ==
  /\ l \in TableRows \cap Here /\ parent[l] \in Here
  /\ gone' = gone \cup {l}
  /\ UNCHANGED <<parent, present, enabled, text, embedded, thread, crossed, mixed>>

\* Vectorization of a folder is turned off, or turned on by an update of the node, which
\* submits no task.
Switch(f) ==
  /\ f \in Folders \cap Here
  /\ enabled' = IF f \in enabled THEN enabled \ {f} ELSE enabled \cup {f}
  /\ UNCHANGED <<parent, present, gone, text, embedded, thread, crossed, mixed>>

\* Turned on by its own endpoint, where it submits a task, even a second time.
Enable(t, f) ==
  /\ Free(t) /\ f \in Folders \cap Here
  /\ enabled' = enabled \cup {f}
  /\ Do(t, [Resting EXCEPT !.does = "enabled", !.node = f])
  /\ UNCHANGED <<parent, present, gone, text, embedded, crossed, mixed>>

\* The task: the documents and datasets under the folder are listed, all embeddings under
\* it are deleted, and that is committed.
SweepBegin(t) ==
  LET f == thread[t].node IN
  /\ thread[t].does = "enabled"
  /\ IF f \in Here \cap enabled /\ ~ Circular(f)
       THEN /\ embedded' = [l \in Leaves |-> IF l \in Under(f) THEN {} ELSE embedded[l]]
            /\ mixed' = {l \in mixed : l \notin Under(f) \/ Embeds(l, t)}
            /\ Do(t, Sweep(Under(f) \cap (Documents \cup Datasets)))
       ELSE Rest(t) /\ UNCHANGED <<embedded, mixed>>
  /\ UNCHANGED <<parent, present, gone, enabled, text, crossed>>

\* The rows a dataset has by now.
SweepRows(t, d) ==
  /\ thread[t].does = "sweep" /\ d \in thread[t].all \cap Datasets
  /\ thread[t].all \cap Leaves = {}
  /\ Do(t, Sweep((thread[t].all \ {d}) \cup {l \in TableRows \cap Here : parent[l] = d}))
  /\ UNCHANGED <<parent, present, gone, enabled, text, embedded, crossed, mixed>>

\* One after the other the texts are read and embedded, deleted or not, documents first.
SweepRead(t, l) ==
  /\ thread[t].does = "sweep" /\ l \in thread[t].all
  /\ Do(t, [thread[t] EXCEPT !.does = "embed", !.node = l, !.new = text[l], !.all = @ \ {l}])
  /\ mixed' = IF Embeds(l, t) THEN mixed \cup {l} ELSE mixed
  /\ UNCHANGED <<parent, present, gone, enabled, text, embedded, crossed>>

SweepWrite(t) ==
  LET l == thread[t].node IN
  /\ thread[t].does = "embed"
  /\ \E made \in SUBSET {thread[t].new} : embedded' = [embedded EXCEPT ![l] = @ \cup made]
  /\ Do(t, Sweep(thread[t].all))
  /\ UNCHANGED <<parent, present, gone, enabled, text, crossed, mixed>>

-----------------------------------------------------------------------------
KnowledgeStep(t) ==
  \/ CreateCommit(t) \/ MoveCommit(t) \/ DeleteCommit(t) \/ EditCommit(t)
  \/ SweepBegin(t) \/ SweepWrite(t)
  \/ \E l \in Leaves : SweepRead(t, l)
  \/ \E d \in Datasets : SweepRows(t, d)

TreeRequest(t) ==
  \/ \E n \in TreeNodes, f \in Folders \cup {Root} : CreateNode(t, n, f) \/ MoveRead(t, n, f)
  \/ \E n \in TreeNodes : DeleteRead(t, n)
  \/ \E l \in Leaves : EditRead(t, l)
  \/ \E f \in Folders : Enable(t, f)

TreeNext ==
  \/ \E t \in Threads : TreeRequest(t) \/ KnowledgeStep(t)
  \/ \E l \in TableRows, d \in Datasets : CreateRow(l, d)
  \/ \E l \in TableRows : DeleteRow(l)
  \/ \E f \in Folders : Switch(f)

TreeSpec == TreeInit /\ [][TreeNext]_treeVars

-----------------------------------------------------------------------------
(* Properties.                                                             *)

\* get_tree: a node whose parent is not there is shown at the root, any other under its
\* parent.
Shown == {n \in TreeNodes \cap Here :
            parent[n] \notin Here \/ \E m \in Above(n) : parent[m] \notin Here}

\* Only two moves at once can hide a node: whatever is created, moved and deleted in
\* whatever order, the tree shows every node that is not deleted.
TreeShowsAll == ~ crossed => TreeNodes \cap Here \subseteq Shown

\* What is found by its embedding is found by the text it has: an embedding of an older
\* text is left only by an edit where nothing is vectorized, or by two threads that embed
\* the same text at once.
EmbeddingsFresh == \A l \in Leaves \ mixed : embedded[l] \subseteq {text[l]}
=============================================================================
