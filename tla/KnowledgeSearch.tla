--------------------------- MODULE KnowledgeSearch ---------------------------
(***************************************************************************)
(* A search in the user's knowledge base (KnowledgeService.search in       *)
(* service/knowledge.py), one query after the other, while nodes and rows  *)
(* are deleted and documents embedded anew.                                *)
(*                                                                         *)
(* How similar a text is is left open: a query may return any of the texts *)
(* or chunks in its scope in any order.  Which page of the hits is shown,  *)
(* the least score asked for and the names put to the hits are left out.   *)
(***************************************************************************)
EXTENDS RankFusion

CONSTANTS
  Above,          \* [node -> its folder, or NoNode]
  Kind,           \* [node -> "folder", "document" or "dataset"]
  DatasetOf,      \* [row -> dataset]
  KnowledgeTopK,  \* top_k
  MaxParts,       \* bound: chunks of a document
  MaxLosses,      \* bound: nodes and rows deleted
  NoNode, NoRow

NodeIds == DOMAIN Above
RowIds == DOMAIN DatasetOf

ASSUME KnowledgeSearchAssumption ==
  /\ IsFiniteSet(NodeIds) /\ IsFiniteSet(RowIds) /\ DatasetOf \in [RowIds -> NodeIds]
  /\ NoNode \notin NodeIds /\ NoRow \notin NodeIds \cup RowIds
  /\ KnowledgeTopK \in Nat /\ MaxParts \in Nat

VARIABLES
  shelf,   \* the nodes and rows not deleted
  chunks,  \* knowledge_embedding: node_id, row_id, which part of the text
  lookup   \* the search

knowledgeSearchVars == <<shelf, chunks, lookup>>

NoLookup == [does |-> "idle", mode |-> "none", folders |-> {}, gone |-> {}, left |-> {}, scope |-> {},
             rows |-> {}, fuzzy |-> <<>>, vector |-> <<>>, hits |-> <<>>]

\* A chunk of a document has its node, the chunk of a row has its row only.
Chunk(n, r, part) == [node |-> n, row |-> r, part |-> part]
ChunksOf(n, parts) == {Chunk(n, NoRow, i) : i \in 1..parts}

KnowledgeSearchInit ==
  /\ shelf = NodeIds \cup RowIds
  /\ chunks = (UNION {ChunksOf(n, MaxParts) : n \in {n \in NodeIds : Kind[n] = "document"}})
                \cup {Chunk(NoNode, r, 1) : r \in RowIds}
  /\ lookup = NoLookup

Lost == (NodeIds \cup RowIds) \ shelf
Children(n) == {k \in NodeIds \cap shelf : Above[k] = n}

---------------------------------------------------------------------------
(* Meanwhile.  The chunks of what is deleted stay. *)

\* Folders are two levels deep here, so that those below are the children and theirs.
DropNode(n) ==
  /\ n \in shelf /\ Cardinality(Lost) < MaxLosses
  /\ shelf' = shelf \ ({n} \cup Children(n) \cup UNION {Children(k) : k \in Children(n)})
  /\ UNCHANGED <<chunks, lookup>>

DropRow(r) ==
  /\ r \in shelf /\ DatasetOf[r] \in shelf /\ Cardinality(Lost) < MaxLosses
  /\ shelf' = shelf \ {r}
  /\ UNCHANGED <<chunks, lookup>>

\* The text of a document changes, and so may the number of its chunks.
EmbedAnew(n) ==
  /\ n \in shelf /\ Kind[n] = "document"
  /\ \E parts \in 0..MaxParts : chunks' = {c \in chunks : c.node # n} \cup ChunksOf(n, parts)
  /\ UNCHANGED <<shelf, lookup>>

---------------------------------------------------------------------------
(* The search. *)

\* The folders asked for may be gone; without any, all nodes are searched.
SearchBegin ==
  /\ lookup.does = "idle"
  /\ \E mode \in {"fuzzy", "vector", "hybrid"}, folders \in SUBSET NodeIds :
       lookup' = [NoLookup EXCEPT !.mode = mode, !.folders = folders, !.gone = Lost,
         !.does = IF folders = {} THEN "rows" ELSE "nodes",
         !.left = folders, !.scope = IF folders = {} THEN NodeIds \cap shelf ELSE {}]
  /\ UNCHANGED <<shelf, chunks>>

\* One query for the children of a node.
Descend(n) ==
  /\ lookup.does = "nodes" /\ n \in lookup.left
  /\ LET left == (lookup.left \ {n}) \cup Children(n) IN
     lookup' = [lookup EXCEPT !.scope = @ \cup {n}, !.left = left,
                              !.does = IF left = {} THEN "rows" ELSE "nodes"]
  /\ UNCHANGED <<shelf, chunks>>

\* (not the code) The rows of a dataset, deleted or not.
FaultyRowsIn(scope) == {r \in RowIds : DatasetOf[r] \in scope}

RowsIn(scope) == {r \in RowIds \cap shelf : DatasetOf[r] \in scope}

FindRows ==
  /\ lookup.does = "rows"
  /\ lookup' = [lookup EXCEPT !.rows = RowsIn(lookup.scope),
       !.does = IF lookup.scope = {} THEN "done" ELSE IF lookup.mode = "vector" THEN "vector" ELSE "fuzzy"]
  /\ UNCHANGED <<shelf, chunks>>

Hit(n, r, part) == [node |-> n, row |-> r, part |-> part]
Best(S) == {s \in SetToAllKPermutations(S) : Len(s) <= 3 * KnowledgeTopK /\ Len(s) <= MaxHits}

\* The texts of documents and rows themselves, no chunks; a row comes with its dataset.
KnowledgeFuzzy ==
  LET texts == {Hit(n, NoRow, 0) : n \in {n \in lookup.scope \cap shelf : Kind[n] = "document"}}
                 \cup {Hit(DatasetOf[r], r, 0) : r \in lookup.rows \cap shelf}
  IN /\ lookup.does = "fuzzy"
     /\ \E s \in Best(texts) :
          lookup' = IF lookup.mode = "fuzzy" THEN [lookup EXCEPT !.does = "done", !.hits = s]
                    ELSE [lookup EXCEPT !.does = "vector", !.fuzzy = s]
     /\ UNCHANGED <<shelf, chunks>>

\* What a text is known by when both lists are fused.
FusionKey(h) == <<h.node, h.row>>
Keys(list) == [i \in DOMAIN list |-> FusionKey(list[i])]

\* The best chunk of each text, in their order.
BestPerKey(list) ==
  FoldLeft(LAMBDA best, h : IF Contains(Keys(best), FusionKey(h)) THEN best ELSE Append(best, h), <<>>, list)

\* Without vectors the fuzzy hits as they are; else a hit of both lists has the chunk.
FusedHits(fuzzy, best) ==
  LET order == Fused(Keys(fuzzy), Keys(best), KnowledgeTopK)
      named(k) == CHOOSE h \in ToSet(fuzzy) \cup ToSet(best) :
                    FusionKey(h) = k /\ (k \in ToSet(Keys(best)) => h \in ToSet(best))
  IN IF best = <<>> THEN Take(fuzzy, KnowledgeTopK) ELSE [i \in DOMAIN order |-> named(order[i])]

\* Nothing is found by vectors when no embedding service is configured.
KnowledgeVector ==
  LET within == {c \in chunks : c.node \in lookup.scope \/ c.row \in lookup.rows}
  IN /\ lookup.does = "vector"
     /\ \E s \in Best({Hit(c.node, c.row, c.part) : c \in within}) :
          LET best == BestPerKey(s) IN
          lookup' = [lookup EXCEPT !.does = "done",
            !.vector = IF lookup.mode = "hybrid" THEN best ELSE <<>>,
            !.hits = IF lookup.mode = "hybrid" THEN FusedHits(lookup.fuzzy, best) ELSE s]
     /\ UNCHANGED <<shelf, chunks>>

KnowledgeVectorFails ==
  /\ lookup.does = "vector"
  /\ lookup' = [NoLookup EXCEPT !.does = "failed"]
  /\ UNCHANGED <<shelf, chunks>>

---------------------------------------------------------------------------
KnowledgeSearchNext ==
  \/ \E n \in NodeIds : DropNode(n) \/ EmbedAnew(n) \/ Descend(n)
  \/ \E r \in RowIds : DropRow(r)
  \/ SearchBegin \/ FindRows \/ KnowledgeFuzzy \/ KnowledgeVector \/ KnowledgeVectorFails

KnowledgeSearchSpec == KnowledgeSearchInit /\ [][KnowledgeSearchNext]_knowledgeSearchVars

---------------------------------------------------------------------------
\* Types.
KnowledgeSearchTypeOK ==
  /\ shelf \subseteq NodeIds \cup RowIds
  /\ \A c \in chunks : c.node = NoNode <=> c.row # NoRow
  /\ lookup.does \in {"idle", "nodes", "rows", "fuzzy", "vector", "done", "failed"}
  /\ lookup.scope \subseteq NodeIds /\ lookup.rows \subseteq RowIds /\ lookup.left \subseteq NodeIds

\* _rrf_fusion_by_node_row: the keys of a hybrid search's hits are the fusion of both lists'.
KnowledgeWellFused ==
  lookup.does = "done" /\ lookup.mode = "hybrid" =>
    WellFused(Keys(lookup.fuzzy), Keys(lookup.vector), Keys(lookup.hits), KnowledgeTopK)

\* The chunks of what was deleted are never removed; only the scope keeps them away.  What
\* was gone when the search began is not found, except below a node the request names
\* itself, which is searched whether it is there or not.
NothingDeletedIsFound ==
  \A i \in DOMAIN lookup.hits :
    LET h == lookup.hits[i]
        node == IF h.row = NoRow THEN h.node ELSE DatasetOf[h.row]
    IN /\ h.row \notin lookup.gone
       /\ node \in lookup.gone => node \in lookup.folders

\* "RRF fusion by (node_id, row_id). Aggregates vector chunks to best per node/row.": a hybrid
\* search finds a document or a row once.
OneHitPerText ==
  lookup.mode = "hybrid" =>
    \A i, j \in DOMAIN lookup.hits :
      LET a == lookup.hits[i]  b == lookup.hits[j] IN
      a.row = b.row /\ (a.row = NoRow => a.node = b.node) => i = j
=============================================================================
