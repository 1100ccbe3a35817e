-------------------------- MODULE MCKnowledgeSearch --------------------------
(* A document in a folder, and a dataset beside it with two rows.          *)
EXTENDS KnowledgeSearch

AtShelf  == "folder" :> NoNode @@ "document" :> "folder" @@ "dataset" :> NoNode
AtKinds  == [n \in DOMAIN AtShelf |-> n]
AtRows   == "row1" :> "dataset" @@ "row2" :> "dataset"
=============================================================================
