---------------------------- MODULE HybridSearch ----------------------------
(* The two searches that put a fuzzy and a vector query together, in       *)
(* messages and in the knowledge base.  They share the fusion of ranks and *)
(* no state.                                                               *)
EXTENDS MessageSearch, KnowledgeSearch

\* Whatever the two lists, fusion keeps to both of them.
HitsWellFused == MessagesWellFused /\ KnowledgeWellFused
=============================================================================
