--------------------------- MODULE MCTokenRotation ---------------------------
(* TokenRotation on small sets; tokens are interchangeable, requests too.  *)
EXTENDS TokenRotation, TLC

Interchangeable == Permutations(Tokens) \cup Permutations(Requests)
=============================================================================
