----------------------------- MODULE RankFusion -----------------------------
(* Reciprocal rank fusion: the one order into which the hits of a fuzzy    *)
(* and a vector query are put (service/search/engine.py, and with a key    *)
(* per document or row service/knowledge.py).  Lists are without           *)
(* repetition, best hit first.                                             *)
EXTENDS Naturals, FiniteSets, SequencesExt, Functions, TLC

CONSTANTS
  FuzzyWeight, VectorWeight,  \* fuzzy_weight and vector_weight, in tenths
  MaxHits                     \* bound: hits of one query

ASSUME FusionAssumption == FuzzyWeight \in Nat /\ VectorWeight \in Nat /\ MaxHits \in Nat

RRF_K == 60

\* (not the code) Ranks count from zero, and zero stands for no rank as well.
FaultyRank(list, x) ==
  LET i == SelectInSeq(list, LAMBDA y : y = x) IN IF i = 0 THEN 0 ELSE i - 1

\* The rank of a hit that is not in the list is 0.
Rank(list, x) == SelectInSeq(list, LAMBDA y : y = x)

\* Scores are whole numbers of 10 * Unit, of which every 1 / (RRF_K + rank) is a multiple.
Unit == FoldLeft(LAMBDA u, i : u * (RRF_K + i), 1, [i \in 1..MaxHits |-> i])

Share(weight, rank) == IF rank = 0 THEN 0 ELSE weight * (Unit \div (RRF_K + rank))

Score(a, b, x) == Share(FuzzyWeight, Rank(a, x)) + Share(VectorWeight, Rank(b, x))

Take(list, k) == SubSeq(list, 1, IF Len(list) < k THEN Len(list) ELSE k)

\* The place at which a hit comes into the table of all results.
Entered(a, b, x) == IF Contains(a, x) THEN Rank(a, x) ELSE Len(a) + Rank(b, x)

\* The better score first; sort is stable.
Before(a, b, x, y) ==
  LET s == Score(a, b, x)
      t == Score(a, b, y)
  IN s > t \/ (s = t /\ Entered(a, b, x) < Entered(a, b, y))

Fused(a, b, k) ==
  LET all == ToSet(a) \cup ToSet(b)
      ahead(x) == Cardinality({y \in all \ {x} : Before(a, b, y, x)})
      n == IF Cardinality(all) < k THEN Cardinality(all) ELSE k
  IN [i \in 1..n |-> CHOOSE x \in all : ahead(x) = i - 1]

\* y does not come without x before it.
Leads(list, x, y) == \A i \in DOMAIN list : list[i] = y => \E j \in 1..(i - 1) : list[j] = x

\* What fusion is for: as many hits as there is room for, each once, and none that another
\* is ahead of in both lists is before that other.
WellFused(a, b, fused, k) ==
  LET all == ToSet(a) \cup ToSet(b) IN
  /\ IsInjective(fused) /\ ToSet(fused) \subseteq all
  /\ Len(fused) = k \/ ToSet(fused) = all
  /\ \A x, y \in all : x # y /\ Leads(a, x, y) /\ Leads(b, x, y) => Leads(fused, x, y)
=============================================================================
