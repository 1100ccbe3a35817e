\* A dataset of two rows; what a row's text and its vector find is not the same hit.
SPECIFICATION KnowledgeSearchSpec
CONSTANTS
  FuzzyWeight = 4
  VectorWeight = 6
  MaxHits = 2
  Above <- AtShelf
  Kind <- AtKinds
  DatasetOf <- AtRows
  KnowledgeTopK = 2
  MaxParts = 1
  MaxLosses = 0
  NoNode = NoNode
  NoRow = NoRow
INVARIANTS
  OneHitPerText
CHECK_DEADLOCK FALSE
