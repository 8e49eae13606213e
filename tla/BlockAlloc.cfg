SPECIFICATION Spec
CONSTANTS
  TableSize = 6
  BlockSize = 2
  Sizes <- MCSizes
INVARIANTS
  TypeOK
  Disjoint
  TableExact
  FailsOnlyWhenFull
  LargeEnough
