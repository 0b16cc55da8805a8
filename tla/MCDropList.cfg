CONSTANTS
  p1 = p1
  p2 = p2
  p3 = p3
  Null = Null
  All = All
  Free = Free
  Cidrs <- MCCidrs
  Buckets = {1, 2}
  Hash <- MCHash
  Cap = 3

SPECIFICATION Spec

SYMMETRY MCSymmetry

INVARIANTS
  ListsAgree
  WalkMeetsAll

PROPERTIES
  IsDropSet
