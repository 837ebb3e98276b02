CONSTANTS
  HalfInt = 4
  Rings = {r1, r2}
  NULL = NULL
  PolyValues = {0, 1}
  ListInts <- MCListInts
  SetInts <- MCSetInts
  Indices = {1, 2, 3}
  MaxDim = 2
  MaxLen = 3
SPECIFICATION Spec
CHECK_DEADLOCK FALSE
INVARIANT DeletedInItsRing
