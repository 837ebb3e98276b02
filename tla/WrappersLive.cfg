SPECIFICATION FairSpec
CONSTANTS
  Bags = {b1, b2}
  Rings = {r1}
  NoBag = NoBag
  NoRing = NoRing
  Idle = Idle
  MaxHandles = 1
  MaxResults = 2
  FullGC = 1
CHECK_DEADLOCK FALSE
INVARIANT
  RootsKept
PROPERTIES
  WildOnlyAfterLoss
  GarbageFreed
