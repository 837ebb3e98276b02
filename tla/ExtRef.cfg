SPECIFICATION Spec
CONSTANTS
  Bags = {b1, b2}
  Rings = {r1}
  NoBag = NoBag
  NoRing = NoRing
  Idle = Idle
  MaxHandles = 1
  MaxResults = 1
  FullGC = 0
CHECK_DEADLOCK FALSE
INVARIANT
  ExtRefIsWrapper
