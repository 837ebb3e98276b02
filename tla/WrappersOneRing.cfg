SPECIFICATION Spec
CONSTANTS
  Bags = {b1, b2, b3}
  Rings = {r1}
  NoBag = NoBag
  NoRing = NoRing
  Idle = Idle
  MaxHandles = 2
  MaxResults = 0
  FullGC = 0
CHECK_DEADLOCK FALSE
SYMMETRY Symmetry
INVARIANTS
  TypeOK
  WrapperOwnsRing
  ValueKeepsRing
  CachedElementsKept
  OnlyRingsOfSI_ringLeak
PROPERTIES
  ImplementsLifetimes
