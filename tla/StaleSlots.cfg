CONSTANTS
  g1 = g1
  i1 = i1
  i2 = i2
  Rings <- MCRings
  GapRings <- MCGapRings
  NoRing = NoRing
  MaxArgs = 2
  MaxResults = 2
  MaxTemps = 1
SPECIFICATION Spec
INVARIANT SlotsReset
