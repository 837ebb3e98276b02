CONSTANTS
  Entries <- MCEntries
  MaxVars = 3
  MaxOrds = 3
SPECIFICATION Spec
INVARIANT WeightBlocksPartition
