CONSTANTS
  Entries <- MCEntries
  MaxVars = 3
  MaxOrds = 3
SPECIFICATION Spec
INVARIANTS
  WeightsLastPartition
  CoverageRight
  RefusedOnlyForC
