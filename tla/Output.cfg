CONSTANTS
  NULL = NULL
  MaxCalls = 4
  MaxPieces = 2
SPECIFICATION Spec
CHECK_DEADLOCK FALSE
INVARIANTS
  TypeOK
  BufferFreedOnce
  OutputOfLastCall
  EvaluateShowsItsErrors
