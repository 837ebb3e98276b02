CONSTANTS
  Bags = {b1, b2, b3}
  Data = {d1, d2, d3}
  Rings = {r1, r2}
  Attr = {a1}
  NULL = NULL
  Garbage = Garbage
  Mappings <- MCMappings
SPECIFICATION Spec
CHECK_DEADLOCK FALSE
SYMMETRY Symmetry
INVARIANTS
  TypeOK
  WordsReadable
  DataOwnedOnce
  KernelGetsOneRing
PROPERTIES
  ImplementsValues
  NoOtherWildUse
