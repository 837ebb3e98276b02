CONSTANTS
  Objects <- MCObjects
  MaxIndex = 4
  Big = 5
  HalfGap = 16
  HalfInt = 4
  HalfSing = 8
  Rows = 2
  Cols = 2
  GapNumbers <- MCNumbers
  Fields <- MCFields
SPECIFICATION Spec
INVARIANTS
  TypeOK
  RightPart
  NumberRight
  IntegersKept
  ListsKept
