SPECIFICATION Spec
CONSTANTS
  a = a
  b = b
  e = e
  x = x
  y = y
  None = None
  Char <- ThreeChars
  GroupId <- TwoGroups
  MaxSize = 3
  Recursive = TRUE
  Asserting = FALSE
SYMMETRY Alike
INVARIANTS TypeOK GroupShape PointersMatch NoBadPointer
CHECK_DEADLOCK FALSE
