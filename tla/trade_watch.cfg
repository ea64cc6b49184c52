SPECIFICATION Spec
CONSTANTS
  a = a
  b = b
  e = e
  g = g
  s = s
  t = t
  None = None
  Char <- ThreeChars
  Item <- OneUnit
  Stacks <- OneUnitStack
  Gold <- Nothing
  NoDrop <- Nothing
  CarryMax = 2
  Recursive = TRUE
SYMMETRY CharSymmetry
PROPERTIES ConfirmedSeesContents
CHECK_DEADLOCK FALSE
