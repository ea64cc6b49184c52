SPECIFICATION Spec
CONSTANTS
  a = a
  b = b
  c = c
  d = d
  NoMsg = NoMsg
  Msg <- FourMsgs
  Size <- Sizes
  MaxPieces = 4
  Bases = 3
  MaxLists = 2
  W = 4
SYMMETRY Alike
INVARIANTS TypeOK NoHoles NoneWaitsComplete ListsBounded BuiltAsSent
CHECK_DEADLOCK FALSE
