SPECIFICATION FairSpec
CONSTANTS
  a = a
  b = b
  e = e
  g = g
  s = s
  t = t
  None = None
  Char <- TwoChars
  Item <- TwoUnits
  Stacks <- OneStack
  Gold <- Nothing
  NoDrop <- Nothing
  CarryMax = 1
  Recursive = TRUE
INVARIANTS TypeOK OfferFits
PROPERTIES ConfirmedSeesContents IsBarter LeaverSettles 
CHECK_DEADLOCK FALSE
