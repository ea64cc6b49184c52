SPECIFICATION Spec
CONSTANTS
  a = a
  b = b
  e = e
  g = g
  s = s
  t = t
  None = None
  Char <- ThreeChars
  Item <- OneGold
  Stacks <- OneGoldStack
  Gold <- OneGold
  NoDrop <- Nothing
  CarryMax = 2
  Recursive = TRUE
SYMMETRY CharSymmetry
INVARIANTS PartnersAgree GoodsConserved GoodsOnlyInTrades NoMutualInvites
PROPERTIES GoodsPassByFinish
CHECK_DEADLOCK FALSE
