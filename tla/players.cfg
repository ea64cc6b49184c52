SPECIFICATION Spec
CONSTANTS
  u = u
  v = v
  a = a
  b = b
  c = c
  None = None
  Player <- TwoPlayers
  Addr <- TwoAddrs
  Busy <- OneAddr
  Failing <- OtherAddr
  Account <- OneAccount
  MaxTries = 2
  Recursive = TRUE
  MaxPackets = 4
INVARIANTS TypeOK AddressesDistinct TwiceIsFlagged DeletedOnce OnlyHeldPlayersDangle
CHECK_DEADLOCK FALSE
