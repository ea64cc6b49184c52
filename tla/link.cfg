SPECIFICATION FairSpec
CONSTANTS
  a = a
  b = b
  c = c
  NoMsg = NoMsg
  Msg <- ThreeMsgs
  Safe <- TwoMsgs
  Big <- Nobody
  W = 2
  FirstId = 2
  EndId = 4
  MaxPending = 1
  MaxAck = 2
  MaxLog = 4
  Expiring <- Both
INVARIANTS TypeOK RemembersRecent TriesCounted DropsAreDuplicates
PROPERTIES PendingUntilSettled PendingDrains
CHECK_DEADLOCK FALSE
