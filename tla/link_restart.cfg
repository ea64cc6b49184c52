SPECIFICATION Spec
CONSTANTS
  a = a
  b = b
  c = c
  NoMsg = NoMsg
  Msg <- TwoMsgs
  Safe <- TwoMsgs
  Big <- Nobody
  W = 3
  FirstId = 2
  EndId = 6
  MaxPending = 2
  MaxAck = 2
  MaxLog = 4
  Expiring <- Sender
INVARIANTS NewIsAnalysed
CHECK_DEADLOCK FALSE
