SPECIFICATION Spec
CONSTANTS
  x = x
  a = a
  None = None
  Session <- OneSession
  Character <- OneCharacter
  CharOf <- ItsCharacter
  MaxState = 1
  MaxSaves = 2
  KickAfter = 2
  Recursive = TRUE
  Waits = FALSE
INVARIANTS TypeOK LastStateSaved StopsAfterSending DanglesOnlyUnawaited
PROPERTIES SavedInOrder ComesBackAsLeft
CHECK_DEADLOCK FALSE
