SPECIFICATION Spec
CONSTANTS
  x = x
  a = a
  None = None
  Session <- OneSession
  Character <- OneCharacter
  CharOf <- ItsCharacter
  MaxState = 1
  MaxSaves = 2
  KickAfter = 1
  Recursive = TRUE
  Waits = FALSE
PROPERTIES EmptiedIsNotSaved
CHECK_DEADLOCK FALSE
