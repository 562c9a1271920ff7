\* Writers against the two readers.  The file may be removed and the plugin
\* stopped: then nothing is left to do.
SPECIFICATION FairSpec
CONSTANTS
  empty = empty
  first = first
  second = second
  torn = torn
  Contents = {empty, first, second, torn}
  Valid = {empty, first, second}
  EmptyConfig = empty
  Absent = Absent
  None = None
  Length <- ContentLength
  MaxTime = 4
  FreshStamps = TRUE
  ReadsFail = FALSE
CHECK_DEADLOCK FALSE
INVARIANTS TypeOK NoLostEdit
PROPERTIES EditPickedUp
