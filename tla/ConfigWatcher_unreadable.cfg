\* A changed file whose text cannot be read the one time it is tried.
SPECIFICATION FairSpec
CONSTANTS
  empty = empty
  first = first
  second = second
  torn = torn
  Contents = {empty, first, second, torn}
  Valid = {empty, first, second}
  EmptyConfig = empty
  Absent = Absent
  None = None
  Length <- ContentLength
  MaxTime = 2
  FreshStamps = TRUE
  ReadsFail = TRUE
CHECK_DEADLOCK FALSE
PROPERTIES EditPickedUp
