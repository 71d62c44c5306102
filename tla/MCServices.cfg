CONSTANTS
  Unstated = Unstated
  NoPolicy = NoPolicy
  NoPath = NoPath
  Latest = Latest
  Nothing = Nothing
SPECIFICATION Spec
INVARIANTS OnlySanctioned ReportsAreTrue NothingIsLeftOpen
PROPERTIES KeptAsMade
CHECK_DEADLOCK FALSE
