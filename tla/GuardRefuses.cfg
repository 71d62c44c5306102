CONSTANTS
  Unstated = Unstated
  NoPolicy = NoPolicy
  NoPath = NoPath
  Latest = Latest
  Nothing = Nothing
SPECIFICATION WriteSpec
INVARIANTS RefusedForChanges
CHECK_DEADLOCK FALSE
