SPECIFICATION MobileSpec

CONSTANTS
  s1 = s1
  v1 = v1
  v2 = v2
  p1 = p1
  p2 = p2
  None = None
  Files = {v1, v2}
  TEMPORARY_FILES_QUOTA = 1
  Sessions = {s1}
  Phones = {p1, p2}
  OpeningLimit <- MCOpeningLimit
  CodeOf <- MCCodeOf
  MediaOf <- MCMediaOf

CHECK_DEADLOCK FALSE

INVARIANTS
  LimitHolds

PROPERTIES
  ClosedTakesNothing
  ReceivedIsShown

