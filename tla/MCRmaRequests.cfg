SPECIFICATION RequestsSpec

CONSTANTS
  r1 = r1
  i1 = i1
  i2 = i2
  p1 = p1
  p2 = p2
  None = None
  Rmas = {r1}
  Items = {i1, i2}
  RmaOf <- MCRmaOf
  Staff = {}
  Priorities = {"normal"}
  SlaHours = {720}
  Requests = {p1, p2}
  Asked <- MCAsked

CHECK_DEADLOCK FALSE

PROPERTIES
  OneAtATime
  Answered
