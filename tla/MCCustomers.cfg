SPECIFICATION Spec

CONSTANTS
  d1 = d1
  d2 = d2
  e1 = e1
  e2 = e2
  equipe = equipe
  None = None
  Documents = {d1, d2}
  Emails = {e1, e2, equipe}
  Team = {equipe}
  Imported <- MCImported
  Requests = {p1, p2}
  Asked <- MCAsked

CHECK_DEADLOCK FALSE

INVARIANTS
  BornTogether

PROPERTIES
  AccessIsGiven
  Answered
