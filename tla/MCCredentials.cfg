SPECIFICATION Spec

CONSTANTS
  a = a
  b = b
  s1 = s1
  s2 = s2
  t1 = t1
  t2 = t2
  p1 = p1
  p2 = p2
  None = None
  Passwords = {a, b}
  Sessions = {s1, s2}
  Tokens = {t1, t2}
  Requests = {p1, p2}
  Asked <- MCAsked
  Imported <- MCImported

CHECK_DEADLOCK FALSE

INVARIANTS
  SessionsProve
  LinkSetsOnce

PROPERTIES
  FreshLinkStays
  Answered
