SPECIFICATION Spec

CONSTANTS
  a = a
  b = b
  c = c
  p1 = p1
  p2 = p2
  None = None
  ADMIN_CHANGES_LOCK = ADMIN_CHANGES_LOCK
  Emails = {a, b, c}
  Founders = {a, b}
  Invitations <- MCInvitations
  Requests = {p1, p2}
  Asked <- MCAsked

CHECK_DEADLOCK FALSE

INVARIANTS
  SomeoneAdministers

PROPERTIES
  LastInvitationCounts
