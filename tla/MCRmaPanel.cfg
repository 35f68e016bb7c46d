SPECIFICATION PanelSpec

CONSTANTS
  r1 = r1
  i1 = i1
  i2 = i2
  a1 = a1
  None = None
  Rmas = {r1}
  Items = {i1, i2}
  RmaOf <- MCRmaOf
  Staff = {a1}
  Priorities = {"normal"}
  SlaHours = {1, 2}
  MaxHour = 2
  Roles = {"cliente", "agente_consulta", "agente"}
  SLA_DUE_SOON_HOURS = 1

SYMMETRY Symmetry
CHECK_DEADLOCK FALSE

INVARIANTS
  QueueAgrees
  OfferedIsAccepted

PROPERTIES
  VerdictIsFinal
  DateTellsTheCustomer
