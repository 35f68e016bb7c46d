SPECIFICATION Spec

CONSTANTS
  r1 = r1
  a1 = a1
  i1 = i1
  i2 = i2
  i3 = i3
  None = None
  Rmas = {r1}
  Items = {i1, i2, i3}
  RmaOf <- MCRmaOf
  Staff = {a1}
  Priorities = {"normal", "alta"}
  SlaHours = {720}

SYMMETRY Symmetry
CHECK_DEADLOCK FALSE

INVARIANTS
  ChecksHold
  LogisticsAddUp
  VideoBeforeReturn
  ClosesByItself
  ReturnListIsWhatArrived

PROPERTIES
  ClosedIsFrozen
  KeepsPromise
