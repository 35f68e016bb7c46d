SPECIFICATION Spec

CONSTANTS
  ana = ana
  setor = setor
  bia = bia
  caio = caio
  d1 = d1
  d2 = d2
  k1 = k1
  k2 = k2
  None = None
  Runs = {k1, k2}
  NAgents = 2
  NUsers = 2
  NTickets = 2
  Emails = {ana, setor, bia, caio}
  Documents = {d1, d2}
  maintenanceInbox = setor
  PhotosMax = 1
  Dumps <- MCDumps

SYMMETRY Symmetry
CHECK_DEADLOCK FALSE

INVARIANTS
  NeverTwice
  TicketsAreWhole
  ConversationKeepsItsSide
