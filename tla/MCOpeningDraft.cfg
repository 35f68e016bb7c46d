SPECIFICATION DraftSpec

CONSTANTS
  k1 = k1
  k2 = k2
  p1 = p1
  p2 = p2
  x = x
  Nothing = Nothing
  Items = {k1, k2}
  Files = {p1, p2, x}
  PurposeOf <- MCPurposeOf
  Limit <- MCLimit
  MAX_PARALLEL_UPLOADS = 1
  Retries = 1
  Confirmations = {"q1"}
  LastTerms = 2

SYMMETRY Symmetry
CHECK_DEADLOCK FALSE

INVARIANTS
  ReviewedIsSent

PROPERTIES
  FilesFollowTheirItem
