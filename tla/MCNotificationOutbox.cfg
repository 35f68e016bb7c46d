SPECIFICATION Spec

CONSTANTS
  n1 = n1
  w1 = w1
  w2 = w2
  Notices = {n1}
  Processors = {w1, w2}
  BATCH_SIZE = 2
  MAX_ATTEMPTS = 2
  LeaseCovers = 0
  Mishaps = 3
  Retries = 1

CHECK_DEADLOCK FALSE

INVARIANTS
  NoUnexcusedDuplicate
  SecretsLeave

PROPERTY
  Resolved
