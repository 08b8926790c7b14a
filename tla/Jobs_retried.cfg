SPECIFICATION Spec
CONSTANTS
  Jobs = {1}
  DedupKeys = {k1}
  Executing = {k1}
  Workers = {w1}
  Clients = {c1, c2}
  NoJob = NoJob
  NoKey = NoKey
  Retries = TRUE
  Faults = FALSE
  MaxTurns = 3

PROPERTIES
  SucceededIsNotRetried
CHECK_DEADLOCK FALSE
