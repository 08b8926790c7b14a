SPECIFICATION Spec
CONSTANTS
  Jobs = {1, 2}
  DedupKeys = {k1, k2}
  Executing = {k1}
  Workers = {w1, w2}
  Clients = {c1, c2}
  NoJob = NoJob
  NoKey = NoKey
  Retries = TRUE
  Faults = TRUE
  MaxTurns = 2
SYMMETRY Symmetry

INVARIANTS
  TypeOK
  ExecutionsAccounted
  SucceededHandsOver
CHECK_DEADLOCK FALSE
