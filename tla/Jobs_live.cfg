SPECIFICATION FairSpec
CONSTANTS
  Jobs = {1, 2, 3}
  DedupKeys = {k1}
  Executing = {k1}
  Workers = {w1}
  Clients = {c1, c2}
  NoJob = NoJob
  NoKey = NoKey
  Retries = FALSE
  Faults = TRUE
  MaxTurns = 3

INVARIANT
  OneActivePerClient
PROPERTY
  JobsFinish
CHECK_DEADLOCK FALSE
