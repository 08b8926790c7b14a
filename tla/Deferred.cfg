SPECIFICATION FairSpec
CONSTANTS
  Jobs = {1}
  Signals = {1, 2}
  Batch <- MCBatch
  Workers = {w1, w2}
  NoJob = NoJob
  NoSignal = NoSignal
  NoWorker = NoWorker
  MaxCopies = 1
  MaxFaults = 2

INVARIANTS
  TypeOK
  OrderNotRepeated
  LedgerBacked
  UnfinishedIsHandled
PROPERTY
  JobsEnd
CHECK_DEADLOCK FALSE
