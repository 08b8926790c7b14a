SPECIFICATION FairSpec
CONSTANTS
  w1 = w1
  w2 = w2
  redis = redis
  Sessions = {w1, w2}
  Batch <- MCBatch
  StoreOf <- MCStoreOf
  ExpiringStores = {redis}
  Reviewed <- MCReviewed
  Mode = "PAPER"
  MaxTradesPerDay = 1
  Limits <- MCLimits
  Bucket = 5
  Cooldown = 15
  NoCandidate = NoCandidate
  MaxBatches = 1
  MaxFaults = 1
INVARIANTS TypeOK DailyLimitHolds CooldownHolds BatchExposure
PROPERTY BatchesEnd
CHECK_DEADLOCK FALSE
