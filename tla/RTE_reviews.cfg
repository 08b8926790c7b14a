SPECIFICATION Spec
CONSTANTS
  Trades = {t1}
  Sessions = {s1, s2}
  NoTrade = NoTrade
  NoSession = NoSession
  CreateStatuses <- ReviewedTradeStatus
  ReviewStatuses <- ReviewedTradeStatus
  AdapterAnswers <- MCAllAnswers
  ExpireOnCommit = TRUE
  Faults = TRUE
  MaxSubmissions = 3
SYMMETRY Symmetry

PROPERTIES LifecycleSpec ClaimHoldsStatus
CHECK_DEADLOCK FALSE
