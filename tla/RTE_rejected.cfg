SPECIFICATION Spec
CONSTANTS
  Trades = {t1}
  Sessions = {s1, s2}
  NoTrade = NoTrade
  NoSession = NoSession
  CreateStatuses <- MCCreateStatuses
  ReviewStatuses <- MCApproveOrReject
  AdapterAnswers <- MCAllAnswers
  ExpireOnCommit = TRUE
  Faults = FALSE
  MaxSubmissions = 2

PROPERTY
  OrderOnlyFromApproved
CHECK_DEADLOCK FALSE
