SPECIFICATION FairSpec
CONSTANTS
  Trades = {t1}
  Sessions = {s1, s2}
  NoTrade = NoTrade
  NoSession = NoSession
  CreateStatuses <- MCCreateStatuses
  ReviewStatuses <- MCApproveOrExit
  AdapterAnswers <- MCKnownAnswers
  ExpireOnCommit = TRUE
  Faults = FALSE
  MaxSubmissions = 3

PROPERTIES
  RequestsEnd
  ClaimsResolve
CHECK_DEADLOCK FALSE
