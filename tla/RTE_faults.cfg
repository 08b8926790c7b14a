SPECIFICATION Spec
CONSTANTS
  Trades = {t1}
  Sessions = {s1, s2, s3}
  NoTrade = NoTrade
  NoSession = NoSession
  CreateStatuses <- MCCreateStatuses
  ReviewStatuses <- MCApproveRejectFail
  AdapterAnswers <- MCAllAnswers
  ExpireOnCommit = FALSE
  Faults = TRUE
  MaxSubmissions = 3
SYMMETRY Symmetry
INVARIANTS
  TypeOK
  OrderNotRepeated
  ExecutionTellsResult
  ExecutedIsBacked
  AnnouncementsAgree
PROPERTY
  OutcomesAreFinal
CHECK_DEADLOCK FALSE
