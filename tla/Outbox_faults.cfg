SPECIFICATION Spec
CONSTANTS
  Events = {1, 2}
  Workers = {w}
  ApiDispatches = {api}
  Admins = {adm}
  NoSession = NoSession
  NoEvent = NoEvent
  Limit = 2
  FirstDelay = 1
  MaxDelay = 1
  Outcomes <- MCOutcomes
  MaxDisturbances = 2

INVARIANTS
  TypeOK
  LocksInOrder
  PublishedArrived
  CopiesAccounted
