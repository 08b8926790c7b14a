SPECIFICATION FairSpec
CONSTANTS
  Events = {1, 2}
  Workers = {w}
  ApiDispatches = {}
  Admins = {adm}
  NoSession = NoSession
  NoEvent = NoEvent
  Limit = 1
  FirstDelay = 1
  MaxDelay = 2
  Outcomes <- MCPoison
  MaxDisturbances = 3

PROPERTY
  EventsArrive
