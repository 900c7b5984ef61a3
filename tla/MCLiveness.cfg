CONSTANTS
  Visitors = {v1}
  NoVisitor = none
  Handlers = {h1}
  TotalActiveUsers = 2
  NewUsersPerMinute = 4
  SessionDuration = 1
  QueueingMethod = "random"
  QueueAll = TRUE
  DisableSessionRenewal = FALSE
  QueueCookieTTL = 2
  Second = 1
  TickInterval = 1
  TicksPerMinute = 2
  MaxIds = 3
  MaxTime = 3
SPECIFICATION FairSpec
INVARIANTS
  QueueAllRespectsCapacity
PROPERTIES
  PopLeadsToSession
  RequestsEnd
