CONSTANTS
  Visitors = {v1, v2}
  NoVisitor = none
  Handlers = {h1}
  TotalActiveUsers = 1
  NewUsersPerMinute = 2
  SessionDuration = 2
  QueueingMethod = "fifo"
  QueueAll = FALSE
  DisableSessionRenewal = FALSE
  QueueCookieTTL = 2
  Second = 1
  TickInterval = 1
  TicksPerMinute = 2
  MaxIds = 3
  MaxTime = 3
SPECIFICATION Spec
SYMMETRY Symmetry
INVARIANTS
  FirstComeFirstServed
