CONSTANTS
  Visitors = {v1, v2}
  NoVisitor = none
  Handlers = {h1, h2}
  TotalActiveUsers = 1
  NewUsersPerMinute = 2
  SessionDuration = 1
  QueueingMethod = "fifo"
  QueueAll = FALSE
  DisableSessionRenewal = FALSE
  QueueCookieTTL = 1
  Second = 1
  TickInterval = 1
  TicksPerMinute = 2
  MaxIds = 3
  MaxTime = 2
SPECIFICATION Spec
SYMMETRY Symmetry
INVARIANTS
  TypeOK
  OnePlacePerId
  AdmittedOnly
  BoundedOvershoot
PROPERTIES
  SessionsRunTheirTime
  FollowsLifecycle
