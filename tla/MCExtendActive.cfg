CONSTANTS
  Instances = {i1}
  Handlers = {h1, h2}
  Ids = {a, b}
  NoId = none
  TotalActiveUsers = 1
  NewUsersPerMinute = 1
  TicksPerMinute = 1
  QueueAll = FALSE
  DisableSessionRenewal = FALSE
  MaxFaults = 0
SPECIFICATION Spec
SYMMETRY Symmetry
INVARIANT
  EndedStaysEnded
