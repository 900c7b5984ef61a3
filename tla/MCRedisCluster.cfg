CONSTANTS
  Instances = {i1, i2}
  Handlers = {h1, h2}
  Ids = {a, b, c}
  NoId = none
  TotalActiveUsers = 1
  NewUsersPerMinute = 1
  TicksPerMinute = 2
  QueueAll = FALSE
  DisableSessionRenewal = FALSE
  MaxFaults = 1
SPECIFICATION Spec
SYMMETRY Symmetry
INVARIANTS
  TypeOK
  LossBounded
  OnePlacePerFault
  AdmittedOnly
  ClusterOvershoot
