CONSTANTS
  Visitors = {v1, v2, v3}
  Ghost = ghost
  TotalActiveUsers = 1
  NewUsersPerMinute = 1
  TicksPerMinute = 2
  Rooms <- MCRooms
  MaxMishaps = 2
SPECIFICATION Spec
INVARIANTS
  TypeOK
  PlacesMatchPages
PROPERTY
  EventuallyAdmitted
