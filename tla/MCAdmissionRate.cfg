CONSTANTS
  NewUsersPerMinute = 5
  TotalActiveUsers = 2
  TicksPerMinute = 3
  ActiveCounts <- MCActiveCounts
  MaxTicks = 7
SPECIFICATION Spec
INVARIANTS
  TypeOK
  TokenConservation
  NoBankedBurst
  MinuteLimit
CHECK_DEADLOCK FALSE
