CONSTANTS
  Newcomer = ann
  Regular = bob
  Nobody = nobody
  MaxSessions = 3
  MaxAuthCalls = 2
SPECIFICATION AccountSpec
INVARIANT ReloginReleases
CHECK_DEADLOCK FALSE
