SPECIFICATION WifiFairSpec
CONSTANTS
  NetworkCount = 2
  MaxRssi = 2
  FailoverDelay = 1
  RetryDelay = 2
  AuthDelay = 3
  MaxChanges = 2
  MaxRestarts = 1
INVARIANTS WifiTypeOK StatusSettles NoStall ActiveTried
PROPERTIES EventuallyConnected
CHECK_DEADLOCK FALSE
