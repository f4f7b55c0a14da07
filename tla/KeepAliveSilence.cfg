SPECIFICATION PingSpec
CONSTANTS
  Interval = 2
  Timeout = 3
  Horizon = 9
INVARIANTS
  SilenceIsReported
CHECK_DEADLOCK FALSE
