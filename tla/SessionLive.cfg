SPECIFICATION LifeSpec
CONSTANTS
  ReconnectAttempts = 1
  ClosesAtOnce = FALSE
  Patient = TRUE
  MaxSessions = 2
  MaxCalls = 3
  Interval = 2
  Timeout = 3
  Horizon = 7
INVARIANTS
  LifeTypeOK
  PingsAreRegular
  ArmedDeadline
PROPERTIES
  StopDrains
  LostSessionEnds
CHECK_DEADLOCK FALSE
