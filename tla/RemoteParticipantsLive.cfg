SPECIFICATION FairSpec
CONSTANTS
  p1 = p1
  p2 = p2
  t1 = t1
  t2 = t2
  Participants = {p1}
  Tracks = {t1}
  Owner <- OwnTrack
  Foreign = {}
  MaxSessions = 1
  MaxCalls = 2
PROPERTIES
  ListedMediaIsBound
CHECK_DEADLOCK FALSE
