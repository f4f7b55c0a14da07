SPECIFICATION Spec
CONSTANTS
  p1 = p1
  p2 = p2
  t1 = t1
  t2 = t2
  Participants = {p1, p2}
  Tracks = {t1, t2}
  Owner <- OwnTracks
  Foreign = {}
  MaxSessions = 2
  MaxCalls = 2
INVARIANTS
  TypeOK
  NobodyWaitsInVain
  OneObjectPerTrack
  NoReceiverIsLost
  RemovedMediaIsGone
CHECK_DEADLOCK FALSE
