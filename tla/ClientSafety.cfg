SPECIFICATION ClientSpec
CONSTANTS
  d1 = d1
  d2 = d2
  Devices = {d1, d2}
  MaxManagers = 2
  MaxCalls = 3
  Kinds = {"plain", "misread"}
  MaxSending = 1
  MaxReceiving = 2
  MaxMessages = 2
  Spoiled = {2, 3}
  Times = {0, 1500}
  FrameBytes = {0, 1, 38}
  Ivs <- IvChoices
  IvSize = 4
  KeyIndexes = {0}
  Sif <- SifChoice
  MaxFrame = 6
  DefaultHeader = 4
  HeaderLimit = 7
SYMMETRY AlikeDevices
INVARIANTS
  ClientTypeOK
  ManagerFollowsDevices
  ServerKnowsMute
  NoGap
  HeardUnlessCrossed
  OldSessionIsSilent
  StatisticsAreTrue
  FramesSurvive
PROPERTY
  ImplementsExchange
CHECK_DEADLOCK FALSE
