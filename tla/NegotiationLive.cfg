SPECIFICATION FairSpec
CONSTANTS
  Tracks = {t1}
  Delayed = TRUE
  CanNegotiate = TRUE
  Failures <- PeerFailures
PROPERTIES
  ChangesAreOffered
CHECK_DEADLOCK FALSE
