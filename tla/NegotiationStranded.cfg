SPECIFICATION Spec
CONSTANTS
  Tracks = {t1}
  Delayed = TRUE
  CanNegotiate = TRUE
  Failures <- NoFailures
INVARIANT NoStrandedOffer
CHECK_DEADLOCK FALSE
