SPECIFICATION Spec
CONSTANTS
  Tracks = {t1, t2}
  Delayed = TRUE
  CanNegotiate = TRUE
  Failures <- AllFailures
SYMMETRY Symmetry
INVARIANTS
  TypeOK
  NoLostUpdate
  ArmedHasShot
  OfferNeedsChannels
CHECK_DEADLOCK FALSE
