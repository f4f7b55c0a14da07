SPECIFICATION ConnectionSpec
CONSTANTS
  ReconnectAttempts = 1
  ClosesAtOnce = TRUE
  Patient = FALSE
  MaxSessions = 2
  MaxCalls = 3
  Media = {r1}
  MaxEvents = 3
INVARIANTS
  ConnectionTypeOK
  DisconnectIsClean
  TransportAgrees
  OfferIsAnswered
  StateIsTold
