\* A rejected trip is granted afterwards.
SPECIFICATION Spec
CONSTANTS
  t1 = t1
  t2 = t2
  Trips <- OneTrip
  NoFare = NoFare
  NoPrice = NoPrice
  AuditMayFail = TRUE
  CacheMayFail = TRUE
  MaxRetries = 2
  MaxRestarts = 1
  Levels <- MCLevels
  MaxCabin <- MCMaxCabin
  DomesticCap <- MCDomesticCap
  InternationalCap <- MCInternationalCap
  Requests <- AllRequests
  Routes <- MCRoutes
  Fares <- SomeFares
PROPERTY
  RejectedIsNotGranted
CHECK_DEADLOCK FALSE
