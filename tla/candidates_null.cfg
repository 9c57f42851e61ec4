\* A trip whose fares came from the route cache.
SPECIFICATION Spec
CONSTANTS
  t1 = t1
  t2 = t2
  Trips <- TwoTrips
  NoFare = NoFare
  NoPrice = NoPrice
  AuditMayFail = FALSE
  CacheMayFail = FALSE
  MaxRetries = 2
  MaxRestarts = 0
  Levels <- MCLevels
  MaxCabin <- MCMaxCabin
  DomesticCap <- MCDomesticCap
  InternationalCap <- MCInternationalCap
  Requests <- TwoRequests
  Routes <- MCRoutes
  Fares <- TwoFares
INVARIANT
  NoCandidatesMeansNoFares
CHECK_DEADLOCK FALSE
