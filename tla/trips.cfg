\* Two trips at once over one route cache.
SPECIFICATION Spec
CONSTANTS
  t1 = t1
  t2 = t2
  Trips <- TwoTrips
  NoFare = NoFare
  NoPrice = NoPrice
  AuditMayFail = FALSE
  CacheMayFail = FALSE
  MaxRetries = 2
  MaxRestarts = 1
  Levels <- MCLevels
  MaxCabin <- MCMaxCabin
  DomesticCap <- MCDomesticCap
  InternationalCap <- MCInternationalCap
  Requests <- TwoRequests
  Routes <- MCRoutes
  Fares <- TwoFares
SYMMETRY TripSymmetry
INVARIANTS
  AutoApprovedIsInPolicy
  OneFarePerTrip
PROPERTIES
  ImplementsTripApproval
  EveryStepIsProgress
CHECK_DEADLOCK FALSE
