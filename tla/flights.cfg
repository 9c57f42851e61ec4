\* Two requests, a reflection each, over a cache with a time to live of two ticks.
SPECIFICATION Spec
CONSTANTS
  t1 = t1
  t2 = t2
  Trips <- TwoTrips
  Routes <- MCRoutes
  Upper <- MCUpper
  Cabins <- MCCabins
  NoEntry = NoEntry
  TTL = 2
  MaxEntries = 1
  MaxTime = 2
  Fares <- MCFares
  NoFare = NoFare
  Requests <- MCRequests
  LowerCabins <- MCLowerCabins
  Costs <- MCCosts
  MaxRetries = 1
  MaxRestarts = 1
SYMMETRY TripSymmetry
INVARIANTS
  TypeOK
  ServedIsFresh
  OnlyOverlappingSearchesRepeat
  TracesFollowRequests
CHECK_DEADLOCK FALSE
