\* Up to three rows of a trip, written by two processes.
SPECIFICATION Spec
CONSTANTS
  t1 = t1
  t2 = t2
  e1 = e1
  e2 = e2
  h1 = h1
  h2 = h2
  Trips <- OneTrip
  Processes <- MCProcesses
  EmployeeIds <- MCEmployeeIds
  HashEmployeeId <- MCHash
  Values <- MCValues
  Null = Null
  NoRow = NoRow
  Times <- MCTimes
  MaxRows = 3
  Fares <- MCFares
  PriceOf <- MCPriceOf
INVARIANTS
  TypeOK
  RawIdOnlyAsApprover
PROPERTIES
  CallSequenceOnlyGrows
  ImplementsAuditTrail
CHECK_DEADLOCK FALSE
