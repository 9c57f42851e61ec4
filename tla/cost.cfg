\* The agent runs of a trace, as many as a trip may take.
SPECIFICATION Spec
CONSTANTS
  Traces = {"t"}
  Usages <- MCUsages
  InputPrice = 200
  OutputPrice = 800
  CacheReadPrice = 50
  MaxCalls = 7
  MaxRestarts = 1
INVARIANTS
  TypeOK
  TotalsAreNearTheCost
  TotalsAgree
PROPERTIES
  CostNeverDecreases
CHECK_DEADLOCK FALSE
