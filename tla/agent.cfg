\* A run of each agent: three tool calls in up to two rounds.
SPECIFICATION Spec
CONSTANTS
  Provider = "duffel"
  MaxOffers = 2
  NoFare = NoFare
  Missing = Missing
  Null = Null
  Garbled = Garbled
  Replies <- MCReplies
  ResultShape = "blocks"
  Served <- MCServed
  AskedCabins <- MCAskedCabins
  TokenCounts <- MCTokenCounts
  MaxRounds = 2
  MaxCalls = 3
INVARIANTS
  TypeOK
  ToolsStayInScope
  RecordedIsPaid
  NoInventedFare
  SignalMeansNotCalled
  FailureDegrades
PROPERTIES
  KeepsPromise
CHECK_DEADLOCK FALSE
