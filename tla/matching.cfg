\* Matching under any contract-abiding policy: four submissions, two clients, two prices, quantities one and two.
SPECIFICATION Spec
CONSTANTS
  Null = Null
  Clients = {c1, c2}
  Prices = {1, 2}
  MinPrice = 1
  MaxPrice = 3
  MinQty = 1
  MaxQty = 9
  MinNotional = 0
  Lot = 1
  Tick = 1
  MaxAge = 3
  WordBits = 10
  QtyLimit = 1000
  Policy = "any"
  Quantities = {1, 2}
  Triggers = {}
  Requests <- MatchingRequests
  CallerIds = {}
  Storable = {1, 2}
  MaxSeq = 4
  MaxArrival = 20
SYMMETRY ClientSymmetry
INVARIANTS
  TypeOK
  IndexConsistent
  NeverCrossed
  RemainderHasNoCounterparty
  FokFillsCompletely
  DepthAddsUp
PROPERTIES
  FokKillIsJustified
  PricePriority
  TimePriority
  CrossesForetellsTrade
  
  OutcomeIsTrue
  LedgerKept
