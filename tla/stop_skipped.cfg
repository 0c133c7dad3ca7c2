\* Expected violation: a stop reached by a print in the middle of a sweep stays parked.
SPECIFICATION Spec
CONSTANTS
  Null = Null
  Clients = {c1, c2}
  Prices = {1, 2}
  MinPrice = 1
  MaxPrice = 3
  MinQty = 1
  MaxQty = 9
  MinNotional = 0
  Lot = 1
  Tick = 1
  MaxAge = 3
  WordBits = 10
  QtyLimit = 1000
  Policy = "pro_rata"
  Quantities = {1, 2}
  Triggers = {1, 2}
  Requests <- MarketStopRequests
  CallerIds = {}
  Storable = {1, 2}
  MaxSeq = 4
  MaxArrival = 20
SYMMETRY ClientSymmetry
INVARIANT StopsReachedByTradesFire
