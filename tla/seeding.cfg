\* Orders added without matching, colliding ids, and the last arrival stamps.
SPECIFICATION Spec
CONSTANTS
  Null = Null
  Clients = {c1, c2}
  Prices = {1, 2, 3}
  MinPrice = 1
  MaxPrice = 3
  MinQty = 1
  MaxQty = 9
  MinNotional = 0
  Lot = 1
  Tick = 1
  MaxAge = 3
  WordBits = 10
  QtyLimit = 1000
  Policy = "any"
  Quantities = {1, 2}
  Triggers = {1}
  Requests <- StopMarketRequests
  CallerIds = {2, 11}
  Storable = {1, 2}
  MaxSeq = 2
  MaxArrival = 4
SYMMETRY ClientSymmetry
INVARIANTS IndexConsistent ArrivalOrder
