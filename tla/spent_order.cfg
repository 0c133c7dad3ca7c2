\* Expected violation: an order added with nothing remaining.
SPECIFICATION Spec
CONSTANTS
  Null = Null
  Clients = {c1, c2}
  Prices = {1}
  MinPrice = 1
  MaxPrice = 3
  MinQty = 1
  MaxQty = 9
  MinNotional = 0
  Lot = 1
  Tick = 1
  MaxAge = 3
  WordBits = 10
  QtyLimit = 1000
  Policy = "time_pro_rata"
  Quantities = {1}
  Triggers = {1}
  Requests <- SpentRequests
  CallerIds = {11}
  Storable = {1}
  MaxSeq = 2
  MaxArrival = 20
INVARIANT RemainderHasNoCounterparty
