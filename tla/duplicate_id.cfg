\* Expected violation: the remainder of a trade cannot rest under a taken id.
SPECIFICATION Spec
CONSTANTS
  Null = Null
  Clients = {c1, c2}
  Prices = {1, 2}
  MinPrice = 1
  MaxPrice = 3
  MinQty = 1
  MaxQty = 9
  MinNotional = 0
  Lot = 1
  Tick = 1
  MaxAge = 3
  WordBits = 10
  QtyLimit = 1000
  Policy = "fifo"
  Quantities = {1, 2}
  Triggers = {1}
  Requests <- RestingRequests
  CallerIds = {2}
  Storable = {1, 2}
  MaxSeq = 3
  MaxArrival = 20
PROPERTY LastPriceFollowsTrades
