\* Expected violation: a dry run that wraps at four.
SPECIFICATION Spec
CONSTANTS
  Null = Null
  Clients = {c1, c2}
  Prices = {1}
  MinPrice = 1
  MaxPrice = 3
  MinQty = 1
  MaxQty = 9
  MinNotional = 0
  Lot = 1
  Tick = 1
  MaxAge = 3
  WordBits = 10
  QtyLimit = 4
  Policy = "fifo"
  Quantities = {2, 3}
  Triggers = {1}
  Requests <- MatchingRequests
  CallerIds = {}
  Storable = {1}
  MaxSeq = 4
  MaxArrival = 20
PROPERTY FokKillIsJustified
