\* Chains of stop activations, stop-limits among them, and the end of every command: five submissions, one buyer and one seller.
SPECIFICATION FairSpec
CONSTANTS
  Null = Null
  Clients = {c1, c2}
  Prices = {1, 2}
  MinPrice = 1
  MaxPrice = 3
  MinQty = 1
  MaxQty = 9
  MinNotional = 0
  Lot = 1
  Tick = 1
  MaxAge = 3
  WordBits = 10
  QtyLimit = 1000
  Policy = "any"
  Quantities = {1}
  Triggers = {1, 2}
  Requests <- CascadeRequests
  CallerIds = {}
  Storable = {1, 2}
  MaxSeq = 5
  MaxArrival = 20
INVARIANTS StopDiscipline LookupsAgree
PROPERTIES LastPriceFollowsTrades LedgerKept CommandsEnd
