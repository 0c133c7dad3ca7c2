\* Both layouts over a band of three ticks of two: three cells for four orders.
SPECIFICATION BackendSpec
CONSTANTS
  Null = Null
  Prices = {2, 4, 6}
  MinPrice = 2
  MaxPrice = 6
  MinQty = 1
  MaxQty = 9
  MinNotional = 0
  TickSize = 2
  Clients = {c1, c2}
  Cells = {n1, n2, n3}
  MaxArrival = 5
SYMMETRY BackendSymmetry
INVARIANTS LinksConsistent IndexLive ProjectionLive LevelsHoldOrders StoresAgree
PROPERTIES SweepAdvances ImplementsFifo LadderImplementsStore HashImplementsStore
