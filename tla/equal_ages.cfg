\* Expected violation: three-bit weights lose the ratio of sizes 2 and 6.
SPECIFICATION Spec
CONSTANTS
  Lot = 1
  Tick = 2
  MaxAge = 7
  WordBits = 3
  MaxLots = 7
  MaxTaker = 7
  Depth = 3
  MaxNow = 8
INVARIANT EqualAgesAreProRata
