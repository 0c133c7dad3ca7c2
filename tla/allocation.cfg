\* Every shipped policy over every level of up to four makers, lots of two.
SPECIFICATION Spec
CONSTANTS
  Lot = 2
  Tick = 1
  MaxAge = 3
  WordBits = 10
  MaxLots = 3
  MaxTaker = 9
  Depth = 4
  MaxNow = 7
INVARIANTS PoliciesKeepContract  ProRataIsFair PatienceNeverHurts EqualAgesAreProRata
