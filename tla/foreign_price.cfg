\* Expected violation: a price made by one instrument is admitted by another, off its tick.
SPECIFICATION Spec
CONSTANTS
  Null = Null
  Instruments = {a, b}
  Grids <- ForeignGrids
  Decimals <- ForeignInputs
  Inputs <- ForeignInputs
  Holding = 2
  MaxScale = 3
  WordMax = 63
  IntMax = 2047
  WideMax = 4095
INVARIANT AdmittedOnLattice
