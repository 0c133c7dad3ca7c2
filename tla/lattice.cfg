\* One instrument on each of four grids: every decimal through every conversion.
SPECIFICATION Spec
CONSTANTS
  Null = Null
  Instruments = {a}
  Grids <- MCGrids
  Decimals <- MCDecimals
  Inputs <- MCInputs
  Holding = 2
  MaxScale = 3
  WordMax = 63
  IntMax = 2047
  WideMax = 4095
INVARIANTS SpecsAreConsistent ConversionIsExact RoundTrip RoundingBrackets FloorIsExact AdmittedOnLattice
