------------------------------- MODULE MCLattice -------------------------------
(***************************************************************************)
(* Instances of Lattice for TLC: words of 6, 11 and 12 bits for the code's *)
(* 64, 127 and 128, three decimal places for its 28.                       *)
(***************************************************************************)
EXTENDS Lattice

MCGrid(ps, qs, tick, lot) ==
  [price_scale |-> ps, qty_scale |-> qs, tick_size |-> tick, lot_size |-> lot]

\* Whole units, quarters of a unit in hundredths, thirds of a tenth, and
\* fine-grained quantities; and grids no instrument can have.
MCGrids ==
  {MCGrid(0, 0, 1, 1), MCGrid(2, 0, 25, 5), MCGrid(1, 2, 3, 2), MCGrid(3, 2, 1, 1),
   MCGrid(4, 0, 1, 1), MCGrid(2, 0, 0, 1), MCGrid(2, 0, 1, 0)}

\* Two lattices of the same scale, one a refinement of the other.
ForeignGrids == {MCGrid(0, 0, 1, 1), MCGrid(0, 0, 2, 1)}

MCDecimal(mantissa, scale) == [mantissa |-> mantissa, scale |-> scale]

\* Small values and the ends of the words, at every number of places.
MCDecimals ==
  {MCDecimal(m, p) : m \in {-1, 0, 1, 2, 3, 5, 6, 24, 25, 26, 30, 50, 63, 64, 630, 639,
                            640, 4095}, p \in 0 .. MaxScale}

\* A tick and a lot of each grid, two of each, and decimals between two ticks.
MCInputs == {MCDecimal(1, 0), MCDecimal(3, 1), MCDecimal(6, 1), MCDecimal(25, 2),
             MCDecimal(5, 0)}

ForeignInputs == {MCDecimal(m, 0) : m \in 1 .. 4}
===============================================================================
