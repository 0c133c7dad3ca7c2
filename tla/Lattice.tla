-------------------------------- MODULE Lattice --------------------------------
(***************************************************************************)
(* Instruments and their lattices (src/src/instrument.rs): a specification *)
(* is built, decimals become prices and quantities through it, and orders  *)
(* are admitted by it.  A decimal is a mantissa and a number of decimal    *)
(* places; a Price or a Qty is a bare number of units, which remembers     *)
(* nothing of the specification that made it.                              *)
(*                                                                         *)
(* The code's machine words (u64, i128, u128) and the 28 places of a       *)
(* decimal are constants, so that small instances meet their ends.         *)
(***************************************************************************)
EXTENDS Integers, FiniteSets

CONSTANTS
  Instruments,
  Grids,       \* the [price_scale, qty_scale, tick_size, lot_size] specs are built from
  Decimals,    \* decimals the conversions are defined, and checked, on
  Inputs,      \* bound: those of them that callers hand over
  Holding,     \* bound: prices, and quantities, held at a time
  MaxScale,    \* MAX_SCALE
  WordMax,     \* u64::MAX
  IntMax,      \* i128::MAX
  WideMax,     \* u128::MAX
  Null

Grid == [price_scale : Nat, qty_scale : Nat, tick_size : Nat, lot_size : Nat]
Decimal == [mantissa : Int, scale : 0 .. MaxScale]

ASSUME LatticeAssumption ==
  /\ Grids \subseteq Grid
  /\ Decimals \subseteq Decimal
  /\ Inputs \subseteq Decimals
  /\ MaxScale \in Nat /\ WordMax \in Nat /\ IntMax \in Nat /\ WideMax \in Nat
  /\ WordMax * WordMax <= WideMax

\* Powers of ten, as far as two scales lie apart: pow10, and checked_pow over
\* the two scales of a notional.
Power[n \in 0 .. 2 * MaxScale] == IF n = 0 THEN 1 ELSE 10 * Power[n-1]

\* u64 fits i128 and i128 fits u128, and so does every shift between two scales
\* of at most MAX_SCALE places: 10^28 < 2^127.
ASSUME WidthAssumption ==
  WordMax <= IntMax /\ IntMax <= WideMax /\ Power[MaxScale] <= IntMax

\* InstrumentSpec, a missing bound being Null.
Specification ==
  [price_scale : 0 .. MaxScale, qty_scale : 0 .. MaxScale,
   tick_size : Nat \ {0}, lot_size : Nat \ {0},
   min_price : Nat, max_price : Nat \union {Null},
   min_qty : Nat, max_qty : Nat \union {Null}, min_notional : Nat \union {Null}]

ASSUME NullAssumption == Null \notin Nat /\ Null \notin Specification

VARIABLES
  spec,       \* spec[i]: an instrument's specification, or Null
  prices,     \* prices callers hold
  qtys,       \* quantities callers hold
  admitted    \* the orders admitted so far: [instrument, price, qty]

vars == <<spec, prices, qtys, admitted>>

Init ==
  /\ spec = [i \in Instruments |-> Null]
  /\ prices = {}
  /\ qtys = {}
  /\ admitted = {}

-------------------------------------------------------------------------------
(* Onto the grid.  A conversion is [units |-> n], or [error |-> why].      *)

Ok(n) == [units |-> n]
Err(why) == [error |-> why]
IsOk(result) == "units" \in DOMAIN result

\* Mutant: what is left below the grid is forgotten.
MutSplitMinor(d, scale) ==
  LET floor == IF scale >= d.scale
               THEN d.mantissa * Power[scale - d.scale]
               ELSE d.mantissa \div Power[d.scale - scale]
  IN  IF d.mantissa < 0 THEN Err("negative")
      ELSE IF floor > WordMax THEN Err("out_of_range")
      ELSE [units |-> floor, left |-> FALSE]

\* split_minor: the floor of d on the grid of 10^-scale, and whether anything
\* is left below it.  The shift is exact or fails.
SplitMinor(d, scale) ==
  LET fine == d.scale > scale
      shift == Power[IF fine THEN d.scale - scale ELSE scale - d.scale]
      floor == IF fine THEN d.mantissa \div shift ELSE d.mantissa * shift
  IN  IF d.mantissa < 0 THEN Err("negative")
      ELSE IF shift > IntMax \/ floor > IntMax \/ floor > WordMax THEN Err("out_of_range")
      ELSE [units |-> floor, left |-> fine /\ d.mantissa % shift # 0]

\* Mutant: the grid is not asked.
MutFromUnits(n, unit) == Ok(n)

\* price_from_minor, qty_from_base: only whole ticks, only whole lots.
FromUnits(n, unit) == IF n % unit = 0 THEN Ok(n) ELSE Err("off_grid")

\* A decimal onto the lattice of `scale' and `unit', exactly or not at all.
Onto(d, scale, unit) ==
  LET split == SplitMinor(d, scale)
  IN  IF ~IsOk(split) THEN split
      ELSE IF split.left THEN Err("too_precise")
      ELSE FromUnits(split.units, unit)

\* price, qty.  Bounds are admission's business.
Price(s, d) == Onto(d, s.price_scale, s.tick_size)
Qty(s, d) == Onto(d, s.qty_scale, s.lot_size)

Roundings == {"down", "up", "passive_bid", "passive_ask"}

\* Mutant: a remainder below the minor unit is not enough to round up.
MutRoundPrice(s, d, rounding) ==
  LET split == SplitMinor(d, s.price_scale)
      ticks == split.units \div s.tick_size
      exact == split.units % s.tick_size = 0
      rounded == IF rounding \in {"up", "passive_ask"} /\ ~exact
                 THEN (ticks + 1) * s.tick_size ELSE ticks * s.tick_size
  IN  IF ~IsOk(split) THEN split
      ELSE IF rounded > WordMax THEN Err("out_of_range") ELSE Ok(rounded)

\* round_price: the next tick in the named direction; a bid is passive when
\* lower, an ask when higher.
RoundPrice(s, d, rounding) ==
  LET split == SplitMinor(d, s.price_scale)
      ticks == split.units \div s.tick_size
      exact == split.units % s.tick_size = 0 /\ ~split.left
      rounded == IF rounding \in {"up", "passive_ask"} /\ ~exact
                 THEN (ticks + 1) * s.tick_size ELSE ticks * s.tick_size
  IN  IF ~IsOk(split) THEN split
      ELSE IF rounded > WordMax THEN Err("out_of_range") ELSE Ok(rounded)

\* Mutant: the floor is rounded down.
MutCeilScaled(d, scale) ==
  IF d.mantissa < 0 THEN Null
  ELSE IF scale >= d.scale THEN d.mantissa * Power[scale - d.scale]
  ELSE d.mantissa \div Power[d.scale - scale]

\* ceil_scaled: the least number of notional units not below d, or Null.
CeilScaled(d, scale) ==
  LET fine == d.scale > scale
      shift == Power[IF fine THEN d.scale - scale ELSE scale - d.scale]
      ceiling == IF ~fine THEN d.mantissa * shift
                 ELSE IF d.mantissa % shift > 0 THEN d.mantissa \div shift + 1
                 ELSE d.mantissa \div shift
  IN  IF d.mantissa < 0 \/ shift > WideMax \/ ceiling > WideMax THEN Null ELSE ceiling

-------------------------------------------------------------------------------
(* Off the grid *)

\* Mutant: a quantity is shown at the scale of prices.
MutQtyToDecimal(s, n) == [mantissa |-> n, scale |-> s.price_scale]

ToDecimal(s, n) == [mantissa |-> n, scale |-> s.price_scale]
QtyToDecimal(s, n) == [mantissa |-> n, scale |-> s.qty_scale]

Distance(m, n) == IF m < n THEN n - m ELSE m - n

TicksBetween(s, m, n) == Distance(m, n) \div s.tick_size

-------------------------------------------------------------------------------
(* Building a specification *)

ValidGrid(g) ==
  /\ g.price_scale <= MaxScale /\ g.qty_scale <= MaxScale
  /\ g.tick_size # 0 /\ g.lot_size # 0

\* new: one tick and one lot are the least that is accepted.
New(i, g) ==
  /\ spec[i] = Null
  /\ ValidGrid(g)
  /\ spec' = [spec EXCEPT ![i] =
                [price_scale |-> g.price_scale, qty_scale |-> g.qty_scale,
                 tick_size |-> g.tick_size, lot_size |-> g.lot_size,
                 min_price |-> g.tick_size, max_price |-> Null,
                 min_qty |-> g.lot_size, max_qty |-> Null, min_notional |-> Null]]
  /\ UNCHANGED <<prices, qtys, admitted>>

\* Mutant: the upper bound is not compared to the lower.
MutValidRange(min, max, unit) ==
  min % unit = 0 /\ (max # Null => max % unit = 0)

\* Both ends on this grid, and in order.
ValidRange(min, max, unit) ==
  min % unit = 0 /\ (max # Null => max % unit = 0 /\ min <= max)

WithPriceRange(i, min, max) ==
  /\ spec[i] # Null
  /\ ValidRange(min, max, spec[i].tick_size)
  /\ spec' = [spec EXCEPT ![i].min_price = min, ![i].max_price = max]
  /\ UNCHANGED <<prices, qtys, admitted>>

WithQtyRange(i, min, max) ==
  /\ spec[i] # Null
  /\ ValidRange(min, max, spec[i].lot_size)
  /\ spec' = [spec EXCEPT ![i].min_qty = min, ![i].max_qty = max]
  /\ UNCHANGED <<prices, qtys, admitted>>

\* One notional unit is a minor price unit times a base unit.
WithMinNotional(i, d) ==
  /\ spec[i] # Null
  /\ LET raw == CeilScaled(d, spec[i].price_scale + spec[i].qty_scale)
     IN  /\ raw # Null
         /\ spec' = [spec EXCEPT ![i].min_notional = raw]
  /\ UNCHANGED <<prices, qtys, admitted>>

-------------------------------------------------------------------------------
(* Callers *)

HoldPrice(result) ==
  /\ IsOk(result)
  /\ prices' = prices \union {result.units}
  /\ Cardinality(prices') <= Holding
  /\ UNCHANGED <<spec, qtys, admitted>>

MakePrice(i, d) ==
  /\ spec[i] # Null
  /\ \/ HoldPrice(Price(spec[i], d))
     \/ \E rounding \in Roundings : HoldPrice(RoundPrice(spec[i], d, rounding))

MakeQty(i, d) ==
  /\ spec[i] # Null
  /\ LET result == Qty(spec[i], d)
     IN  /\ IsOk(result)
         /\ qtys' = qtys \union {result.units}
         /\ Cardinality(qtys') <= Holding
  /\ UNCHANGED <<spec, prices, admitted>>

AdmitsPrice(s, price) == s.min_price <= price /\ (s.max_price # Null => price <= s.max_price)
AdmitsQty(s, qty) == s.min_qty <= qty /\ (s.max_qty # Null => qty <= s.max_qty)
AdmitsNotional(s, price, qty) == s.min_notional # Null => price * qty >= s.min_notional

\* The gate of an instrument's book: bounds only.
Admit(i, price, qty) ==
  /\ spec[i] # Null
  /\ AdmitsPrice(spec[i], price)
  /\ AdmitsQty(spec[i], qty)
  /\ AdmitsNotional(spec[i], price, qty)
  /\ admitted' = {[instrument |-> i, price |-> price, qty |-> qty]}
  /\ UNCHANGED <<spec, prices, qtys>>

\* Nothing need ever be called.
AwaitCaller == UNCHANGED vars

Next ==
  \/ \E i \in Instruments :
       \/ \E g \in Grids : New(i, g)
       \/ \E min \in prices, max \in prices \union {Null} : WithPriceRange(i, min, max)
       \/ \E min \in qtys, max \in qtys \union {Null} : WithQtyRange(i, min, max)
       \/ \E d \in Inputs : WithMinNotional(i, d) \/ MakePrice(i, d) \/ MakeQty(i, d)
       \/ \E price \in prices, qty \in qtys : Admit(i, price, qty)
  \/ AwaitCaller

Spec == Init /\ [][Next]_vars

-------------------------------------------------------------------------------
(* Properties.  A decimal d and n units of 10^-scale are compared exactly, *)
(* as integers, at the finer of their two scales.                          *)

Finer(n, from, to) == n * Power[IF to > from THEN to - from ELSE 0]

AtLeast(n, d, scale) == Finer(n, scale, d.scale) >= Finer(d.mantissa, d.scale, scale)
AtMost(n, d, scale) == Finer(n, scale, d.scale) <= Finer(d.mantissa, d.scale, scale)
Same(n, d, scale) == AtLeast(n, d, scale) /\ AtMost(n, d, scale)

Specs == {spec[i] : i \in Instruments} \ {Null}

\* Every specification is one its grid allows: bounds on the grid and in
\* order, whichever builder calls made it and in whatever order.
SpecsAreConsistent ==
  \A s \in Specs :
    /\ s.tick_size > 0 /\ s.lot_size > 0
    /\ s.min_price % s.tick_size = 0 /\ s.min_qty % s.lot_size = 0
    /\ s.max_price # Null => s.max_price % s.tick_size = 0 /\ s.min_price <= s.max_price
    /\ s.max_qty # Null => s.max_qty % s.lot_size = 0 /\ s.min_qty <= s.max_qty

\* A decimal becomes exactly itself or is refused for the right reason: below
\* zero, beyond the word, finer than the minor unit, off the tick
\* (instrument.rs:693-698).
ConversionIsExact ==
  \A s \in Specs, d \in Decimals :
    LET result == Price(s, d)
        Fits(n) == Same(n, d, s.price_scale)
    IN  IF IsOk(result)
        THEN Fits(result.units) /\ result.units % s.tick_size = 0 /\ result.units <= WordMax
        ELSE CASE result.error = "negative" -> d.mantissa < 0
               [] result.error = "out_of_range" -> ~AtLeast(WordMax + 1, d, s.price_scale) \/ Fits(WordMax + 1)
               [] result.error = "too_precise" -> \A n \in 0 .. WordMax : ~Fits(n)
               [] result.error = "off_grid" ->
                    \E n \in 0 .. WordMax : Fits(n) /\ n % s.tick_size # 0

\* What came off the lattice goes back to the same place, at any number of
\* places (instrument.rs:35-39), and distances are whole ticks.
RoundTrip ==
  \A s \in Specs :
    /\ \A n \in {k * s.tick_size : k \in 0 .. 2 * s.tick_size} :
         n <= WordMax => /\ Price(s, ToDecimal(s, n)) = Ok(n)
                         /\ TicksBetween(s, n, s.tick_size) * s.tick_size
                              = Distance(n, s.tick_size)
    /\ \A n \in {k * s.lot_size : k \in 0 .. 2 * s.lot_size} :
         n <= WordMax => Qty(s, QtyToDecimal(s, n)) = Ok(n)

\* Rounding lands on the nearest tick on the named side, keeps what is on a
\* tick already, and never improves a passive price (instrument.rs:204-215).
RoundingBrackets ==
  \A s \in Specs, d \in Decimals :
    LET Rounded(rounding) == RoundPrice(s, d, rounding)
        scale == s.price_scale
    IN  /\ \A rounding \in {"down", "passive_bid"} :
             IsOk(Rounded(rounding)) =>
               LET n == Rounded(rounding).units
               IN  /\ n % s.tick_size = 0
                   /\ AtMost(n, d, scale) /\ ~AtMost(n + s.tick_size, d, scale)
        /\ \A rounding \in {"up", "passive_ask"} :
             IsOk(Rounded(rounding)) =>
               LET n == Rounded(rounding).units
               IN  /\ n % s.tick_size = 0
                   /\ AtLeast(n, d, scale) /\ ~AtLeast(n - s.tick_size, d, scale)

\* "At least X" is decided exactly: an order passes the floor in notional units
\* just when its exact value is no less than the published decimal; the floor
\* is refused only when it fits no notional (instrument.rs:372-377, 628-633).
FloorIsExact ==
  \A s \in Specs, d \in Decimals :
    LET scale == s.price_scale + s.qty_scale
        raw == CeilScaled(d, scale)
    IN  IF raw = Null
        THEN d.mantissa <= 0 \/ ~AtLeast(WideMax, d, scale)
        ELSE AtLeast(raw, d, scale) /\ (raw > 0 => ~AtLeast(raw - 1, d, scale))

\* "Tick and lot alignment cannot be violated by anything that reached this
\* far, because Price and Qty cannot hold an off-grid value"
\* (orderbook.rs:204-206): an admitted order is on its instrument's lattice.
AdmittedOnLattice ==
  \A order \in admitted :
    /\ order.price % spec[order.instrument].tick_size = 0
    /\ order.qty % spec[order.instrument].lot_size = 0
===============================================================================
