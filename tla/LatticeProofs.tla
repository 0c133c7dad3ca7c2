----------------------------- MODULE LatticeProofs -----------------------------
(***************************************************************************)
(* The instruments of Lattice, for every word width and every number of    *)
(* places: conversions are exact or refused for the right reason, rounding *)
(* brackets its input, what is on the lattice survives the round trip, and *)
(* a specification stays consistent whatever builders are called.          *)
(*                                                                         *)
(* A decimal and a number of units are compared at the finer of their two  *)
(* scales.  The proofs reduce that to three facts: the comparison is a     *)
(* total order along the units, split_minor returns the floor in it, and   *)
(* ceil_scaled the ceiling.                                                *)
(***************************************************************************)
EXTENDS Lattice, DataProofs

-------------------------------------------------------------------------------
(* Powers of ten *)

LEMMA PowersOfTen ==
  /\ Power[0] = 1
  /\ \A n \in 0 .. 2 * MaxScale : Power[n] \in Nat \ {0}
  /\ \A n \in 1 .. 2 * MaxScale : Power[n] = 10 * Power[n-1]
<1> DEFINE top == 2 * MaxScale
           step == [i \in 1 .. top |-> [v \in Nat \ {0} |-> 10 * v]]
           Value(g, i) == IF i = 0 THEN 1 ELSE 10 * g[i-1]
           IsPower(g) == g = [i \in 0 .. top |-> Value(g, i)]
           chosen == CHOOSE g : IsPower(g)
<1>1. top \in Nat
  BY LatticeAssumption
<1>2. Power = chosen
  BY DEF Power
<1> HIDE DEF top
<1>3. IsStepwise(top, Nat \ {0}, 1, step)
  BY <1>1 DEF IsStepwise
<1>4. PICK g \in Recursions(top, Nat \ {0}, 1, step) : TRUE
  <2> DEFINE one == 1
             V == Nat \ {0}
  <2> HIDE DEF step, one, V
  <2>1. IsStepwise(top, V, one, step)
    BY <1>3 DEF one, V
  <2>2. Recursions(top, V, one, step) # {}
    BY <2>1, RecursionExists
  <2> QED
    BY <2>2 DEF one, V
<1>5. IsPower(g)
  <2>1. g \in [0 .. top -> Nat \ {0}] /\ g[0] = 1
    BY <1>4 DEF Recursions
  <2>2. ASSUME NEW i \in 1 .. top PROVE g[i] = 10 * g[i-1]
    <3>1. g[i] = step[i][g[i-1]]
      BY <1>4 DEF Recursions
    <3>2. i - 1 \in 0 .. top
      BY <1>1
    <3> QED
      BY <2>1, <3>1, <3>2
  <2>3. \A i \in 0 .. top : g[i] = Value(g, i)
    BY <1>1, <2>1, <2>2
  <2> HIDE DEF Value
  <2> QED
    BY <2>1, <2>3
<1>6. IsPower(chosen)
  <2> HIDE DEF IsPower
  <2> QED
    BY <1>5
<1> HIDE DEF chosen
<1>7. \A i \in 0 .. top : chosen[i] = Value(chosen, i)
  <2> HIDE DEF Value
  <2> QED
    BY <1>6
<1>8. /\ chosen[0] = 1
      /\ \A i \in 1 .. top : chosen[i] = 10 * chosen[i-1]
  BY <1>1, <1>7
<1>9. \A i \in 0 .. top : chosen[i] \in Nat \ {0}
  <2> DEFINE G == {i \in 0 .. top : chosen[i] \in Nat \ {0}}
  <2>1. 0 \in G
    BY <1>1, <1>8
  <2>2. ASSUME NEW i \in 0 .. top - 1, i \in G PROVE i + 1 \in G
    <3>1. i + 1 \in 1 .. top /\ i + 1 \in 0 .. top /\ (i + 1) - 1 = i
      BY <1>1
    <3>2. chosen[i+1] = 10 * chosen[i] /\ chosen[i] \in Nat \ {0}
      BY <1>8, <2>2, <3>1
    <3>3. \A v \in Nat \ {0} : 10 * v \in Nat \ {0}
      OBVIOUS
    <3>4. chosen[i+1] \in Nat \ {0}
      BY <3>2, <3>3
    <3> QED
      BY <3>1, <3>4
  <2> HIDE DEF G
  <2>3. \A i \in 0 .. top : i \in G
    BY <1>1, <2>1, <2>2, UpTo
  <2> QED
    BY <2>3 DEF G
<1> QED
  BY <1>2, <1>8, <1>9 DEF top

\* No two scales of at most MaxScale places lie further apart than the word holds.
LEMMA PowersFit == \A n \in 0 .. MaxScale : Power[n] <= IntMax /\ Power[n] <= WideMax
<1> DEFINE G == {m \in 0 .. MaxScale : Power[MaxScale - m] <= Power[MaxScale]}
<1>1. MaxScale \in Nat /\ IntMax \in Nat /\ WideMax \in Nat
  BY LatticeAssumption
<1>2. 0 \in G
  BY <1>1, PowersOfTen
<1>3. ASSUME NEW m \in 0 .. MaxScale - 1, m \in G PROVE m + 1 \in G
  <2> DEFINE n == MaxScale - m
  <2>1. n \in 1 .. 2 * MaxScale /\ n - 1 \in 0 .. 2 * MaxScale
        /\ MaxScale - (m + 1) = n - 1 /\ MaxScale \in 0 .. 2 * MaxScale /\ m + 1 \in 0 .. MaxScale
    BY <1>1
  <2>2. Power[n] <= Power[MaxScale]
    BY <1>3
  <2> HIDE DEF n
  <2>3. /\ Power[n] = 10 * Power[n-1]
        /\ Power[n-1] \in Nat /\ Power[MaxScale] \in Nat
    BY <2>1, PowersOfTen
  <2>4. Power[n-1] <= Power[MaxScale]
    BY <2>2, <2>3
  <2> QED
    BY <2>1, <2>4
<1>4. \A m \in 0 .. MaxScale : m \in G
  <2> HIDE DEF G
  <2> QED
    BY <1>1, <1>2, <1>3, UpTo
<1> SUFFICES ASSUME NEW n \in 0 .. MaxScale
             PROVE  Power[n] <= IntMax /\ Power[n] <= WideMax
  OBVIOUS
<1>5. MaxScale - n \in 0 .. MaxScale /\ MaxScale - (MaxScale - n) = n
  BY <1>1
<1>6. Power[n] <= Power[MaxScale]
  BY <1>4, <1>5
<1>7. Power[n] \in Nat /\ Power[MaxScale] \in Nat
  BY <1>1, PowersOfTen
<1> QED
  BY <1>1, <1>6, <1>7, WidthAssumption

-------------------------------------------------------------------------------
(* The order of units and a decimal *)

\* How far, and which way, a decimal's scale and a grid's lie apart.
Fine(d, scale) == d.scale > scale
Shift(d, scale) == Power[IF Fine(d, scale) THEN d.scale - scale ELSE scale - d.scale]

Scales == 0 .. 2 * MaxScale

LEMMA ShiftIsPositive ==
  ASSUME NEW d \in Decimal, NEW scale \in Scales
  PROVE  /\ d.mantissa \in Int /\ d.scale \in 0 .. MaxScale
         /\ Shift(d, scale) \in Nat \ {0}
         /\ Fine(d, scale) \/ scale <= MaxScale =>
              Shift(d, scale) <= IntMax /\ Shift(d, scale) <= WideMax
<1>1. d.mantissa \in Int /\ d.scale \in 0 .. MaxScale /\ MaxScale \in Nat
  BY LatticeAssumption DEF Decimal
<1> DEFINE n == IF Fine(d, scale) THEN d.scale - scale ELSE scale - d.scale
<1>2. n \in 0 .. 2 * MaxScale /\ (Fine(d, scale) \/ scale <= MaxScale => n \in 0 .. MaxScale)
  BY <1>1 DEF Fine, Scales
<1>3. Shift(d, scale) = Power[n]
  BY DEF Shift
<1> HIDE DEF n
<1> QED
  BY <1>1, <1>2, <1>3, PowersOfTen, PowersFit

\* At the finer scale, either the units or the mantissa are shifted.
LEMMA Comparison ==
  ASSUME NEW d \in Decimal, NEW scale \in Scales, NEW n \in Int
  PROVE  IF Fine(d, scale)
         THEN /\ AtLeast(n, d, scale) <=> n * Shift(d, scale) >= d.mantissa
              /\ AtMost(n, d, scale) <=> n * Shift(d, scale) <= d.mantissa
         ELSE /\ AtLeast(n, d, scale) <=> n >= d.mantissa * Shift(d, scale)
              /\ AtMost(n, d, scale) <=> n <= d.mantissa * Shift(d, scale)
<1>1. d.mantissa \in Int /\ d.scale \in 0 .. MaxScale /\ scale \in Int /\ MaxScale \in Nat
  BY LatticeAssumption DEF Decimal, Scales
<1>2. Power[0] = 1
  BY PowersOfTen
<1>3. CASE Fine(d, scale)
  <2>1. /\ Finer(n, scale, d.scale) = n * Shift(d, scale)
        /\ Finer(d.mantissa, d.scale, scale) = d.mantissa
    BY <1>1, <1>2, <1>3 DEF Finer, Shift, Fine
  <2> QED
    BY <1>3, <2>1 DEF AtLeast, AtMost
<1>4. CASE ~Fine(d, scale)
  <2>1. Finer(n, scale, d.scale) = n
    BY <1>1, <1>2, <1>4 DEF Finer, Fine
  <2>2. Finer(d.mantissa, d.scale, scale) = d.mantissa * Shift(d, scale)
    <3>1. CASE scale > d.scale
      BY <1>1, <1>4, <3>1 DEF Finer, Shift, Fine
    <3>2. CASE scale = d.scale
      <4>1. scale - d.scale = 0 /\ ~(scale > d.scale)
        BY <1>1, <3>2
      <4> QED
        BY <1>4, <4>1 DEF Finer, Shift
    <3> QED
      BY <1>1, <1>4, <3>1, <3>2 DEF Fine
  <2> QED
    BY <1>4, <2>1, <2>2 DEF AtLeast, AtMost
<1> QED
  BY <1>3, <1>4

LEMMA Products == \A a, b \in Int, c \in Nat \ {0} : a < b => a * c < b * c
OBVIOUS

\* The comparison is a total order along the units.
LEMMA UnitsAreOrdered ==
  ASSUME NEW d \in Decimal, NEW scale \in Scales
  PROVE  /\ \A n \in Int : AtMost(n, d, scale) \/ AtLeast(n, d, scale)
         /\ \A m, n \in Int : m < n /\ AtMost(n, d, scale)
              => AtMost(m, d, scale) /\ ~AtLeast(m, d, scale)
         /\ \A m, n \in Int : m < n /\ AtLeast(m, d, scale)
              => AtLeast(n, d, scale) /\ ~AtMost(n, d, scale)
<1> DEFINE shift == Shift(d, scale)
           at(n) == IF Fine(d, scale) THEN n * shift ELSE n
           here == IF Fine(d, scale) THEN d.mantissa ELSE d.mantissa * shift
<1>1. d.mantissa \in Int /\ shift \in Nat \ {0}
  BY ShiftIsPositive
<1>2. \A n \in Int : /\ AtLeast(n, d, scale) <=> at(n) >= here
                     /\ AtMost(n, d, scale) <=> at(n) <= here
  BY Comparison
<1>3. \A m, n \in Int : m < n => at(m) < at(n)
  <2> HIDE DEF shift
  <2> QED
    BY <1>1, Products
<1>4. here \in Int /\ \A n \in Int : at(n) \in Int
  <2> HIDE DEF shift
  <2> QED
    BY <1>1
<1> HIDE DEF at, here
<1> QED
  BY <1>2, <1>3, <1>4

-------------------------------------------------------------------------------
(* The floor and the ceiling *)

LEMMA FloorBrackets ==
  ASSUME NEW m \in Nat, NEW k \in Nat \ {0}
  PROVE  /\ m \div k \in Nat /\ m % k \in Nat
         /\ (m \div k) * k <= m /\ m < (m \div k + 1) * k
         /\ (m % k) # 0 <=> (m \div k) * k < m
<1>1. /\ m \div k \in Nat /\ (m % k) \in 0 .. k - 1
      /\ m = k * (m \div k) + (m % k)
  BY DivMod
<1> DEFINE q == m \div k
           r == m % k
<1>2. q \in Nat /\ r \in 0 .. k - 1 /\ m = k * q + r
  BY <1>1
<1> HIDE DEF q, r
<1>3. q * k = k * q /\ (q + 1) * k = k * q + k /\ k * q \in Nat
  BY <1>2
<1>4. q * k <= m /\ m < (q + 1) * k /\ (r # 0 <=> q * k < m)
  BY <1>2, <1>3
<1> QED
  BY <1>1, <1>4 DEF q, r

\* split_minor returns the greatest number of units not above the decimal, and
\* says whether anything is left.
LEMMA SplitIsFloor ==
  ASSUME NEW d \in Decimal, NEW scale \in Scales, IsOk(SplitMinor(d, scale))
  PROVE  LET split == SplitMinor(d, scale)
         IN  /\ d.mantissa >= 0
             /\ split.units \in 0 .. WordMax
             /\ AtMost(split.units, d, scale) /\ ~AtMost(split.units + 1, d, scale)
             /\ split.left <=> ~AtLeast(split.units, d, scale)
<1> DEFINE m == d.mantissa
           shift == Shift(d, scale)
           fine == Fine(d, scale)
           floor == IF fine THEN m \div shift ELSE m * shift
           left == fine /\ m % shift # 0
<1>1. m \in Int /\ shift \in Nat \ {0} /\ WordMax \in Nat
  BY ShiftIsPositive, LatticeAssumption
<1>2. SplitMinor(d, scale) =
        IF m < 0 THEN Err("negative")
        ELSE IF shift > IntMax \/ floor > IntMax \/ floor > WordMax THEN Err("out_of_range")
        ELSE [units |-> floor, left |-> left]
  BY DEF SplitMinor, Fine, Shift
<1>3. \A why : ~IsOk(Err(why))
  BY DEF IsOk, Err
<1> HIDE DEF floor, left, shift, m
<1>4. /\ ~(m < 0) /\ ~(floor > WordMax)
      /\ SplitMinor(d, scale) = [units |-> floor, left |-> left]
  BY <1>2, <1>3
<1>5. m \in Nat
  BY <1>1, <1>4
<1>6. CASE fine
  <2>1. /\ m \div shift \in Nat
        /\ (m \div shift) * shift <= m /\ m < (m \div shift + 1) * shift
        /\ (m % shift) # 0 <=> (m \div shift) * shift < m
    BY <1>1, <1>5, FloorBrackets
  <2>2. /\ \A n \in Int : AtLeast(n, d, scale) <=> n * shift >= m
        /\ \A n \in Int : AtMost(n, d, scale) <=> n * shift <= m
    BY <1>6, Comparison DEF m, shift
  <2>3. floor = m \div shift /\ (left <=> (m % shift) # 0)
    BY <1>6 DEF floor, left
  <2> DEFINE q == m \div shift
             low == q * shift
             high == (q + 1) * shift
  <2>4. q \in Nat /\ low \in Int /\ high \in Int
    BY <1>1, <2>1
  <2>5. low <= m /\ m < high /\ ((m % shift) # 0 <=> low < m)
    BY <2>1
  <2>6. /\ AtLeast(q, d, scale) <=> low >= m
        /\ AtMost(q, d, scale) <=> low <= m
        /\ AtMost(q + 1, d, scale) <=> high <= m
    BY <2>2, <2>4
  <2>7. floor = q
    BY <2>3
  <2> HIDE DEF q, low, high
  <2> QED
    BY <1>1, <1>4, <1>5, <2>3, <2>4, <2>5, <2>6, <2>7 DEF m
<1>7. CASE ~fine
  <2>1. floor = m * shift /\ ~left
    BY <1>7 DEF floor, left
  <2>2. floor \in Nat
    BY <1>1, <1>5, <2>1
  <2>3. \A n \in Int : /\ AtLeast(n, d, scale) <=> n >= floor
                       /\ AtMost(n, d, scale) <=> n <= floor
    BY <1>7, <2>1, Comparison DEF m, shift
  <2> QED
    BY <1>1, <1>4, <1>5, <2>1, <2>2, <2>3 DEF m
<1> QED
  BY <1>6, <1>7

\* split_minor fails for a decimal below zero, or for one beyond the word.
LEMMA SplitFails ==
  ASSUME NEW d \in Decimal, NEW scale \in 0 .. MaxScale, ~IsOk(SplitMinor(d, scale))
  PROVE  \/ SplitMinor(d, scale) = Err("negative") /\ d.mantissa < 0
         \/ SplitMinor(d, scale) = Err("out_of_range") /\ AtMost(WordMax + 1, d, scale)
<1> DEFINE m == d.mantissa
           shift == Shift(d, scale)
           fine == Fine(d, scale)
           floor == IF fine THEN m \div shift ELSE m * shift
           left == fine /\ m % shift # 0
<1>1. scale \in Scales /\ scale <= MaxScale
  BY LatticeAssumption DEF Scales
<1>2. m \in Int /\ shift \in Nat \ {0} /\ shift <= IntMax
      /\ WordMax \in Nat /\ IntMax \in Nat
  BY <1>1, ShiftIsPositive, LatticeAssumption
<1>3. SplitMinor(d, scale) =
        IF m < 0 THEN Err("negative")
        ELSE IF shift > IntMax \/ floor > IntMax \/ floor > WordMax THEN Err("out_of_range")
        ELSE [units |-> floor, left |-> left]
  BY DEF SplitMinor, Fine, Shift
<1>4. IsOk([units |-> floor, left |-> left])
  BY DEF IsOk
<1> HIDE DEF floor, left, shift, m
<1>5. CASE m < 0
  BY <1>3, <1>5 DEF m
<1>6. CASE ~(m < 0)
  <2>1. m \in Nat
    BY <1>2, <1>6
  <2>2. /\ floor \in Nat /\ AtMost(floor, d, scale)
    <3>1. CASE fine
      <4>1. floor = m \div shift
        BY <3>1 DEF floor
      <4>2. m \div shift \in Nat /\ (m \div shift) * shift <= m
        BY <1>2, <2>1, FloorBrackets
      <4> QED
        BY <1>1, <3>1, <4>1, <4>2, Comparison DEF m, shift
    <3>2. CASE ~fine
      <4>1. floor = m * shift /\ floor \in Nat
        BY <1>2, <2>1, <3>2 DEF floor
      <4> QED
        BY <1>1, <3>2, <4>1, Comparison DEF m, shift
    <3> QED
      BY <3>1, <3>2
  <2>3. floor > IntMax \/ floor > WordMax
    BY <1>2, <1>3, <1>4, <1>6
  <2>4. WordMax + 1 = floor \/ WordMax + 1 < floor
    BY <1>2, <2>2, <2>3, WidthAssumption
  <2>5. AtMost(WordMax + 1, d, scale)
    BY <1>1, <1>2, <2>2, <2>4, UnitsAreOrdered
  <2>6. SplitMinor(d, scale) = Err("out_of_range")
    BY <1>2, <1>3, <1>6, <2>3
  <2> QED
    BY <2>5, <2>6
<1> QED
  BY <1>5, <1>6

\* ceil_scaled returns the least number of units not below the decimal, or
\* nothing when that number does not fit.
LEMMA ScaledIsCeiling ==
  ASSUME NEW d \in Decimal, NEW scale \in Scales
  PROVE  LET raw == CeilScaled(d, scale)
         IN  IF raw = Null
             THEN d.mantissa <= 0 \/ ~AtLeast(WideMax, d, scale)
             ELSE /\ raw \in Nat
                  /\ AtLeast(raw, d, scale) /\ (raw > 0 => ~AtLeast(raw - 1, d, scale))
<1> DEFINE m == d.mantissa
           shift == Shift(d, scale)
           fine == Fine(d, scale)
           ceiling == IF ~fine THEN m * shift
                      ELSE IF m % shift > 0 THEN m \div shift + 1 ELSE m \div shift
           raw == CeilScaled(d, scale)
<1>1. m \in Int /\ shift \in Nat \ {0} /\ WideMax \in Nat
      /\ (fine => shift <= WideMax)
  BY ShiftIsPositive, LatticeAssumption
<1>2. raw = IF m < 0 \/ shift > WideMax \/ ceiling > WideMax THEN Null ELSE ceiling
  BY DEF CeilScaled, Fine, Shift
<1> HIDE DEF ceiling, shift, m, raw, fine
<1>3. CASE m <= 0 /\ m # 0
  BY <1>1, <1>2, <1>3, NullAssumption DEF m, raw
<1>4. CASE m \in Nat /\ fine
  <2>1. /\ m \div shift \in Nat /\ m % shift \in Nat
        /\ (m \div shift) * shift <= m /\ m < (m \div shift + 1) * shift
        /\ (m % shift) # 0 <=> (m \div shift) * shift < m
    BY <1>1, <1>4, FloorBrackets
  <2>2. \A n \in Int : AtLeast(n, d, scale) <=> n * shift >= m
    BY <1>4, Comparison DEF m, shift, fine
  <2> DEFINE q == m \div shift
             r == m % shift
             low == q * shift
             high == (q + 1) * shift
             before == (q - 1) * shift
  <2>3. /\ q \in Nat /\ r \in Nat /\ low \in Int /\ high \in Int /\ before \in Int
    BY <1>1, <2>1
  <2>4. before < low
    <3> HIDE DEF q
    <3>1. q - 1 \in Int /\ q \in Int /\ q - 1 < q
      BY <2>3
    <3> QED
      BY <3>1, <1>1, Products
  <2>5. low <= m /\ m < high /\ (r # 0 <=> low < m)
    BY <2>1
  <2>6. /\ AtLeast(q, d, scale) <=> low >= m
        /\ AtLeast(q + 1, d, scale) <=> high >= m
        /\ AtLeast(q - 1, d, scale) <=> before >= m
    <3>1. q \in Int /\ q + 1 \in Int /\ q - 1 \in Int
      BY <2>3
    <3> HIDE DEF q
    <3> QED
      BY <2>2, <3>1
  <2>7. ceiling = IF r > 0 THEN q + 1 ELSE q
    BY <1>4 DEF ceiling
  <2>8. WideMax < ceiling => ~AtLeast(WideMax, d, scale)
    <3> SUFFICES ASSUME WideMax < ceiling PROVE ~AtLeast(WideMax, d, scale)
      OBVIOUS
    <3> HIDE DEF q, r, low, high, before
    <3>1. CASE r > 0
      <4>1. WideMax = q \/ WideMax < q
        BY <1>1, <2>3, <2>7, <3>1
      <4>2. ~AtLeast(q, d, scale)
        BY <1>4, <2>3, <2>5, <2>6, <3>1
      <4> QED
        BY <4>1, <4>2, <1>1, <2>3, UnitsAreOrdered
    <3>2. CASE ~(r > 0)
      <4>1. WideMax = q - 1 \/ WideMax < q - 1
        BY <1>1, <2>3, <2>7, <3>2
      <4>2. ~AtLeast(q - 1, d, scale)
        BY <1>4, <2>3, <2>4, <2>5, <2>6, <3>2
      <4>3. q - 1 \in Int /\ WideMax \in Int
        BY <1>1, <2>3
      <4> QED
        BY <4>1, <4>2, <4>3, UnitsAreOrdered
    <3> QED
      BY <3>1, <3>2
  <2>9. /\ ceiling \in Nat /\ AtLeast(ceiling, d, scale)
        /\ ceiling > 0 => ~AtLeast(ceiling - 1, d, scale)
    <3> HIDE DEF q, r, low, high, before
    <3>1. CASE r > 0
      <4>1. ceiling = q + 1 /\ ceiling - 1 = q
        BY <2>3, <2>7, <3>1
      <4> QED
        BY <4>1, <1>4, <2>3, <2>5, <2>6, <3>1
    <3>2. CASE ~(r > 0)
      <4>1. ceiling = q /\ ceiling - 1 = q - 1
        BY <2>7, <3>2
      <4> QED
        BY <4>1, <1>4, <2>3, <2>4, <2>5, <2>6, <3>2
    <3> QED
      BY <3>1, <3>2
  <2> HIDE DEF q, r, low, high, before
  <2> QED
    BY <1>1, <1>2, <1>4, <2>8, <2>9, NullAssumption DEF raw
<1>5. CASE m \in Nat /\ ~fine
  <2>1. ceiling = m * shift /\ ceiling \in Nat
    BY <1>1, <1>5 DEF ceiling
  <2>2. \A n \in Int : AtLeast(n, d, scale) <=> n >= ceiling
    BY <1>5, <2>1, Comparison DEF m, shift, fine
  <2>3. m # 0 => shift <= ceiling
    <3>1. \A a, b \in Nat \ {0} : b <= a * b
      OBVIOUS
    <3> QED
      BY <1>1, <1>5, <2>1, <3>1
  <2>4. raw = Null => m <= 0 \/ ~AtLeast(WideMax, d, scale)
    <3> SUFFICES ASSUME raw = Null, m # 0 PROVE ~AtLeast(WideMax, d, scale)
      BY <1>5
    <3>1. shift > WideMax \/ ceiling > WideMax
      BY <1>2, <1>5, <2>1, NullAssumption
    <3>2. ceiling > WideMax
      BY <1>1, <2>1, <2>3, <3>1
    <3> QED
      BY <1>1, <2>1, <2>2, <3>2
  <2>5. raw # Null => raw = ceiling
    BY <1>2
  <2>6. AtLeast(ceiling, d, scale) /\ (ceiling > 0 => ~AtLeast(ceiling - 1, d, scale))
    BY <2>1, <2>2
  <2> QED
    BY <2>1, <2>4, <2>5, <2>6 DEF raw, m
<1>6. m \in Nat \/ (m <= 0 /\ m # 0)
  BY <1>1
<1> QED
  BY <1>3, <1>4, <1>5, <1>6

-------------------------------------------------------------------------------
(* Conversions *)

LEMMA SpecificationParts ==
  ASSUME NEW s \in Specification
  PROVE  /\ s.price_scale \in 0 .. MaxScale /\ s.price_scale \in Scales
         /\ s.qty_scale \in 0 .. MaxScale /\ s.qty_scale \in Scales
         /\ s.price_scale + s.qty_scale \in Scales
         /\ s.tick_size \in Nat \ {0} /\ s.lot_size \in Nat \ {0}
<1>1. s.price_scale \in 0 .. MaxScale /\ s.qty_scale \in 0 .. MaxScale
      /\ s.tick_size \in Nat \ {0} /\ s.lot_size \in Nat \ {0} /\ MaxScale \in Nat
  BY LatticeAssumption DEF Specification
<1> QED
  BY <1>1 DEF Scales

\* What a conversion answers: the decimal itself, on the grid, or why not.
LEMMA OntoIsExact ==
  ASSUME NEW d \in Decimal, NEW scale \in 0 .. MaxScale, NEW unit \in Nat \ {0}
  PROVE  LET result == Onto(d, scale, unit)
             Fits(n) == Same(n, d, scale)
         IN  IF IsOk(result)
             THEN Fits(result.units) /\ result.units \in 0 .. WordMax /\ result.units % unit = 0
             ELSE \/ result.error = "negative" /\ d.mantissa < 0
                  \/ result.error = "out_of_range" /\ AtMost(WordMax + 1, d, scale)
                  \/ result.error = "too_precise" /\ \A n \in 0 .. WordMax : ~Fits(n)
                  \/ /\ result.error = "off_grid"
                     /\ \E n \in 0 .. WordMax : Fits(n) /\ n % unit # 0
<1> DEFINE split == SplitMinor(d, scale)
           result == Onto(d, scale, unit)
<1>1. scale \in Scales /\ WordMax \in Nat
  BY LatticeAssumption DEF Scales
<1>2. result = IF ~IsOk(split) THEN split
               ELSE IF split.left THEN Err("too_precise")
               ELSE IF split.units % unit = 0 THEN Ok(split.units) ELSE Err("off_grid")
  BY DEF Onto, FromUnits
<1>3. \A why : ~IsOk(Err(why)) /\ Err(why).error = why
  BY DEF IsOk, Err
<1>4. \A n : IsOk(Ok(n)) /\ Ok(n).units = n
  BY DEF IsOk, Ok
<1> HIDE DEF split, result
<1>5. CASE ~IsOk(split)
  BY <1>2, <1>3, <1>5, SplitFails DEF split, result
<1>6. CASE IsOk(split)
  <2>1. /\ split.units \in 0 .. WordMax
        /\ AtMost(split.units, d, scale) /\ ~AtMost(split.units + 1, d, scale)
        /\ split.left <=> ~AtLeast(split.units, d, scale)
    BY <1>1, <1>6, SplitIsFloor DEF split
  <2>2. CASE split.left
    <3>1. \A n \in 0 .. WordMax : ~Same(n, d, scale)
      <4> SUFFICES ASSUME NEW n \in 0 .. WordMax, AtLeast(n, d, scale), AtMost(n, d, scale)
                   PROVE  FALSE
        BY DEF Same
      <4> DEFINE u == split.units
                 v == u + 1
      <4>1. /\ n \in Int /\ u \in Int /\ v \in Int
            /\ AtMost(u, d, scale) /\ ~AtMost(v, d, scale) /\ ~AtLeast(u, d, scale)
        BY <1>1, <2>1, <2>2
      <4>2. n < u \/ n = u \/ n = v \/ v < n
        BY <4>1
      <4> HIDE DEF u, v
      <4>3. ~(n < u)
        BY <4>1, <1>1, UnitsAreOrdered
      <4>4. ~(v < n)
        BY <4>1, <1>1, UnitsAreOrdered
      <4> QED
        BY <4>1, <4>2, <4>3, <4>4
    <3>2. result = Err("too_precise")
      BY <1>2, <1>6, <2>2
    <3> QED
      BY <3>1, <3>2, <1>3 DEF result
  <2>3. CASE ~split.left
    <3>1. Same(split.units, d, scale)
      BY <2>1, <2>3 DEF Same
    <3>2. CASE split.units % unit = 0
      BY <3>1, <3>2, <1>2, <1>4, <1>6, <2>1, <2>3 DEF result
    <3>3. CASE split.units % unit # 0
      BY <3>1, <3>3, <1>2, <1>3, <1>6, <2>1, <2>3 DEF result
    <3> QED
      BY <3>2, <3>3
  <2> QED
    BY <2>2, <2>3
<1> QED
  BY <1>5, <1>6

\* What is on the grid goes to a decimal of its scale and back to itself.
LEMMA OntoReturns ==
  ASSUME NEW scale \in 0 .. MaxScale, NEW unit \in Nat \ {0},
         NEW n \in 0 .. WordMax, n % unit = 0
  PROVE  Onto([mantissa |-> n, scale |-> scale], scale, unit) = Ok(n)
<1> DEFINE d == [mantissa |-> n, scale |-> scale]
           split == SplitMinor(d, scale)
<1>1. MaxScale \in Nat /\ WordMax \in Nat /\ IntMax \in Nat
  BY LatticeAssumption
<1>2. /\ d.mantissa = n /\ d.scale = scale /\ ~(d.scale > scale) /\ scale - d.scale = 0
  BY <1>1
<1>3. Power[0] = 1 /\ 1 <= IntMax
  BY <1>1, PowersOfTen, PowersFit
<1>4. split = [units |-> n, left |-> FALSE]
  <2>1. ~(n < 0) /\ n * 1 = n /\ ~(1 > IntMax) /\ ~(n > IntMax) /\ ~(n > WordMax)
    BY <1>1, <1>3, WidthAssumption
  <2> HIDE DEF d
  <2> QED
    BY <1>2, <1>3, <2>1 DEF SplitMinor
<1>5. IsOk(split) /\ split.units = n /\ ~split.left
  BY <1>4 DEF IsOk
<1> HIDE DEF split
<1>6. Onto(d, scale, unit) = Ok(n)
  <2> HIDE DEF d
  <2>1. SplitMinor(d, scale) = split
    BY DEF split
  <2> QED
    BY <1>5, <2>1 DEF Onto, FromUnits
<1> QED
  BY <1>6

-------------------------------------------------------------------------------
(* Multiples *)

LEMMA MultipleOfUnit ==
  ASSUME NEW unit \in Nat \ {0}, NEW k \in Nat
  PROVE  k * unit \in Nat /\ (k * unit) % unit = 0 /\ (k * unit) \div unit = k
<1> DEFINE n == k * unit
           q == n \div unit
           r == n % unit
<1>1. n \in Nat
  OBVIOUS
<1>2. q \in Nat /\ r \in 0 .. unit - 1 /\ n = unit * q + r
  BY <1>1, DivMod
<1>3. n = unit * k
  OBVIOUS
<1> HIDE DEF n, q, r
<1>4. q = k
  <2>1. \A a, b \in Nat : a < b => unit * a + unit <= unit * b
    OBVIOUS
  <2>2. ~(q < k)
    <3> SUFFICES ASSUME q < k PROVE FALSE
      OBVIOUS
    <3> DEFINE x == unit * q
               y == unit * k
    <3>1. x + unit <= y /\ n = x + r /\ n = y /\ x \in Int /\ y \in Int
      BY <2>1, <1>2, <1>3
    <3> HIDE DEF x, y
    <3> QED
      BY <3>1, <1>2
  <2>3. ~(k < q)
    <3> SUFFICES ASSUME k < q PROVE FALSE
      OBVIOUS
    <3> DEFINE x == unit * q
               y == unit * k
    <3>1. y + unit <= x /\ n = x + r /\ n = y /\ x \in Int /\ y \in Int
      BY <2>1, <1>2, <1>3
    <3> HIDE DEF x, y
    <3> QED
      BY <3>1, <1>2
  <2> QED
    BY <1>2, <2>2, <2>3
<1>5. r = 0
  <2> DEFINE x == unit * k
  <2>1. n = x + r /\ n = x /\ x \in Int
    BY <1>2, <1>3, <1>4
  <2> HIDE DEF x
  <2> QED
    BY <1>2, <2>1
<1> QED
  BY <1>1, <1>4, <1>5 DEF n, q, r

\* A tick holds from its multiple at or below a number to the next one.
LEMMA TickBelow ==
  ASSUME NEW u \in Nat, NEW tick \in Nat \ {0}
  PROVE  LET low == (u \div tick) * tick
             high == (u \div tick + 1) * tick
         IN  /\ low \in Nat /\ low % tick = 0 /\ low <= u /\ (low = u <=> u % tick = 0)
             /\ high \in Nat /\ high % tick = 0 /\ u < high /\ high = low + tick
<1>1. /\ u \div tick \in Nat /\ u % tick \in Nat
      /\ (u \div tick) * tick <= u /\ u < (u \div tick + 1) * tick
      /\ (u % tick) # 0 <=> (u \div tick) * tick < u
  BY FloorBrackets
<1> DEFINE q == u \div tick
           low == q * tick
           high == (q + 1) * tick
<1>2. q \in Nat /\ q + 1 \in Nat
  BY <1>1
<1>3. low \in Nat /\ low % tick = 0 /\ high \in Nat /\ high % tick = 0
  <2> HIDE DEF q
  <2> QED
    BY <1>2, MultipleOfUnit
<1>4. high = low + tick
  <2> HIDE DEF q
  <2> QED
    BY <1>2
<1>5. low <= u /\ u < high /\ ((u % tick) # 0 <=> low < u)
  BY <1>1
<1>6. low = u <=> u % tick = 0
  <2> HIDE DEF low, high, q
  <2> QED
    BY <1>3, <1>5
<1> HIDE DEF low, high, q
<1> QED
  BY <1>3, <1>4, <1>5, <1>6 DEF low, high, q

\* Rounding goes to the nearest tick on the named side, and nowhere from a tick.
LEMMA RoundsToTick ==
  ASSUME NEW s \in Specification, NEW d \in Decimal, NEW rounding \in Roundings,
         IsOk(RoundPrice(s, d, rounding))
  PROVE  LET n == RoundPrice(s, d, rounding).units
             scale == s.price_scale
         IN  /\ n \in 0 .. WordMax /\ n % s.tick_size = 0
             /\ rounding \in {"down", "passive_bid"} =>
                  AtMost(n, d, scale) /\ ~AtMost(n + s.tick_size, d, scale)
             /\ rounding \in {"up", "passive_ask"} =>
                  AtLeast(n, d, scale) /\ ~AtLeast(n - s.tick_size, d, scale)
<1> DEFINE scale == s.price_scale
           tick == s.tick_size
           split == SplitMinor(d, scale)
           u == split.units
           low == (u \div tick) * tick
           high == (u \div tick + 1) * tick
           exact == u % tick = 0 /\ ~split.left
           rounded == IF rounding \in {"up", "passive_ask"} /\ ~exact THEN high ELSE low
           result == RoundPrice(s, d, rounding)
<1>1. scale \in Scales /\ tick \in Nat \ {0} /\ WordMax \in Nat
  BY SpecificationParts, LatticeAssumption
<1>2. result = IF ~IsOk(split) THEN split
               ELSE IF rounded > WordMax THEN Err("out_of_range") ELSE Ok(rounded)
  BY DEF RoundPrice
<1>3. \A why : ~IsOk(Err(why))
  BY DEF IsOk, Err
<1>4. \A n : IsOk(Ok(n)) /\ Ok(n).units = n
  BY DEF IsOk, Ok
<1> HIDE DEF scale, tick, split, u, low, high, rounded, result
<1>5. IsOk(split) /\ ~(rounded > WordMax) /\ result.units = rounded
  BY <1>2, <1>3, <1>4 DEF result
<1>6. /\ u \in 0 .. WordMax
      /\ AtMost(u, d, scale) /\ ~AtMost(u + 1, d, scale)
      /\ split.left <=> ~AtLeast(u, d, scale)
  BY <1>1, <1>5, SplitIsFloor DEF split, u
<1>7. /\ low \in Nat /\ low % tick = 0 /\ low <= u /\ (low = u <=> u % tick = 0)
      /\ high \in Nat /\ high % tick = 0 /\ u < high /\ high = low + tick
  BY <1>1, <1>6, TickBelow DEF low, high
<1>8. rounded \in 0 .. WordMax /\ rounded % tick = 0
  BY <1>1, <1>5, <1>7 DEF rounded
<1>9. AtMost(low, d, scale) /\ ~AtMost(high, d, scale) /\ AtLeast(high, d, scale)
  <2>1. low = u \/ low < u
    BY <1>6, <1>7
  <2>2. high = u + 1 \/ u + 1 < high
    BY <1>6, <1>7
  <2>3. low \in Int /\ high \in Int /\ u \in Int /\ u + 1 \in Int
    BY <1>6, <1>7
  <2>4. AtMost(low, d, scale)
    BY <1>1, <1>6, <2>1, <2>3, UnitsAreOrdered
  <2>5. ~AtMost(high, d, scale)
    BY <1>1, <1>6, <2>2, <2>3, UnitsAreOrdered
  <2>6. AtLeast(high, d, scale)
    BY <1>1, <2>3, <2>5, UnitsAreOrdered
  <2> QED
    BY <2>4, <2>5, <2>6
<1>10. CASE rounding \in {"down", "passive_bid"}
  <2>1. rounded = low /\ low + tick = high
    BY <1>7, <1>10 DEF rounded
  <2> QED
    BY <1>5, <1>8, <1>9, <1>10, <2>1 DEF result, scale, tick
<1>11. CASE rounding \in {"up", "passive_ask"}
  <2>1. CASE exact
    <3>1. rounded = low /\ low = u /\ AtLeast(u, d, scale)
      BY <1>6, <1>7, <2>1 DEF rounded
    <3>2. u - tick \in Int /\ u \in Int /\ u - tick < u
      BY <1>1, <1>6
    <3>3. ~AtLeast(u - tick, d, scale)
      BY <1>1, <1>6, <3>2, UnitsAreOrdered
    <3> QED
      BY <1>5, <1>8, <1>11, <3>1, <3>3 DEF result, scale, tick
  <2>2. CASE ~exact
    <3>1. rounded = high /\ high - tick = low
      BY <1>1, <1>7, <1>11, <2>2 DEF rounded
    <3>2. ~AtLeast(low, d, scale)
      <4>1. CASE low = u
        BY <1>6, <1>7, <2>2, <4>1
      <4>2. CASE low < u
        <5>1. low \in Int /\ u \in Int
          BY <1>6, <1>7
        <5> QED
          BY <1>1, <1>6, <4>2, <5>1, UnitsAreOrdered
      <4> QED
        BY <1>6, <1>7, <4>1, <4>2
    <3> QED
      BY <1>5, <1>8, <1>9, <1>11, <3>1, <3>2 DEF result, scale, tick
  <2> QED
    BY <2>1, <2>2
<1> QED
  BY <1>10, <1>11 DEF Roundings

-------------------------------------------------------------------------------
(* Specifications and callers *)

\* Bounds are on the grid and in order.
Consistent(s) ==
  /\ s.tick_size > 0 /\ s.lot_size > 0
  /\ s.min_price % s.tick_size = 0 /\ s.min_qty % s.lot_size = 0
  /\ s.max_price # Null => s.max_price % s.tick_size = 0 /\ s.min_price <= s.max_price
  /\ s.max_qty # Null => s.max_qty % s.lot_size = 0 /\ s.min_qty <= s.max_qty

\* The types of the state, and what the builders keep of every specification;
\* what is held was made by some instrument, and what is admitted was admitted
\* by one.
LatticeInv ==
  /\ spec \in [Instruments -> Specification \union {Null}]
  /\ prices \in SUBSET Nat /\ qtys \in SUBSET Nat
  /\ admitted \in SUBSET [instrument : Instruments, price : Nat, qty : Nat]
  /\ \A i \in Instruments : spec[i] # Null => Consistent(spec[i])
  /\ prices \union qtys # {} => \E i \in Instruments : spec[i] # Null
  /\ \A order \in admitted : spec[order.instrument] # Null

\* What the three builders that follow `new' leave of a specification.
Built(i) ==
  /\ spec[i] # Null /\ spec' = [spec EXCEPT ![i] = spec'[i]]
  /\ spec'[i] \in Specification /\ Consistent(spec'[i])
  /\ spec'[i].tick_size = spec[i].tick_size /\ spec'[i].lot_size = spec[i].lot_size
  /\ UNCHANGED <<prices, qtys, admitted>>

LEMMA BuildersBuild ==
  ASSUME LatticeInv, NEW i \in Instruments,
         \/ \E min \in prices, max \in prices \union {Null} : WithPriceRange(i, min, max)
         \/ \E min \in qtys, max \in qtys \union {Null} : WithQtyRange(i, min, max)
         \/ \E d \in Inputs : WithMinNotional(i, d)
  PROVE  Built(i)
<1>1. /\ spec \in [Instruments -> Specification \union {Null}]
      /\ prices \in SUBSET Nat /\ qtys \in SUBSET Nat
  BY DEF LatticeInv
<1>2. ASSUME spec[i] # Null
      PROVE  spec[i] \in Specification /\ Consistent(spec[i])
  BY <1>1, <1>2 DEF LatticeInv
<1>3. ASSUME NEW min \in prices, NEW max \in prices \union {Null}, WithPriceRange(i, min, max)
      PROVE  Built(i)
  <2> DEFINE s == spec[i]
             new == [s EXCEPT !.min_price = min, !.max_price = max]
  <2>1. s # Null /\ s \in Specification /\ Consistent(s)
    BY <1>2, <1>3 DEF WithPriceRange
  <2>2. min \in Nat /\ max \in Nat \union {Null}
    BY <1>1, <1>3
  <2>3. /\ min % s.tick_size = 0
        /\ max # Null => max % s.tick_size = 0 /\ min <= max
    BY <1>3 DEF WithPriceRange, ValidRange
  <2>4. /\ spec' = [spec EXCEPT ![i] = new]
        /\ UNCHANGED <<prices, qtys, admitted>>
    BY <1>3 DEF WithPriceRange
  <2>5. /\ new \in Specification
        /\ new.min_price = min /\ new.max_price = max
        /\ new.min_qty = s.min_qty /\ new.max_qty = s.max_qty
        /\ new.tick_size = s.tick_size /\ new.lot_size = s.lot_size
    BY <2>1, <2>2 DEF Specification
  <2> HIDE DEF s, new
  <2>6. Consistent(new)
    BY <2>1, <2>3, <2>5 DEF Consistent
  <2>7. spec'[i] = new
    BY <1>1, <2>4
  <2> QED
    BY <2>1, <2>4, <2>5, <2>6, <2>7 DEF Built, s
<1>4. ASSUME NEW min \in qtys, NEW max \in qtys \union {Null}, WithQtyRange(i, min, max)
      PROVE  Built(i)
  <2> DEFINE s == spec[i]
             new == [s EXCEPT !.min_qty = min, !.max_qty = max]
  <2>1. s # Null /\ s \in Specification /\ Consistent(s)
    BY <1>2, <1>4 DEF WithQtyRange
  <2>2. min \in Nat /\ max \in Nat \union {Null}
    BY <1>1, <1>4
  <2>3. /\ min % s.lot_size = 0
        /\ max # Null => max % s.lot_size = 0 /\ min <= max
    BY <1>4 DEF WithQtyRange, ValidRange
  <2>4. /\ spec' = [spec EXCEPT ![i] = new]
        /\ UNCHANGED <<prices, qtys, admitted>>
    BY <1>4 DEF WithQtyRange
  <2>5. /\ new \in Specification
        /\ new.min_qty = min /\ new.max_qty = max
        /\ new.min_price = s.min_price /\ new.max_price = s.max_price
        /\ new.tick_size = s.tick_size /\ new.lot_size = s.lot_size
    BY <2>1, <2>2 DEF Specification
  <2> HIDE DEF s, new
  <2>6. Consistent(new)
    BY <2>1, <2>3, <2>5 DEF Consistent
  <2>7. spec'[i] = new
    BY <1>1, <2>4
  <2> QED
    BY <2>1, <2>4, <2>5, <2>6, <2>7 DEF Built, s
<1>5. ASSUME NEW d \in Inputs, WithMinNotional(i, d)
      PROVE  Built(i)
  <2> DEFINE s == spec[i]
             raw == CeilScaled(d, s.price_scale + s.qty_scale)
             new == [s EXCEPT !.min_notional = raw]
  <2>1. s # Null /\ s \in Specification /\ Consistent(s)
    BY <1>2, <1>5 DEF WithMinNotional
  <2>2. raw # Null /\ spec' = [spec EXCEPT ![i] = new] /\ UNCHANGED <<prices, qtys, admitted>>
    BY <1>5 DEF WithMinNotional
  <2>3. d \in Decimal
    BY LatticeAssumption
  <2> HIDE DEF s, raw
  <2>4. s.price_scale + s.qty_scale \in Scales
    BY <2>1, SpecificationParts
  <2>5. raw \in Nat
    BY <2>2, <2>3, <2>4, ScaledIsCeiling DEF raw
  <2>6. /\ new \in Specification
        /\ new.min_price = s.min_price /\ new.max_price = s.max_price
        /\ new.min_qty = s.min_qty /\ new.max_qty = s.max_qty
        /\ new.tick_size = s.tick_size /\ new.lot_size = s.lot_size
    BY <2>1, <2>5 DEF Specification
  <2> HIDE DEF new
  <2>7. Consistent(new)
    BY <2>1, <2>6 DEF Consistent
  <2>8. spec'[i] = new
    BY <1>1, <2>2
  <2> QED
    BY <2>1, <2>2, <2>6, <2>7, <2>8 DEF Built, s
<1> QED
  BY <1>3, <1>4, <1>5

\* The calls, by what they change: `new' builds where nothing was, the other
\* builders keep the grid, a conversion adds to what callers hold, and the gate
\* admits from it.
NewStep(i) ==
  /\ spec[i] = Null /\ spec' = [spec EXCEPT ![i] = spec'[i]]
  /\ spec'[i] \in Specification /\ Consistent(spec'[i])
  /\ \E g \in Grids : /\ ValidGrid(g)
                      /\ spec'[i].tick_size = g.tick_size /\ spec'[i].lot_size = g.lot_size
  /\ UNCHANGED <<prices, qtys, admitted>>

HoldStep(i) ==
  /\ spec[i] # Null
  /\ \/ /\ qtys' = qtys
        /\ \E n \in Nat : prices' = prices \union {n} /\ n % spec[i].tick_size = 0
     \/ /\ prices' = prices
        /\ \E n \in Nat : qtys' = qtys \union {n} /\ n % spec[i].lot_size = 0
  /\ UNCHANGED <<spec, admitted>>

AdmitStep(i) ==
  /\ spec[i] # Null
  /\ \E price \in prices, qty \in qtys :
       admitted' = {[instrument |-> i, price |-> price, qty |-> qty]}
  /\ UNCHANGED <<spec, prices, qtys>>

LEMMA CallKinds ==
  ASSUME LatticeInv, [Next]_vars
  PROVE  \/ UNCHANGED vars
         \/ \E i \in Instruments : NewStep(i) \/ Built(i) \/ HoldStep(i) \/ AdmitStep(i)
<1>1. /\ spec \in [Instruments -> Specification \union {Null}]
      /\ \A i \in Instruments : spec[i] # Null => spec[i] \in Specification
  BY DEF LatticeInv
<1>2. ASSUME NEW i \in Instruments, NEW g \in Grids, New(i, g)
      PROVE  NewStep(i)
  <2> DEFINE new == [price_scale |-> g.price_scale, qty_scale |-> g.qty_scale,
                     tick_size |-> g.tick_size, lot_size |-> g.lot_size,
                     min_price |-> g.tick_size, max_price |-> Null,
                     min_qty |-> g.lot_size, max_qty |-> Null, min_notional |-> Null]
  <2>1. g \in Grid /\ ValidGrid(g) /\ MaxScale \in Nat
    BY <1>2, LatticeAssumption DEF New
  <2>2. /\ g.price_scale \in 0 .. MaxScale /\ g.qty_scale \in 0 .. MaxScale
        /\ g.tick_size \in Nat \ {0} /\ g.lot_size \in Nat \ {0}
    BY <2>1 DEF Grid, ValidGrid
  <2>3. new \in Specification
    BY <2>2 DEF Specification
  <2>4. Consistent(new)
    <3>1. \A n \in Nat \ {0} : n % n = 0
      <4> SUFFICES ASSUME NEW n \in Nat \ {0} PROVE n % n = 0
        OBVIOUS
      <4>1. (1 * n) % n = 0 /\ 1 * n = n
        BY MultipleOfUnit
      <4> QED
        BY <4>1
    <3> QED
      BY <2>2, <3>1 DEF Consistent
  <2>5. /\ spec[i] = Null /\ spec' = [spec EXCEPT ![i] = new]
        /\ UNCHANGED <<prices, qtys, admitted>>
    BY <1>2 DEF New
  <2>6. new.tick_size = g.tick_size /\ new.lot_size = g.lot_size
    OBVIOUS
  <2> HIDE DEF new
  <2>7. spec'[i] = new
    BY <1>1, <2>5
  <2> QED
    BY <2>1, <2>3, <2>4, <2>5, <2>6, <2>7 DEF NewStep
<1>3. ASSUME NEW i \in Instruments, NEW d \in Inputs, MakePrice(i, d)
      PROVE  HoldStep(i)
  <2> DEFINE s == spec[i]
  <2>1. s # Null /\ s \in Specification /\ d \in Decimal
    BY <1>1, <1>3, LatticeAssumption DEF MakePrice
  <2>2. s.price_scale \in 0 .. MaxScale /\ s.tick_size \in Nat \ {0} /\ WordMax \in Nat
    <3> HIDE DEF s
    <3> QED
      BY <2>1, SpecificationParts, LatticeAssumption
  <2>3. ASSUME IsOk(Price(s, d))
        PROVE  Price(s, d).units \in Nat /\ Price(s, d).units % s.tick_size = 0
    BY <2>1, <2>2, <2>3, OntoIsExact DEF Price
  <2>4. ASSUME NEW rounding \in Roundings, IsOk(RoundPrice(s, d, rounding))
        PROVE  /\ RoundPrice(s, d, rounding).units \in Nat
               /\ RoundPrice(s, d, rounding).units % s.tick_size = 0
    BY <2>1, <2>2, <2>4, RoundsToTick
  <2>5. \E n \in Nat : prices' = prices \union {n} /\ n % s.tick_size = 0
    BY <1>3, <2>3, <2>4 DEF MakePrice, HoldPrice
  <2>6. UNCHANGED <<spec, qtys, admitted>>
    BY <1>3 DEF MakePrice, HoldPrice
  <2> QED
    BY <2>1, <2>5, <2>6 DEF HoldStep
<1>4. ASSUME NEW i \in Instruments, NEW d \in Inputs, MakeQty(i, d)
      PROVE  HoldStep(i)
  <2> DEFINE s == spec[i]
  <2>1. s # Null /\ s \in Specification /\ d \in Decimal
    BY <1>1, <1>4, LatticeAssumption DEF MakeQty
  <2>2. s.qty_scale \in 0 .. MaxScale /\ s.lot_size \in Nat \ {0} /\ WordMax \in Nat
    <3> HIDE DEF s
    <3> QED
      BY <2>1, SpecificationParts, LatticeAssumption
  <2>3. IsOk(Qty(s, d))
    BY <1>4 DEF MakeQty
  <2>4. Qty(s, d).units \in Nat /\ Qty(s, d).units % s.lot_size = 0
    BY <2>1, <2>2, <2>3, OntoIsExact DEF Qty
  <2>5. qtys' = qtys \union {Qty(s, d).units} /\ UNCHANGED <<spec, prices, admitted>>
    BY <1>4 DEF MakeQty
  <2> QED
    BY <2>1, <2>4, <2>5 DEF HoldStep
<1>5. ASSUME NEW i \in Instruments, NEW price \in prices, NEW qty \in qtys, Admit(i, price, qty)
      PROVE  AdmitStep(i)
  BY <1>5 DEF Admit, AdmitStep
<1>6. CASE AwaitCaller \/ UNCHANGED vars
  BY <1>6 DEF AwaitCaller
<1> QED
  BY <1>2, <1>3, <1>4, <1>5, <1>6, BuildersBuild DEF Next

\* Every call keeps the invariant.
LEMMA CallsKeepLattice == LatticeInv /\ [Next]_vars => LatticeInv'
<1> SUFFICES ASSUME LatticeInv, [Next]_vars
             PROVE  LatticeInv'
  OBVIOUS
<1> USE DEF LatticeInv
<1>1. CASE UNCHANGED vars
  BY <1>1 DEF vars, Consistent
<1>2. ASSUME NEW i \in Instruments, NewStep(i) \/ Built(i)
      PROVE  LatticeInv'
  <2>1. /\ spec' = [spec EXCEPT ![i] = spec'[i]]
        /\ spec'[i] \in Specification /\ Consistent(spec'[i])
        /\ UNCHANGED <<prices, qtys, admitted>>
    BY <1>2 DEF NewStep, Built
  <2>2. \A j \in Instruments : j # i => spec'[j] = spec[j]
    BY <2>1
  <2>3. spec'[i] # Null
    BY <2>1, NullAssumption
  <2>4. \A j \in Instruments : spec'[j] # Null => Consistent(spec'[j])
    BY <2>1, <2>2
  <2>5. \A order \in admitted' : spec'[order.instrument] # Null
    BY <2>1, <2>2, <2>3
  <2>6. spec' \in [Instruments -> Specification \union {Null}]
    BY <2>1
  <2> QED
    BY <2>1, <2>3, <2>4, <2>5, <2>6 DEF Consistent
<1>3. ASSUME NEW i \in Instruments, HoldStep(i) \/ AdmitStep(i)
      PROVE  LatticeInv'
  <2>1. spec' = spec /\ spec[i] # Null
    BY <1>3 DEF HoldStep, AdmitStep
  <2>2. prices' \in SUBSET Nat /\ qtys' \in SUBSET Nat
    BY <1>3 DEF HoldStep, AdmitStep
  <2>3. /\ admitted' \in SUBSET [instrument : Instruments, price : Nat, qty : Nat]
        /\ \A order \in admitted' : spec[order.instrument] # Null
    <3>1. CASE HoldStep(i)
      BY <3>1 DEF HoldStep
    <3>2. CASE AdmitStep(i)
      <4>1. PICK price \in prices, qty \in qtys :
              admitted' = {[instrument |-> i, price |-> price, qty |-> qty]}
        BY <3>2 DEF AdmitStep
      <4>2. price \in Nat /\ qty \in Nat
        OBVIOUS
      <4> QED
        BY <4>1, <4>2, <2>1
    <3> QED
      BY <1>3, <3>1, <3>2
  <2>4. \A j \in Instruments : spec'[j] # Null => Consistent(spec'[j])
    BY <2>1
  <2> QED
    BY <2>1, <2>2, <2>3, <2>4 DEF Consistent
<1> QED
  BY <1>1, <1>2, <1>3, CallKinds

\* The types of the instruments' state hold, and every specification keeps its
\* bounds on its grid and in order, in any order of builder calls.
THEOREM LatticeIsKept == Spec => []LatticeInv
<1>1. Init => LatticeInv
  BY DEF Init, LatticeInv
<1>2. LatticeInv /\ [Next]_vars => LatticeInv'
  BY CallsKeepLattice
<1> QED
  BY <1>1, <1>2, PTL DEF Spec

LEMMA SpecsAreSpecifications == LatticeInv => \A s \in Specs : s \in Specification /\ Consistent(s)
BY DEF LatticeInv, Specs

\* Every specification is one its grid allows, whichever builder calls made it
\* and in whatever order (instrument.rs: new, with_price_range, with_qty_range).
THEOREM SpecificationsAreConsistent == Spec => []SpecsAreConsistent
<1>1. LatticeInv => SpecsAreConsistent
  BY SpecsAreSpecifications DEF SpecsAreConsistent, Consistent
<1> QED
  BY <1>1, LatticeIsKept, PTL

\* A decimal becomes exactly itself or is refused for the right reason: below
\* zero, beyond the word, finer than the minor unit, off the tick
\* (instrument.rs:693-698).
THEOREM ConversionsAreExact == Spec => []ConversionIsExact
<1>1. ASSUME NEW s \in Specification, NEW d \in Decimal
      PROVE  LET result == Price(s, d)
                 Fits(n) == Same(n, d, s.price_scale)
             IN  IF IsOk(result)
                 THEN Fits(result.units) /\ result.units % s.tick_size = 0 /\ result.units <= WordMax
                 ELSE CASE result.error = "negative" -> d.mantissa < 0
                        [] result.error = "out_of_range" ->
                             ~AtLeast(WordMax + 1, d, s.price_scale) \/ Fits(WordMax + 1)
                        [] result.error = "too_precise" -> \A n \in 0 .. WordMax : ~Fits(n)
                        [] result.error = "off_grid" ->
                             \E n \in 0 .. WordMax : Fits(n) /\ n % s.tick_size # 0
  <2> DEFINE result == Price(s, d)
             scale == s.price_scale
             unit == s.tick_size
  <2>1. scale \in 0 .. MaxScale /\ unit \in Nat \ {0} /\ WordMax \in Nat
    BY SpecificationParts, LatticeAssumption
  <2>2. result = Onto(d, scale, unit)
    BY DEF Price
  <2> HIDE DEF result, scale, unit
  <2>3. IF IsOk(result)
        THEN Same(result.units, d, scale) /\ result.units \in 0 .. WordMax /\ result.units % unit = 0
        ELSE \/ result.error = "negative" /\ d.mantissa < 0
             \/ result.error = "out_of_range" /\ AtMost(WordMax + 1, d, scale)
             \/ result.error = "too_precise" /\ \A n \in 0 .. WordMax : ~Same(n, d, scale)
             \/ /\ result.error = "off_grid"
                /\ \E n \in 0 .. WordMax : Same(n, d, scale) /\ n % unit # 0
    BY <2>1, <2>2, OntoIsExact
  <2>4. CASE IsOk(result)
    BY <2>1, <2>3, <2>4 DEF result, scale, unit
  <2>5. CASE ~IsOk(result)
    BY <2>3, <2>5 DEF result, scale, unit, Same
  <2> QED
    BY <2>4, <2>5
<1>2. LatticeInv => ConversionIsExact
  <2> SUFFICES ASSUME LatticeInv, NEW s \in Specs, NEW d \in Decimals
               PROVE  s \in Specification /\ d \in Decimal
    BY <1>1 DEF ConversionIsExact
  <2> QED
    BY SpecsAreSpecifications, LatticeAssumption
<1> QED
  BY <1>2, LatticeIsKept, PTL

\* What came off the lattice goes back to the same place (instrument.rs:35-39),
\* and distances are whole ticks.
THEOREM RoundTripsReturn == Spec => []RoundTrip
<1>1. ASSUME NEW s \in Specification, NEW k \in Nat, k * s.tick_size <= WordMax
      PROVE  /\ Price(s, ToDecimal(s, k * s.tick_size)) = Ok(k * s.tick_size)
             /\ TicksBetween(s, k * s.tick_size, s.tick_size) * s.tick_size
                  = Distance(k * s.tick_size, s.tick_size)
  <2> DEFINE unit == s.tick_size
             n == k * unit
             scale == s.price_scale
  <2>1. scale \in 0 .. MaxScale /\ unit \in Nat \ {0} /\ WordMax \in Nat
    BY SpecificationParts, LatticeAssumption
  <2>2. n \in 0 .. WordMax /\ n % unit = 0
    <3> HIDE DEF unit
    <3>1. n \in Nat /\ n % unit = 0
      BY <2>1, MultipleOfUnit
    <3>2. n <= WordMax
      BY <1>1 DEF unit
    <3> QED
      BY <2>1, <3>1, <3>2
  <2>3. Price(s, ToDecimal(s, n)) = Ok(n)
    <3> HIDE DEF n, unit, scale
    <3>1. Onto([mantissa |-> n, scale |-> scale], scale, unit) = Ok(n)
      BY <2>1, <2>2, OntoReturns
    <3> QED
      BY <3>1 DEF Price, ToDecimal, unit, scale
  <2>4. PICK j \in Nat : Distance(n, unit) = j * unit
    <3> HIDE DEF unit
    <3>1. CASE k = 0
      <4>1. n = 0 /\ 0 < unit /\ unit - 0 = 1 * unit
        BY <2>1, <3>1
      <4> HIDE DEF n
      <4>2. Distance(n, unit) = 1 * unit
        BY <4>1 DEF Distance
      <4> QED
        BY <4>2
    <3>2. CASE k # 0
      <4>1. k - 1 \in Nat
        BY <3>2
      <4>2. n = (k - 1) * unit + unit /\ (k - 1) * unit \in Nat
        BY <2>1, <4>1
      <4> DEFINE below == (k - 1) * unit
      <4> HIDE DEF n
      <4>3. Distance(n, unit) = below
        <5>1. n = below + unit /\ below \in Nat
          BY <4>2
        <5> HIDE DEF below
        <5> QED
          BY <2>1, <5>1 DEF Distance
      <4> QED
        BY <4>1, <4>3
    <3> QED
      BY <3>1, <3>2
  <2>5. TicksBetween(s, n, unit) * unit = Distance(n, unit)
    <3> HIDE DEF n
    <3>1. TicksBetween(s, n, unit) = Distance(n, unit) \div unit
      BY DEF TicksBetween
    <3> HIDE DEF unit
    <3>2. (j * unit) \div unit = j
      BY <2>1, MultipleOfUnit
    <3> QED
      BY <2>4, <3>1, <3>2
  <2> QED
    BY <2>3, <2>5
<1>2. ASSUME NEW s \in Specification, NEW k \in Nat, k * s.lot_size <= WordMax
      PROVE  Qty(s, QtyToDecimal(s, k * s.lot_size)) = Ok(k * s.lot_size)
  <2> DEFINE unit == s.lot_size
             n == k * unit
             scale == s.qty_scale
  <2>1. scale \in 0 .. MaxScale /\ unit \in Nat \ {0} /\ WordMax \in Nat
    BY SpecificationParts, LatticeAssumption
  <2>2. n \in 0 .. WordMax /\ n % unit = 0
    <3> HIDE DEF unit
    <3>1. n \in Nat /\ n % unit = 0
      BY <2>1, MultipleOfUnit
    <3>2. n <= WordMax
      BY <1>2 DEF unit
    <3> QED
      BY <2>1, <3>1, <3>2
  <2> HIDE DEF n, unit, scale
  <2>3. Onto([mantissa |-> n, scale |-> scale], scale, unit) = Ok(n)
    BY <2>1, <2>2, OntoReturns
  <2>4. Qty(s, QtyToDecimal(s, n)) = Ok(n)
    BY <2>3 DEF Qty, QtyToDecimal, unit, scale
  <2> QED
    BY <2>4 DEF n, unit
<1>3. LatticeInv => RoundTrip
  <2> SUFFICES ASSUME LatticeInv, NEW s \in Specs
               PROVE  /\ \A k \in 0 .. 2 * s.tick_size : k * s.tick_size <= WordMax =>
                           /\ Price(s, ToDecimal(s, k * s.tick_size)) = Ok(k * s.tick_size)
                           /\ TicksBetween(s, k * s.tick_size, s.tick_size) * s.tick_size
                                = Distance(k * s.tick_size, s.tick_size)
                      /\ \A k \in 0 .. 2 * s.lot_size : k * s.lot_size <= WordMax =>
                           Qty(s, QtyToDecimal(s, k * s.lot_size)) = Ok(k * s.lot_size)
    BY DEF RoundTrip
  <2>1. s \in Specification
    BY SpecsAreSpecifications
  <2> QED
    BY <1>1, <1>2, <2>1
<1> QED
  BY <1>3, LatticeIsKept, PTL

\* Rounding lands on the nearest tick on the named side, keeps what is on a tick
\* already, and never improves a passive price (instrument.rs:204-215).
THEOREM RoundingsBracket == Spec => []RoundingBrackets
<1>1. LatticeInv => RoundingBrackets
  <2> SUFFICES ASSUME LatticeInv, NEW s \in Specs, NEW d \in Decimals
               PROVE  \A rounding \in Roundings : IsOk(RoundPrice(s, d, rounding)) =>
                        LET n == RoundPrice(s, d, rounding).units
                            scale == s.price_scale
                        IN  /\ n % s.tick_size = 0
                            /\ rounding \in {"down", "passive_bid"} =>
                                 AtMost(n, d, scale) /\ ~AtMost(n + s.tick_size, d, scale)
                            /\ rounding \in {"up", "passive_ask"} =>
                                 AtLeast(n, d, scale) /\ ~AtLeast(n - s.tick_size, d, scale)
    BY DEF RoundingBrackets, Roundings
  <2>1. s \in Specification /\ d \in Decimal
    BY SpecsAreSpecifications, LatticeAssumption
  <2> QED
    BY <2>1, RoundsToTick
<1> QED
  BY <1>1, LatticeIsKept, PTL

\* "At least X" is decided exactly: the floor in notional units is the least that
\* is worth the published decimal, and is refused only when it fits no notional
\* (instrument.rs:372-377, 628-633).
THEOREM FloorsAreExact == Spec => []FloorIsExact
<1>1. LatticeInv => FloorIsExact
  <2> SUFFICES ASSUME LatticeInv, NEW s \in Specs, NEW d \in Decimals
               PROVE  LET scale == s.price_scale + s.qty_scale
                          raw == CeilScaled(d, scale)
                      IN  IF raw = Null
                          THEN d.mantissa <= 0 \/ ~AtLeast(WideMax, d, scale)
                          ELSE AtLeast(raw, d, scale) /\ (raw > 0 => ~AtLeast(raw - 1, d, scale))
    BY DEF FloorIsExact
  <2> DEFINE scale == s.price_scale + s.qty_scale
  <2>1. scale \in Scales /\ d \in Decimal
    BY SpecsAreSpecifications, SpecificationParts, LatticeAssumption
  <2> HIDE DEF scale
  <2>2. LET raw == CeilScaled(d, scale)
        IN  IF raw = Null
            THEN d.mantissa <= 0 \/ ~AtLeast(WideMax, d, scale)
            ELSE AtLeast(raw, d, scale) /\ (raw > 0 => ~AtLeast(raw - 1, d, scale))
    BY <2>1, ScaledIsCeiling
  <2> QED
    BY <2>2 DEF scale
<1> QED
  BY <1>1, LatticeIsKept, PTL

-------------------------------------------------------------------------------
(* Admission *)

\* Nothing a caller holds came from a lattice other than the one it meets: there
\* is one instrument, or all grids have one tick and one lot.  A Price remembers
\* nothing of its instrument, so that without this an instrument admits prices
\* that are off its tick.
OneLattice ==
  \/ \A i, j \in Instruments : i = j
  \/ \A g, h \in Grids : ValidGrid(g) /\ ValidGrid(h)
       => g.tick_size = h.tick_size /\ g.lot_size = h.lot_size

\* What callers hold is on the lattice of every instrument, whose tick and lot
\* are those of a grid.
HeldOnLattice ==
  /\ LatticeInv
  /\ \A i \in Instruments : spec[i] # Null =>
       /\ \E g \in Grids : /\ ValidGrid(g)
                           /\ spec[i].tick_size = g.tick_size /\ spec[i].lot_size = g.lot_size
       /\ \A price \in prices : price % spec[i].tick_size = 0
       /\ \A qty \in qtys : qty % spec[i].lot_size = 0

\* "Tick and lot alignment cannot be violated by anything that reached this far"
\* (orderbook.rs:204-206): true wherever prices and quantities meet the lattice
\* that made them.
THEOREM AdmissionKeepsLattice == ASSUME OneLattice PROVE Spec => []AdmittedOnLattice
<1>1. Init => HeldOnLattice /\ AdmittedOnLattice
  BY DEF Init, HeldOnLattice, LatticeInv, AdmittedOnLattice
<1>2. ASSUME HeldOnLattice, AdmittedOnLattice, [Next]_vars
      PROVE  HeldOnLattice' /\ AdmittedOnLattice'
  <2> USE DEF HeldOnLattice
  <2>1. LatticeInv'
    BY <1>2, CallsKeepLattice
  <2>2. CASE UNCHANGED vars
    BY <1>2, <2>1, <2>2 DEF vars, AdmittedOnLattice
  <2>3. ASSUME NEW i \in Instruments, NewStep(i)
        PROVE  HeldOnLattice' /\ AdmittedOnLattice'
    <3>1. /\ spec[i] = Null /\ spec'[i] # Null
          /\ \A j \in Instruments : j # i => spec'[j] = spec[j]
          /\ UNCHANGED <<prices, qtys, admitted>>
      BY <1>2, <2>3, NullAssumption DEF NewStep, LatticeInv
    <3>2. PICK g \in Grids : /\ ValidGrid(g)
                             /\ spec'[i].tick_size = g.tick_size /\ spec'[i].lot_size = g.lot_size
      BY <2>3 DEF NewStep
    <3>3. /\ \A price \in prices : price % spec'[i].tick_size = 0
          /\ \A qty \in qtys : qty % spec'[i].lot_size = 0
      <4>1. CASE \A j \in Instruments : spec[j] = Null
        <5>1. prices \union qtys = {}
          BY <1>2, <4>1 DEF LatticeInv
        <5> QED
          BY <5>1
      <4>2. CASE ~(\A j \in Instruments : spec[j] = Null)
        <5>1. PICK j \in Instruments : spec[j] # Null
          BY <4>2
        <5>2. i # j
          BY <3>1, <5>1
        <5>3. spec'[i].tick_size = spec[j].tick_size /\ spec'[i].lot_size = spec[j].lot_size
          BY <1>2, <3>2, <5>1, <5>2 DEF OneLattice
        <5> QED
          BY <1>2, <5>1, <5>3
      <4> QED
        BY <4>1, <4>2
    <3>4. AdmittedOnLattice'
      BY <1>2, <3>1 DEF AdmittedOnLattice, LatticeInv
    <3> QED
      BY <1>2, <2>1, <3>1, <3>2, <3>3, <3>4
  <2>4. ASSUME NEW i \in Instruments, Built(i)
        PROVE  HeldOnLattice' /\ AdmittedOnLattice'
    <3>1. /\ spec[i] # Null
          /\ \A j \in Instruments : j # i => spec'[j] = spec[j]
          /\ spec'[i].tick_size = spec[i].tick_size /\ spec'[i].lot_size = spec[i].lot_size
          /\ UNCHANGED <<prices, qtys, admitted>>
      BY <1>2, <2>4 DEF Built, LatticeInv
    <3>2. AdmittedOnLattice'
      BY <1>2, <3>1 DEF AdmittedOnLattice, LatticeInv
    <3> QED
      BY <1>2, <2>1, <3>1, <3>2
  <2>5. ASSUME NEW i \in Instruments, HoldStep(i)
        PROVE  HeldOnLattice' /\ AdmittedOnLattice'
    <3>1. spec' = spec /\ admitted' = admitted /\ spec[i] # Null
      BY <2>5 DEF HoldStep
    <3>2. \A j \in Instruments : spec[j] # Null =>
            spec[j].tick_size = spec[i].tick_size /\ spec[j].lot_size = spec[i].lot_size
      BY <1>2, <3>1 DEF OneLattice
    <3>3. \A j \in Instruments : spec[j] # Null =>
            /\ \A price \in prices' : price % spec[j].tick_size = 0
            /\ \A qty \in qtys' : qty % spec[j].lot_size = 0
      BY <1>2, <2>5, <3>2 DEF HoldStep
    <3>4. AdmittedOnLattice'
      BY <1>2, <3>1 DEF AdmittedOnLattice
    <3> QED
      BY <1>2, <2>1, <3>1, <3>3, <3>4
  <2>6. ASSUME NEW i \in Instruments, AdmitStep(i)
        PROVE  HeldOnLattice' /\ AdmittedOnLattice'
    <3>1. UNCHANGED <<spec, prices, qtys>> /\ spec[i] # Null
      BY <2>6 DEF AdmitStep
    <3>2. PICK price \in prices, qty \in qtys :
            admitted' = {[instrument |-> i, price |-> price, qty |-> qty]}
      BY <2>6 DEF AdmitStep
    <3>3. price % spec[i].tick_size = 0 /\ qty % spec[i].lot_size = 0
      BY <1>2, <3>1
    <3>4. AdmittedOnLattice'
      BY <3>1, <3>2, <3>3 DEF AdmittedOnLattice
    <3> QED
      BY <1>2, <2>1, <3>1, <3>4
  <2> QED
    BY <1>2, <2>2, <2>3, <2>4, <2>5, <2>6, CallKinds
<1> QED
  BY <1>1, <1>2, PTL DEF Spec
===============================================================================
