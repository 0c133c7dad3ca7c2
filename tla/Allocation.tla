------------------------------ MODULE Allocation ------------------------------
(***************************************************************************)
(* How a taker is apportioned across one price level                       *)
(* (src/src/allocation.rs).                                                *)
(*                                                                         *)
(* A level is a sequence of makers, oldest first, each a record            *)
(* [remaining, arrival].  An allocation is a function from the positions   *)
(* of that sequence to quantities: the code's list of fills, whose indices *)
(* strictly increase, with 0 at the positions the list leaves out (clauses *)
(* 1 and 2 of the contract are this representation).                       *)
(***************************************************************************)
EXTENDS Integers, Sequences, Functions

CONSTANTS
  Lot,       \* the instrument's lot, in base units
  Tick,      \* arrivals per tick of age (TimeProRataMatcher)
  MaxAge,    \* ticks beyond which patience stops paying
  WordBits   \* width of the word a weight is scaled down to fit

ASSUME AllocationAssumption ==
  /\ Lot \in Nat \ {0}
  /\ Tick \in Nat \ {0}
  /\ WordBits \in Nat \ {0}
  /\ MaxAge \in Nat \ {0} /\ MaxAge < 2 ^ WordBits

Smaller(a, b) == IF a <= b THEN a ELSE b
Larger(a, b) == IF a <= b THEN b ELSE a

Sizes(makers) == [i \in DOMAIN makers |-> makers[i].remaining]
Total(f) == SumFunction(f)

-------------------------------------------------------------------------------
(* The contract every policy owes the engine *)

\* Mutant: a policy may overfill a maker.
MutContractOverfill(f, available, makers) ==
  /\ \A i \in DOMAIN makers : f[i] % Lot = 0
  /\ Total(f) = Smaller(available, Total(Sizes(makers)))

\* Mutant: a policy may stop short of filling the taker or emptying the level.
MutContractShort(f, available, makers) ==
  /\ \A i \in DOMAIN makers : f[i] <= makers[i].remaining /\ f[i] % Lot = 0
  /\ Total(f) \in 0 .. available

\* Clauses 3, 4 and 5: no maker overfilled, the taker filled or the level
\* emptied, whole lots only.  Clause 4 in the form the engine relies on; that
\* it says the total is min(available, level) is checked in MCAllocation.
Contract(f, available, makers) ==
  /\ \A i \in DOMAIN makers : f[i] <= makers[i].remaining /\ f[i] % Lot = 0
  /\ Total(f) \in 0 .. available
  /\ Total(f) = available \/ f = Sizes(makers)

Allocations(available, makers) ==
  {f \in [DOMAIN makers -> 0 .. available] : Contract(f, available, makers)}

-------------------------------------------------------------------------------
(* FifoMatcher: the oldest maker first, each as much as it has *)

\* Mutant: the newest maker first.
MutFifoAllocate(available, makers) ==
  LET left[i \in 1 .. Len(makers) + 1] ==
        IF i = Len(makers) + 1 THEN available
        ELSE left[i+1] - Smaller(left[i+1], makers[i].remaining)
  IN  [i \in DOMAIN makers |-> Smaller(left[i+1], makers[i].remaining)]

FifoAllocate(available, makers) ==
  LET left[i \in 0 .. Len(makers)] ==
        IF i = 0 THEN available
        ELSE left[i-1] - Smaller(left[i-1], makers[i].remaining)
  IN  [i \in DOMAIN makers |-> Smaller(left[i-1], makers[i].remaining)]

-------------------------------------------------------------------------------
(* The last pass of both weighted policies: one lot each, front to back,   *)
(* to every maker with a lot of headroom, until `crumbs' is used up.       *)

\* Mutant: back to front.
MutCrumbSweep(shares, crumbs, makers) ==
  LET left[i \in 1 .. Len(makers) + 1] ==
        IF i = Len(makers) + 1 THEN crumbs
        ELSE IF left[i+1] # 0 /\ makers[i].remaining - shares[i] >= Lot
             THEN left[i+1] - Lot
             ELSE left[i+1]
  IN  [i \in DOMAIN makers |-> shares[i] + (left[i+1] - left[i])]

CrumbSweep(shares, crumbs, makers) ==
  LET left[i \in 0 .. Len(makers)] ==
        IF i = 0 THEN crumbs
        ELSE IF left[i-1] # 0 /\ makers[i].remaining - shares[i] >= Lot
             THEN left[i-1] - Lot
             ELSE left[i-1]
  IN  [i \in DOMAIN makers |-> shares[i] + (left[i-1] - left[i])]

\* Mutant: shares leave the lot grid.
MutLotFloor(qty) == qty

\* Rounds down to whole lots.
LotFloor(qty) == (qty \div Lot) * Lot

-------------------------------------------------------------------------------
(* ProRataMatcher: shares proportional to size *)

ProRataAllocate(available, makers) ==
  LET sizes == Sizes(makers)
      total == Total(sizes)
      shares == [i \in DOMAIN makers |-> LotFloor((available * sizes[i]) \div total)]
  IN  IF available >= total
      THEN sizes
      ELSE CrumbSweep(shares, available - Total(shares), makers)

-------------------------------------------------------------------------------
(* TimeProRataMatcher: shares proportional to size and age *)

\* Mutant: the arrival stamp itself is taken for the age.
MutAgeTicks(maker, now) == Smaller(Larger(maker.arrival, 1), MaxAge)

\* Age in ticks, at least one and at most MaxAge; an arrival ahead of `now'
\* counts as brand new.
AgeTicks(maker, now) ==
  LET elapsed == Larger(now - maker.arrival, 0) \div Tick
  IN  Smaller(Larger(elapsed, 1), MaxAge)

\* The bits a weight has beyond the word.
ExcessBits(weight) ==
  IF weight < 2 ^ WordBits THEN 0
  ELSE CHOOSE n \in 1 .. WordBits :
         2 ^ (WordBits + n - 1) <= weight /\ weight < 2 ^ (WordBits + n)

\* Mutant: size and age are added.
MutWeights(makers, now) ==
  [i \in DOMAIN makers |-> makers[i].remaining + AgeTicks(makers[i], now)]

\* Size times age, all shifted right until the largest fits the word; a weight
\* shifted away keeps a minimal claim of one.
Weights(makers, now) ==
  LET raw == [i \in DOMAIN makers |-> makers[i].remaining * AgeTicks(makers[i], now)]
      largest == CHOOSE w \in Range(raw) : \A v \in Range(raw) : v <= w
  IN  [i \in DOMAIN makers |-> Larger(raw[i] \div 2 ^ ExcessBits(largest), 1)]

\* One pass of the water-fill over `fill' = [shares, pool, open]: either every
\* maker whose proportional share overruns what it holds is capped, or the
\* lot-floored shares are committed and the fill closes.
WaterFillPass(fill, makers, weights) ==
  LET contending == {i \in DOMAIN makers : fill.shares[i] < makers[i].remaining}
      weightTotal == Total([i \in contending |-> weights[i]])
      due == [i \in contending |-> (fill.pool * weights[i]) \div weightTotal]
      capped == {i \in contending : due[i] >= makers[i].remaining}
      given == IF capped # {}
               THEN [i \in capped |-> makers[i].remaining]
               ELSE [i \in contending |-> LotFloor(due[i])]
  IN  IF ~fill.open \/ contending = {}
      THEN [fill EXCEPT !.open = FALSE]
      ELSE [shares |-> [i \in DOMAIN makers |->
                          IF i \in DOMAIN given THEN given[i] ELSE fill.shares[i]],
            pool   |-> fill.pool - Total(given),
            open   |-> capped # {}]

\* Every pass but the last caps a maker, so one pass per maker and one more
\* closes the fill.
TimeProRataAllocate(available, makers, now) ==
  LET weights == Weights(makers, now)
      start == [shares |-> [i \in DOMAIN makers |-> 0], pool |-> available, open |-> TRUE]
      pass[n \in 0 .. Len(makers) + 1] ==
        IF n = 0 THEN start ELSE WaterFillPass(pass[n-1], makers, weights)
      filled == pass[Len(makers) + 1]
  IN  IF available >= Total(Sizes(makers))
      THEN Sizes(makers)
      ELSE CrumbSweep(filled.shares, filled.pool, makers)
===============================================================================
