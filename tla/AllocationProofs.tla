---------------------------- MODULE AllocationProofs ----------------------------
(***************************************************************************)
(* The shipped policies keep the contract they owe the engine, for levels  *)
(* and takers of every size: a level is poured out maker by maker (FIFO,   *)
(* and the odd lots of the weighted policies) or filled pass by pass (time *)
(* pro-rata), and either is a recursion along 0 .. n.  The two forms of    *)
(* the contract are one; pro-rata is fair to a lot; an older maker is      *)
(* never worse off under time pro-rata; and where all are of one age, time *)
(* pro-rata is pro-rata.                                                   *)
(***************************************************************************)
EXTENDS MCAllocation, DataProofs

-------------------------------------------------------------------------------
(* Whole lots *)

Lots == {qty \in Nat : qty % Lot = 0}

LEMMA MultiplesAreLots ==
  ASSUME NEW k \in Nat
  PROVE  Lot * k \in Lots
<1>1. Lot \in Nat \ {0}
  BY AllocationAssumption
<1>2. Lot * k \in Nat /\ (Lot * k) % Lot = 0
  BY <1>1
<1> QED
  BY <1>2 DEF Lots

LEMMA LotsAreMultiples ==
  ASSUME NEW qty \in Lots
  PROVE  \E k \in Nat : qty = Lot * k
<1>1. Lot \in Nat \ {0}
  BY AllocationAssumption
<1>2. qty = Lot * (qty \div Lot) /\ qty \div Lot \in Nat
  BY <1>1 DEF Lots
<1> QED
  BY <1>2

LEMMA LotArithmetic ==
  ASSUME NEW a \in Lots, NEW b \in Lots
  PROVE  /\ a + b \in Lots
         /\ a >= b => a - b \in Lots
         /\ a < b => a + Lot <= b
<1>1. Lot \in Nat \ {0} /\ a \in Nat /\ b \in Nat
  BY AllocationAssumption DEF Lots
<1>2. PICK x \in Nat : a = Lot * x
  BY <1>1, LotsAreMultiples
<1>3. PICK y \in Nat : b = Lot * y
  BY <1>1, LotsAreMultiples
<1>4. a + b = Lot * (x + y) /\ a - b = Lot * (x - y)
  <2>1. Lot * (x + y) = Lot * x + Lot * y /\ Lot * (x - y) = Lot * x - Lot * y
    BY <1>1
  <2> QED
    BY <1>2, <1>3, <2>1
<1>5. a + b \in Lots
  <2>1. x + y \in Nat
    OBVIOUS
  <2> DEFINE k == x + y
  <2> HIDE DEF k
  <2> QED
    BY <1>4, <2>1, MultiplesAreLots DEF k
<1>6. ASSUME a >= b PROVE a - b \in Lots
  <2>1. x - y \in Nat
    BY <1>1, <1>2, <1>3, <1>6
  <2> QED
    BY <1>4, <2>1, MultiplesAreLots
<1>7. ASSUME a < b PROVE a + Lot <= b
  <2>1. x + 1 <= y
    BY <1>1, <1>2, <1>3, <1>7
  <2>2. Lot * (x + 1) <= Lot * y
    BY <1>1, <2>1
  <2> QED
    BY <1>1, <1>2, <1>3, <2>2
<1> QED
  BY <1>5, <1>6, <1>7

LEMMA LotFloorIsLots ==
  ASSUME NEW qty \in Nat
  PROVE  LotFloor(qty) \in Lots /\ LotFloor(qty) <= qty /\ qty < LotFloor(qty) + Lot
<1>1. Lot \in Nat \ {0}
  BY AllocationAssumption
<1>2. qty \div Lot \in Nat /\ qty = Lot * (qty \div Lot) + (qty % Lot) /\ qty % Lot \in 0 .. Lot - 1
  BY <1>1, DivMod
<1>3. LotFloor(qty) = Lot * (qty \div Lot)
  BY <1>1, <1>2 DEF LotFloor
<1>4. LotFloor(qty) \in Lots
  <2> DEFINE k == qty \div Lot
  <2>1. k \in Nat /\ LotFloor(qty) = Lot * k
    BY <1>2, <1>3
  <2> HIDE DEF k
  <2> QED
    BY <2>1, MultiplesAreLots
<1> QED
  BY <1>1, <1>2, <1>3, <1>4

\* A sum of whole lots is one, and every part of it too.
LEMMA SumOfLots ==
  ASSUME NEW S, IsFiniteSet(S), NEW f, \A x \in S : f[x] \in Lots
  PROVE  SumFunctionOnSet(f, S) \in Lots
<1> DEFINE F(T) == SumFunctionOnSet(f, T)
           G == {T \in SUBSET S : F(T) \in Lots}
<1>1. \A x \in S : f[x] \in Int
  BY DEF Lots
<1>2. ASSUME NEW T \in SUBSET S
      PROVE  (T = {} => F(T) = 0) /\ \A x \in T : F(T) = f[x] + F(T \ {x})
  BY <1>1, SumParts
<1>3. 0 \in Lots
  BY AllocationAssumption DEF Lots
<1> HIDE DEF F
<1>4. ASSUME NEW T \in SUBSET S, \A x \in T : T \ {x} \in G PROVE T \in G
  <2>1. CASE T = {}
    BY <1>2, <1>3, <2>1
  <2>2. CASE T # {}
    <3>1. PICK x \in T : TRUE
      BY <2>2
    <3>2. F(T \ {x}) \in Lots
      BY <1>4
    <3>3. F(T) = f[x] + F(T \ {x})
      BY <1>2
    <3> QED
      BY <3>2, <3>3, LotArithmetic
  <2> QED
    BY <2>1, <2>2
<1>5. S \in G
  <2> HIDE DEF G
  <2>1. \A T \in SUBSET S : T \in G
    BY <1>4, ByElements
  <2> QED
    BY <2>1
<1> QED
  BY <1>5 DEF F

-------------------------------------------------------------------------------
(* Levels and what the contract asks of an allocation *)

\* The makers of a level: live orders of whole lots.
IsLevel(ms) == ms \in Seq([remaining : Lots \ {0}, arrival : Nat])

\* The contract as the documentation words it: whole lots, no maker beyond what
\* it has, and in total the smaller of the taker and the level.
Honours(fills, available, ms) ==
  /\ fills \in [DOMAIN ms -> Nat]
  /\ \A i \in DOMAIN ms : fills[i] <= ms[i].remaining /\ fills[i] \in Lots
  /\ Total(fills) = Smaller(available, Total(Sizes(ms)))

LEMMA LevelSizes ==
  ASSUME NEW ms, IsLevel(ms)
  PROVE  /\ Len(ms) \in Nat /\ DOMAIN ms = 1 .. Len(ms) /\ IsFiniteSet(1 .. Len(ms))
         /\ \A i \in 1 .. Len(ms) :
              /\ ms[i].remaining \in Lots /\ ms[i].remaining \in Nat \ {0} /\ ms[i].arrival \in Nat
              /\ Sizes(ms)[i] = ms[i].remaining
         /\ DOMAIN Sizes(ms) = 1 .. Len(ms)
         /\ Total(Sizes(ms)) = SumFunctionOnSet(Sizes(ms), 1 .. Len(ms))
<1>1. Len(ms) \in Nat /\ DOMAIN ms = 1 .. Len(ms)
  BY LenProperties DEF IsLevel
<1>2. \A i \in 1 .. Len(ms) : ms[i] \in [remaining : Lots \ {0}, arrival : Nat]
  BY ElementOfSeq DEF IsLevel
<1>3. \A i \in 1 .. Len(ms) :
        ms[i].remaining \in Lots /\ ms[i].remaining \in Nat \ {0} /\ ms[i].arrival \in Nat
  BY <1>2 DEF Lots
<1>4. DOMAIN Sizes(ms) = 1 .. Len(ms) /\ \A i \in 1 .. Len(ms) : Sizes(ms)[i] = ms[i].remaining
  BY <1>1 DEF Sizes
<1>5. Total(Sizes(ms)) = SumFunctionOnSet(Sizes(ms), 1 .. Len(ms))
  BY <1>4 DEF Total, SumFunction
<1>6. IsFiniteSet(1 .. Len(ms))
  BY <1>1, FS_Interval
<1> QED
  BY <1>1, <1>3, <1>4, <1>5, <1>6

\* An allocation of no more than the makers have honours the contract once it
\* hands out all of the taker, or all of the level to a taker not smaller.
LEMMA HonoursWhenSpent ==
  ASSUME NEW ms, IsLevel(ms), NEW available \in Nat, NEW fills \in [1 .. Len(ms) -> Nat],
         \A i \in 1 .. Len(ms) : fills[i] <= ms[i].remaining /\ fills[i] \in Lots,
         \/ Total(fills) = available
         \/ fills = Sizes(ms) /\ Total(fills) <= available
  PROVE  Honours(fills, available, ms)
<1> DEFINE f == Sizes(ms)
           S == 1 .. Len(ms)
<1>1. /\ IsFiniteSet(S) /\ DOMAIN ms = S /\ Total(f) = SumFunctionOnSet(f, S)
      /\ \A i \in S : f[i] \in Nat /\ f[i] = ms[i].remaining
  BY LevelSizes
<1>2. Total(fills) = SumFunctionOnSet(fills, S)
  BY <1>1 DEF Total, SumFunction
<1>3. \A i \in S : fills[i] \in Int /\ f[i] \in Int /\ fills[i] <= f[i]
  BY <1>1
<1>4. Total(fills) \in Nat /\ Total(f) \in Nat /\ Total(fills) <= Total(f)
  <2> HIDE DEF f, S
  <2>1. \A i \in S : fills[i] \in Nat
    BY <1>1
  <2> QED
    BY SMTT(30), <1>1, <1>2, <1>3, <2>1, SumNat, SumAtMost
<1>5. Total(fills) = Smaller(available, Total(f))
  BY <1>4 DEF Smaller
<1> QED
  BY <1>5 DEF Honours

-------------------------------------------------------------------------------
(* First in, first out *)

\* What is left of the taker before and after each maker of a level.
Pourings(available, ms) ==
  {left \in [0 .. Len(ms) -> Nat] :
     /\ left[0] = available
     /\ \A i \in 1 .. Len(ms) : left[i] = left[i-1] - Smaller(left[i-1], ms[i].remaining)}

LEMMA FifoPours ==
  ASSUME NEW ms, IsLevel(ms), NEW available \in Nat
  PROVE  \E left \in Pourings(available, ms) :
           FifoAllocate(available, ms) =
             [i \in DOMAIN ms |-> Smaller(left[i-1], ms[i].remaining)]
<1> DEFINE n == Len(ms)
           Pour(i, v) == v - Smaller(v, ms[i].remaining)
           Value(g, i) == IF i = 0 THEN available ELSE Pour(i, g[i-1])
           step == [i \in 1 .. n |-> [v \in Nat |-> Pour(i, v)]]
           IsPouring(g) == g = [i \in 0 .. n |-> Value(g, i)]
           left == CHOOSE g : IsPouring(g)
<1>1. n \in Nat /\ \A i \in 1 .. n : ms[i].remaining \in Nat
  BY LevelSizes
<1>2. \A i \in 1 .. n, v \in Nat : Pour(i, v) \in Nat
  BY <1>1 DEF Smaller
<1>3. FifoAllocate(available, ms) = [i \in DOMAIN ms |-> Smaller(left[i-1], ms[i].remaining)]
  BY DEF FifoAllocate
<1> HIDE DEF Pour
<1>4. IsStepwise(n, Nat, available, step)
  BY <1>1, <1>2 DEF IsStepwise
<1>5. PICK g \in Recursions(n, Nat, available, step) : TRUE
  <2> HIDE DEF step
  <2> QED
    BY <1>4, RecursionExists
<1>6. IsPouring(g)
  <2>1. g \in [0 .. n -> Nat] /\ g[0] = available
    BY <1>5 DEF Recursions
  <2>2. ASSUME NEW i \in 1 .. n PROVE g[i] = Pour(i, g[i-1])
    <3>1. g[i] = step[i][g[i-1]]
      BY <1>5 DEF Recursions
    <3>2. i - 1 \in 0 .. n
      BY <1>1
    <3> QED
      BY <2>1, <3>1, <3>2
  <2>3. \A i \in 0 .. n : g[i] = Value(g, i)
    BY <1>1, <2>1, <2>2
  <2> HIDE DEF Value
  <2> QED
    BY <2>1, <2>3
<1>7. IsPouring(left)
  <2> HIDE DEF IsPouring
  <2> QED
    BY <1>6
<1>8. left = [i \in 0 .. n |-> left[i]] /\ left[0] = available
      /\ \A i \in 1 .. n : left[i] = Pour(i, left[i-1])
  <2> HIDE DEF left
  <2>1. left = [i \in 0 .. n |-> left[i]] /\ \A i \in 0 .. n : left[i] = Value(left, i)
    <3> HIDE DEF Value
    <3> QED
      BY <1>7
  <2>2. 0 \in 0 .. n /\ \A i \in 1 .. n : i \in 0 .. n /\ i # 0
    BY <1>1
  <2> QED
    BY <2>1, <2>2
<1>9. left \in Recursions(n, Nat, available, step)
  <2>1. \A i \in 1 .. n : left[i-1] \in Nat => left[i] = step[i][left[i-1]]
    <3> HIDE DEF left
    <3> QED
      BY <1>8
  <2> HIDE DEF left, step
  <2> QED
    BY <1>4, <1>8, <2>1, StepwiseIsRecursion
<1>10. left \in Pourings(available, ms)
  <2>1. left \in [0 .. n -> Nat]
    BY <1>9 DEF Recursions
  <2> HIDE DEF left
  <2> QED
    BY <1>8, <2>1 DEF Pourings, Pour
<1> HIDE DEF left
<1> QED
  BY <1>3, <1>10

\* FifoMatcher honours the contract (allocation.rs:112-136): it stops only where
\* the taker is used up, and a taker not used up has emptied every maker.
THEOREM FifoHonours ==
  ASSUME NEW ms, IsLevel(ms), NEW available \in Lots
  PROVE  Honours(FifoAllocate(available, ms), available, ms)
<1> DEFINE n == Len(ms)
           fills == FifoAllocate(available, ms)
<1>1. /\ n \in Nat /\ DOMAIN ms = 1 .. n
      /\ \A i \in 1 .. n : ms[i].remaining \in Lots /\ ms[i].remaining \in Nat \ {0}
  BY LevelSizes
<1>2. available \in Nat
  BY DEF Lots
<1>3. PICK left \in Pourings(available, ms) :
        fills = [i \in DOMAIN ms |-> Smaller(left[i-1], ms[i].remaining)]
  BY <1>2, FifoPours
<1>4. /\ left \in [0 .. n -> Nat] /\ left[0] = available
      /\ \A i \in 1 .. n : left[i] = left[i-1] - Smaller(left[i-1], ms[i].remaining)
  BY DEF Pourings
<1> HIDE DEF fills
<1>5. \A i \in 0 .. n : left[i] \in Lots
  <2> DEFINE G == {i \in 0 .. n : left[i] \in Lots}
  <2>1. 0 \in G
    BY <1>1, <1>4
  <2>2. ASSUME NEW i \in 0 .. n - 1, i \in G PROVE i + 1 \in G
    <3>1. i + 1 \in 1 .. n /\ i + 1 \in 0 .. n /\ (i + 1) - 1 = i /\ 0 \in Lots
      BY <1>1, AllocationAssumption DEF Lots
    <3>2. left[i+1] = left[i] - Smaller(left[i], ms[i+1].remaining)
      BY <1>4, <3>1
    <3>3. left[i] \in Nat /\ left[i] \in Lots /\ ms[i+1].remaining \in Nat /\ ms[i+1].remaining \in Lots
      BY <1>1, <1>4, <2>2, <3>1
    <3>4. left[i+1] \in Lots
      <4>1. CASE left[i] <= ms[i+1].remaining
        BY <3>1, <3>2, <3>3, <4>1 DEF Smaller
      <4>2. CASE ~(left[i] <= ms[i+1].remaining)
        BY <3>2, <3>3, <4>2, LotArithmetic DEF Smaller
      <4> QED
        BY <4>1, <4>2
    <3> QED
      BY <3>1, <3>4
  <2> HIDE DEF G
  <2>3. \A i \in 0 .. n : i \in G
    BY <1>1, <2>1, <2>2, UpTo
  <2> QED
    BY <2>3 DEF G
<1>6. \A i \in 1 .. n : /\ i - 1 \in 0 .. n
                        /\ fills[i] = left[i-1] - left[i]
                        /\ fills[i] = Smaller(left[i-1], ms[i].remaining)
                        /\ fills[i] \in Nat /\ fills[i] <= ms[i].remaining /\ fills[i] \in Lots
  <2> SUFFICES ASSUME NEW i \in 1 .. n
               PROVE  /\ i - 1 \in 0 .. n
                      /\ fills[i] = left[i-1] - left[i]
                      /\ fills[i] = Smaller(left[i-1], ms[i].remaining)
                      /\ fills[i] \in Nat /\ fills[i] <= ms[i].remaining /\ fills[i] \in Lots
    OBVIOUS
  <2>1. i - 1 \in 0 .. n /\ i \in 0 .. n
    BY <1>1
  <2>2. left[i-1] \in Nat /\ left[i-1] \in Lots /\ ms[i].remaining \in Nat /\ ms[i].remaining \in Lots
    BY <1>1, <1>4, <1>5, <2>1
  <2>3. fills[i] = Smaller(left[i-1], ms[i].remaining)
    BY <1>1, <1>3
  <2>4. fills[i] = left[i-1] - left[i]
    BY <1>4, <2>2, <2>3 DEF Smaller
  <2> QED
    BY <2>1, <2>2, <2>3, <2>4 DEF Smaller
<1>7. fills \in [1 .. n -> Nat] /\ Total(fills) = SumFunctionOnSet(fills, 1 .. n)
  <2>1. DOMAIN fills = 1 .. n /\ fills = [i \in 1 .. n |-> fills[i]]
    BY <1>1, <1>3
  <2> QED
    BY <1>1, <1>6, <2>1 DEF Total, SumFunction
<1>8. Total(fills) = available - left[n]
  <2>1. \A i \in 0 .. n : left[i] \in Int
    BY <1>4
  <2>2. \A i \in 1 .. n : fills[i] = left[i-1] - left[i]
    BY <1>6
  <2> QED
    BY <1>1, <1>4, <1>7, <2>1, <2>2, Telescope
<1>9. left[n] \in Nat
  BY <1>1, <1>4
<1>10. ASSUME left[n] = 0 PROVE Honours(fills, available, ms)
  <2>1. Total(fills) = available
    BY <1>2, <1>8, <1>10
  <2> QED
    BY <1>2, <1>6, <1>7, <2>1, HonoursWhenSpent
<1>11. ASSUME left[n] # 0 PROVE Honours(fills, available, ms)
  <2>1. \A i \in 0 .. n : left[n] <= left[i]
    <3>1. \A i \in 0 .. n : left[i] \in Int
      BY <1>4
    <3>2. \A i \in 1 .. n : left[i] <= left[i-1]
      <4> SUFFICES ASSUME NEW i \in 1 .. n PROVE left[i] <= left[i-1]
        OBVIOUS
      <4>1. i \in 0 .. n /\ i - 1 \in 0 .. n
        BY <1>1
      <4>2. fills[i] = left[i-1] - left[i] /\ fills[i] \in Nat
        BY <1>6
      <4>3. left[i] \in Int /\ left[i-1] \in Int
        BY <3>1, <4>1
      <4> HIDE DEF n
      <4> QED
        BY <4>2, <4>3
    <3> QED
      BY <1>1, <3>1, <3>2, Descending
  <2>2. \A i \in 1 .. n : fills[i] = ms[i].remaining
    <3> SUFFICES ASSUME NEW i \in 1 .. n PROVE fills[i] = ms[i].remaining
      OBVIOUS
    <3>1. i \in 0 .. n /\ i - 1 \in 0 .. n
      BY <1>1
    <3>2. left[i] \in Nat /\ left[i-1] \in Nat /\ left[i] # 0
      BY <1>4, <1>9, <1>11, <2>1, <3>1
    <3> QED
      BY <1>1, <1>6, <3>2 DEF Smaller
  <2>3. fills = Sizes(ms)
    BY <1>1, <1>7, <2>2 DEF Sizes
  <2>4. Total(fills) <= available
    BY <1>2, <1>8, <1>9
  <2> QED
    BY <1>2, <1>6, <1>7, <2>3, <2>4, HonoursWhenSpent
<1> QED
  BY <1>10, <1>11 DEF fills

-------------------------------------------------------------------------------
(* The odd lots *)

HasRoom(shares, ms, i) == ms[i].remaining - shares[i] >= Lot

\* What one pass over the makers can still hand out, one lot each.
Room(shares, ms) == [i \in 1 .. Len(ms) |-> IF HasRoom(shares, ms, i) THEN Lot ELSE 0]

\* Shares in whole lots, none beyond what its maker has.
AreShares(shares, ms) ==
  shares \in [1 .. Len(ms) -> Nat]
  /\ \A i \in 1 .. Len(ms) : shares[i] \in Lots /\ shares[i] <= ms[i].remaining

\* The crumbs left before and after each maker.
Crumblings(shares, crumbs, ms) ==
  {left \in [0 .. Len(ms) -> Lots] :
     /\ left[0] = crumbs
     /\ \A i \in 1 .. Len(ms) :
          left[i] = IF left[i-1] # 0 /\ HasRoom(shares, ms, i) THEN left[i-1] - Lot ELSE left[i-1]}

LEMMA CrumbsCrumble ==
  ASSUME NEW ms, IsLevel(ms), NEW shares, NEW crumbs \in Lots
  PROVE  \E left \in Crumblings(shares, crumbs, ms) :
           CrumbSweep(shares, crumbs, ms) =
             [i \in DOMAIN ms |-> shares[i] + (left[i-1] - left[i])]
<1> DEFINE n == Len(ms)
           Crumble(i, v) == IF v # 0 /\ ms[i].remaining - shares[i] >= Lot THEN v - Lot ELSE v
           Value(g, i) == IF i = 0 THEN crumbs ELSE Crumble(i, g[i-1])
           step == [i \in 1 .. n |-> [v \in Lots |-> Crumble(i, v)]]
           IsCrumbling(g) == g = [i \in 0 .. n |-> Value(g, i)]
           left == CHOOSE g : IsCrumbling(g)
<1>1. n \in Nat
  BY LevelSizes
<1>2. \A i \in 1 .. n, v \in Lots : Crumble(i, v) \in Lots
  <2> SUFFICES ASSUME NEW v \in Lots, v # 0 PROVE v - Lot \in Lots
    OBVIOUS
  <2>1. Lot \in Lots /\ 0 \in Lots /\ v \in Nat /\ Lot \in Nat
    BY AllocationAssumption DEF Lots
  <2>2. Lot <= v
    BY <2>1, LotArithmetic
  <2> QED
    BY <2>1, <2>2, LotArithmetic
<1>3. CrumbSweep(shares, crumbs, ms) = [i \in DOMAIN ms |-> shares[i] + (left[i-1] - left[i])]
  BY DEF CrumbSweep
<1> HIDE DEF Crumble
<1>4. IsStepwise(n, Lots, crumbs, step)
  BY <1>1, <1>2 DEF IsStepwise
<1>5. PICK g \in Recursions(n, Lots, crumbs, step) : TRUE
  <2> HIDE DEF step
  <2> QED
    BY <1>4, RecursionExists
<1>6. IsCrumbling(g)
  <2>1. g \in [0 .. n -> Lots] /\ g[0] = crumbs
    BY <1>5 DEF Recursions
  <2>2. ASSUME NEW i \in 1 .. n PROVE g[i] = Crumble(i, g[i-1])
    <3>1. g[i] = step[i][g[i-1]]
      BY <1>5 DEF Recursions
    <3>2. i - 1 \in 0 .. n
      BY <1>1
    <3> QED
      BY <2>1, <3>1, <3>2
  <2>3. \A i \in 0 .. n : g[i] = Value(g, i)
    BY <1>1, <2>1, <2>2
  <2> HIDE DEF Value
  <2> QED
    BY <2>1, <2>3
<1>7. IsCrumbling(left)
  <2> HIDE DEF IsCrumbling
  <2> QED
    BY <1>6
<1>8. left = [i \in 0 .. n |-> left[i]] /\ left[0] = crumbs
      /\ \A i \in 1 .. n : left[i] = Crumble(i, left[i-1])
  <2> HIDE DEF left
  <2>1. left = [i \in 0 .. n |-> left[i]] /\ \A i \in 0 .. n : left[i] = Value(left, i)
    <3> HIDE DEF Value
    <3> QED
      BY <1>7
  <2>2. 0 \in 0 .. n /\ \A i \in 1 .. n : i \in 0 .. n /\ i # 0
    BY <1>1
  <2> QED
    BY <2>1, <2>2
<1>9. left \in Recursions(n, Lots, crumbs, step)
  <2>1. \A i \in 1 .. n : left[i-1] \in Lots => left[i] = step[i][left[i-1]]
    <3> HIDE DEF left
    <3> QED
      BY <1>8
  <2> HIDE DEF left, step
  <2> QED
    BY <1>4, <1>8, <2>1, StepwiseIsRecursion
<1>10. left \in Crumblings(shares, crumbs, ms)
  <2>1. left \in [0 .. n -> Lots]
    BY <1>9 DEF Recursions
  <2> HIDE DEF left
  <2> QED
    BY <1>8, <2>1 DEF Crumblings, Crumble, HasRoom
<1> HIDE DEF left
<1> QED
  BY <1>3, <1>10

\* Crumbs there is room for are all handed out, front to back: a maker gets its
\* odd lot only when every maker ahead of it that had room got one.
LEMMA CrumbsAreSpent ==
  ASSUME NEW ms, IsLevel(ms), NEW shares, AreShares(shares, ms),
         NEW crumbs \in Lots, crumbs <= SumFunctionOnSet(Room(shares, ms), 1 .. Len(ms)),
         NEW fills, fills = CrumbSweep(shares, crumbs, ms)
  PROVE  /\ fills \in [1 .. Len(ms) -> Nat]
         /\ \A i \in 1 .. Len(ms) :
              /\ fills[i] \in Lots /\ fills[i] <= ms[i].remaining
              /\ fills[i] = shares[i] \/ (fills[i] = shares[i] + Lot /\ HasRoom(shares, ms, i))
         /\ \A i, j \in 1 .. Len(ms) :
              i < j /\ fills[j] # shares[j] /\ HasRoom(shares, ms, i) => fills[i] = shares[i] + Lot
         /\ Total(fills) = SumFunctionOnSet(shares, 1 .. Len(ms)) + crumbs
<1> DEFINE n == Len(ms)
           S == 1 .. n
           room == Room(shares, ms)
<1>1. /\ n \in Nat /\ DOMAIN ms = S /\ IsFiniteSet(S)
      /\ \A i \in S : ms[i].remaining \in Lots /\ ms[i].remaining \in Nat \ {0}
  BY LevelSizes
<1>2. /\ shares \in [S -> Nat]
      /\ \A i \in S : shares[i] \in Nat /\ shares[i] \in Lots /\ shares[i] <= ms[i].remaining
  BY DEF AreShares
<1>3. Lot \in Nat \ {0} /\ Lot \in Lots /\ crumbs \in Nat /\ \A q \in Lots : q \in Nat
  BY AllocationAssumption DEF Lots
<1>4. PICK left \in Crumblings(shares, crumbs, ms) :
        fills = [i \in DOMAIN ms |-> shares[i] + (left[i-1] - left[i])]
  BY CrumbsCrumble
<1>5. /\ left \in [0 .. n -> Lots] /\ left[0] = crumbs
      /\ \A i \in S : left[i] = IF left[i-1] # 0 /\ HasRoom(shares, ms, i) THEN left[i-1] - Lot
                                ELSE left[i-1]
  BY DEF Crumblings
<1>6. \A i \in S : i \in 0 .. n /\ i - 1 \in 0 .. n
  BY <1>1
<1>7. \A i \in 0 .. n : left[i] \in Lots /\ left[i] \in Nat
  BY <1>3, <1>5
<1>8. \A i \in S : /\ fills[i] = shares[i] + (left[i-1] - left[i])
                   /\ left[i-1] # 0 /\ HasRoom(shares, ms, i) =>
                        fills[i] = shares[i] + Lot /\ left[i-1] - left[i] = Lot
                   /\ ~(left[i-1] # 0 /\ HasRoom(shares, ms, i)) =>
                        fills[i] = shares[i] /\ left[i-1] = left[i]
                   /\ left[i] <= left[i-1]
  <2> SUFFICES ASSUME NEW i \in S
               PROVE  /\ fills[i] = shares[i] + (left[i-1] - left[i])
                      /\ left[i-1] # 0 /\ HasRoom(shares, ms, i) =>
                           fills[i] = shares[i] + Lot /\ left[i-1] - left[i] = Lot
                      /\ ~(left[i-1] # 0 /\ HasRoom(shares, ms, i)) =>
                           fills[i] = shares[i] /\ left[i-1] = left[i]
                      /\ left[i] <= left[i-1]
    OBVIOUS
  <2>1. fills[i] = shares[i] + (left[i-1] - left[i])
    BY <1>1, <1>4
  <2>2. left[i] \in Nat /\ left[i-1] \in Nat /\ shares[i] \in Nat
    BY <1>2, <1>6, <1>7
  <2>3. CASE left[i-1] # 0 /\ HasRoom(shares, ms, i)
    <3>1. left[i] = left[i-1] - Lot
      BY <1>5, <2>3
    <3> QED
      BY <1>3, <2>1, <2>2, <2>3, <3>1
  <2>4. CASE ~(left[i-1] # 0 /\ HasRoom(shares, ms, i))
    <3>1. left[i] = left[i-1]
      BY <1>5, <2>4
    <3> QED
      BY <2>1, <2>2, <2>4, <3>1
  <2> QED
    BY <2>3, <2>4
<1>9. \A i \in S : HasRoom(shares, ms, i) => shares[i] + Lot <= ms[i].remaining /\ shares[i] + Lot \in Lots
  <2> SUFFICES ASSUME NEW i \in S, HasRoom(shares, ms, i)
               PROVE  shares[i] + Lot <= ms[i].remaining /\ shares[i] + Lot \in Lots
    OBVIOUS
  <2>1. shares[i] + Lot <= ms[i].remaining
    BY <1>1, <1>2, <1>3 DEF HasRoom
  <2>2. shares[i] \in Lots /\ Lot \in Lots
    BY <1>2, <1>3
  <2> QED
    BY <2>1, <2>2, LotArithmetic
<1>10. \A i \in S : /\ fills[i] \in Nat /\ fills[i] \in Lots /\ fills[i] <= ms[i].remaining
                    /\ fills[i] = shares[i] \/ (fills[i] = shares[i] + Lot /\ HasRoom(shares, ms, i))
  BY <1>2, <1>3, <1>8, <1>9
<1>11. fills \in [S -> Nat]
  <2>1. fills = [i \in S |-> fills[i]]
    BY <1>1, <1>4
  <2> QED
    BY <1>10, <2>1
<1>12. ASSUME NEW i \in S, NEW j \in S, i < j, fills[j] # shares[j], HasRoom(shares, ms, i)
       PROVE  fills[i] = shares[i] + Lot
  <2>1. left[j-1] # 0
    BY <1>8, <1>12
  <2>2. \A k \in 0 .. j - 1 : left[j-1] <= left[k]
    <3>1. j - 1 \in Nat /\ (\A k \in 0 .. j - 1 : left[k] \in Int) /\ \A k \in 1 .. j - 1 : left[k] <= left[k-1]
      BY <1>1, <1>7, <1>8
    <3> DEFINE m == j - 1
    <3> HIDE DEF m
    <3> QED
      BY <3>1, Descending DEF m
  <2>3. i - 1 \in 0 .. j - 1 /\ j - 1 \in 0 .. n /\ i - 1 \in 0 .. n
    BY <1>1, <1>12
  <2>4. left[i-1] # 0
    BY <1>7, <2>1, <2>2, <2>3
  <2> QED
    BY <1>8, <1>12, <2>4
<1>13. left[n] = 0
  <2> SUFFICES ASSUME left[n] # 0 PROVE FALSE
    OBVIOUS
  <2>1. \A i \in 0 .. n : left[n] <= left[i]
    <3>1. (\A k \in 0 .. n : left[k] \in Int) /\ \A k \in 1 .. n : left[k] <= left[k-1]
      BY <1>7, <1>8
    <3> QED
      BY <1>1, <3>1, Descending
  <2>2. \A i \in S : left[i-1] # 0
    BY <1>1, <1>6, <1>7, <2>1
  <2>3. \A i \in S : room[i] = left[i-1] - left[i]
    BY <1>3, <1>6, <1>7, <1>8, <2>2 DEF Room
  <2>4. SumFunctionOnSet(room, S) = left[0] - left[n]
    <3>1. \A k \in 0 .. n : left[k] \in Int
      BY <1>7
    <3> HIDE DEF room
    <3> QED
      BY <1>1, <2>3, <3>1, Telescope
  <2> QED
    BY <1>1, <1>3, <1>5, <1>7, <2>4
<1>14. Total(fills) = SumFunctionOnSet(shares, S) + crumbs
  <2> DEFINE odd == [i \in S |-> left[i-1] - left[i]]
  <2>1. \A i \in S : odd[i] = left[i-1] - left[i] /\ odd[i] \in Int
    BY <1>6, <1>7
  <2> HIDE DEF odd
  <2>2. SumFunctionOnSet(odd, S) = left[0] - left[n]
    <3>1. \A k \in 0 .. n : left[k] \in Int
      BY <1>7
    <3> QED
      BY <1>1, <2>1, <3>1, Telescope
  <2>3. \A i \in S : shares[i] \in Int /\ odd[i] \in Int /\ fills[i] = shares[i] + odd[i]
    BY <1>2, <1>8, <2>1
  <2>4. SumFunctionOnSet(fills, S) = SumFunctionOnSet(shares, S) + SumFunctionOnSet(odd, S)
    <3> HIDE DEF S
    <3> QED
      BY <1>1, <2>3, SumAdds
  <2>5. Total(fills) = SumFunctionOnSet(fills, S)
    BY <1>11 DEF Total, SumFunction
  <2> QED
    BY <1>1, <1>3, <1>5, <1>13, <2>2, <2>4, <2>5
<1> QED
  BY <1>10, <1>11, <1>12, <1>14

-------------------------------------------------------------------------------
(* Proportional shares *)

\* The members of C claim a pool in proportion to `claim'.
IsClaim(claim, C, total) ==
  /\ IsFiniteSet(C)
  /\ \A x \in C : claim[x] \in Nat
  /\ total = SumFunctionOnSet(claim, C)
  /\ total > 0

IsWithin(part, pool, claim, total, T) ==
  \A x \in T : part[x] \in Nat /\ total * part[x] <= pool * claim[x]

IsBeyond(part, pool, claim, total, T) ==
  \A x \in T : part[x] \in Nat /\ pool * claim[x] <= total * part[x]

\* Parts within the exact proportional shares are together within the pool.
LEMMA PartsWithin ==
  ASSUME NEW C, NEW claim, NEW total, IsClaim(claim, C, total), NEW pool \in Nat,
         NEW T \in SUBSET C, NEW part, IsWithin(part, pool, claim, total, T)
  PROVE  SumFunctionOnSet(part, T) \in Nat /\ SumFunctionOnSet(part, T) <= pool
<1> DEFINE f == [x \in T |-> total * part[x]]
           g == [x \in T |-> pool * claim[x]]
<1>1. /\ IsFiniteSet(C) /\ IsFiniteSet(T) /\ total > 0
      /\ \A x \in C : claim[x] \in Nat
      /\ total = SumFunctionOnSet(claim, C)
  BY FS_Subset DEF IsClaim
<1>2. total \in Nat
  BY <1>1, SumNat
<1>3. \A x \in T : part[x] \in Nat /\ part[x] \in Int /\ claim[x] \in Int
  BY <1>1 DEF IsWithin
<1>4. \A x \in T : f[x] \in Int /\ g[x] \in Int /\ f[x] <= g[x]
  <2> SUFFICES ASSUME NEW x \in T PROVE f[x] \in Int /\ g[x] \in Int /\ f[x] <= g[x]
    OBVIOUS
  <2>1. total * part[x] <= pool * claim[x]
    BY DEF IsWithin
  <2>2. part[x] \in Int /\ claim[x] \in Int
    BY <1>3
  <2> QED
    BY <1>2, <2>1, <2>2
<1>5. IsMultiple(f, total, part, T) /\ IsMultiple(g, pool, claim, T)
  BY DEF IsMultiple
<1> HIDE DEF f, g
<1>6. SumFunctionOnSet(f, T) = total * SumFunctionOnSet(part, T)
  BY <1>1, <1>2, <1>3, <1>5, SumScaled
<1>7. SumFunctionOnSet(g, T) = pool * SumFunctionOnSet(claim, T)
  BY <1>1, <1>3, <1>5, SumScaled
<1>8. SumFunctionOnSet(f, T) <= SumFunctionOnSet(g, T)
  BY <1>1, <1>4, SumAtMost
<1>9. SumFunctionOnSet(claim, T) <= total /\ SumFunctionOnSet(claim, T) \in Nat
  BY <1>1, SumOfSubset, SumNat
<1>10. SumFunctionOnSet(part, T) \in Nat
  BY <1>1, <1>3, SumNat
<1> DEFINE s == SumFunctionOnSet(part, T)
           c == SumFunctionOnSet(claim, T)
<1>11. total * s <= pool * c /\ c <= total /\ s \in Nat /\ c \in Nat
  BY <1>6, <1>7, <1>8, <1>9, <1>10
<1> HIDE DEF s, c
<1>12. pool * c <= pool * total
  BY <1>2, <1>11
<1>13. s <= pool
  BY <1>1, <1>2, <1>11, <1>12
<1> QED
  BY <1>11, <1>13 DEF s

\* Parts beyond the exact shares use up the pool.
LEMMA PartsBeyond ==
  ASSUME NEW C, NEW claim, NEW total, IsClaim(claim, C, total), NEW pool \in Nat,
         NEW part, IsBeyond(part, pool, claim, total, C)
  PROVE  SumFunctionOnSet(part, C) \in Nat /\ pool <= SumFunctionOnSet(part, C)
<1> DEFINE f == [x \in C |-> total * part[x]]
           g == [x \in C |-> pool * claim[x]]
<1>1. /\ IsFiniteSet(C) /\ total > 0
      /\ \A x \in C : claim[x] \in Nat
      /\ total = SumFunctionOnSet(claim, C)
  BY DEF IsClaim
<1>2. total \in Nat
  BY <1>1, SumNat
<1>3. \A x \in C : part[x] \in Nat /\ part[x] \in Int /\ claim[x] \in Int
  BY <1>1 DEF IsBeyond
<1>4. \A x \in C : f[x] \in Int /\ g[x] \in Int /\ g[x] <= f[x]
  <2> SUFFICES ASSUME NEW x \in C PROVE f[x] \in Int /\ g[x] \in Int /\ g[x] <= f[x]
    OBVIOUS
  <2>1. pool * claim[x] <= total * part[x]
    BY DEF IsBeyond
  <2>2. part[x] \in Int /\ claim[x] \in Int
    BY <1>3
  <2> QED
    BY <1>2, <2>1, <2>2
<1>5. IsMultiple(f, total, part, C) /\ IsMultiple(g, pool, claim, C)
  BY DEF IsMultiple
<1> HIDE DEF f, g
<1>6. SumFunctionOnSet(f, C) = total * SumFunctionOnSet(part, C)
  BY <1>1, <1>2, <1>3, <1>5, SumScaled
<1>7. SumFunctionOnSet(g, C) = pool * SumFunctionOnSet(claim, C)
  BY <1>1, <1>3, <1>5, SumScaled
<1>8. SumFunctionOnSet(g, C) <= SumFunctionOnSet(f, C)
  BY <1>1, <1>4, SumAtMost
<1>9. SumFunctionOnSet(part, C) \in Nat
  BY <1>1, <1>3, SumNat
<1> DEFINE s == SumFunctionOnSet(part, C)
<1>10. pool * total <= total * s /\ s \in Nat
  BY <1>1, <1>6, <1>7, <1>8, <1>9
<1> HIDE DEF s
<1>11. pool <= s
  BY <1>1, <1>2, <1>10
<1> QED
  BY <1>10, <1>11 DEF s

\* A share in whole lots is within one lot below the exact one.
LEMMA ShareOfPool ==
  ASSUME NEW pool \in Nat, NEW claim \in Nat, NEW total \in Nat \ {0}, NEW due,
         due = (pool * claim) \div total
  PROVE  /\ due \in Nat /\ LotFloor(due) \in Lots /\ LotFloor(due) \in Nat /\ LotFloor(due) <= due
         /\ total * due <= pool * claim
         /\ total * LotFloor(due) <= pool * claim
         /\ pool * claim < total * (LotFloor(due) + Lot)
<1> DEFINE n == pool * claim
           share == LotFloor(due)
<1>1. n \in Nat
  OBVIOUS
<1>2. due = n \div total
  OBVIOUS
<1> HIDE DEF n
<1>3. due \in Nat /\ n = total * due + (n % total) /\ n % total \in 0 .. total - 1
  BY <1>1, <1>2, DivMod
<1>4. Lot \in Nat \ {0}
  BY AllocationAssumption
<1>5. share \in Lots /\ share <= due /\ due < share + Lot
  BY <1>3, LotFloorIsLots
<1>6. share \in Nat
  BY <1>5 DEF Lots
<1> HIDE DEF share
<1>7. total * due \in Nat
  BY <1>3
<1>8. total * due <= n /\ n < total * due + total
  BY <1>1, <1>3, <1>7
<1>9. total * share <= total * due
  BY <1>3, <1>5, <1>6
<1>10. total * (due + 1) <= total * (share + Lot)
  <2>1. due + 1 <= share + Lot
    BY <1>3, <1>4, <1>5, <1>6
  <2> QED
    BY <1>3, <1>4, <1>6, <2>1
<1>11. total * (due + 1) = total * due + total
  BY <1>3
<1>12. total * share <= n
  BY <1>1, <1>3, <1>6, <1>7, <1>8, <1>9
<1>13. n < total * (share + Lot)
  BY <1>1, <1>4, <1>6, <1>7, <1>8, <1>10, <1>11
<1> QED
  BY <1>3, <1>5, <1>6, <1>8, <1>12, <1>13 DEF n, share

-------------------------------------------------------------------------------
(* Pro-rata *)

ProRataShares(available, ms) ==
  [i \in DOMAIN ms |-> LotFloor((available * Sizes(ms)[i]) \div Total(Sizes(ms)))]

\* A taker smaller than the level leaves every maker room for an odd lot, and
\* fewer crumbs than there are makers.
LEMMA SharesLeaveRoom ==
  ASSUME NEW ms, IsLevel(ms), NEW available \in Lots, available < Total(Sizes(ms)),
         NEW shares, shares = ProRataShares(available, ms), NEW total, total = Total(Sizes(ms))
  PROVE  /\ total \in Nat \ {0}
         /\ AreShares(shares, ms)
         /\ Total(shares) = SumFunctionOnSet(shares, 1 .. Len(ms)) /\ Total(shares) \in Nat
         /\ available - Total(shares) \in Lots
         /\ available - Total(shares) <= SumFunctionOnSet(Room(shares, ms), 1 .. Len(ms))
         /\ \A i \in 1 .. Len(ms) : /\ HasRoom(shares, ms, i)
                                    /\ total * shares[i] <= available * ms[i].remaining
                                    /\ available * ms[i].remaining < total * (shares[i] + Lot)
<1> DEFINE n == Len(ms)
           S == 1 .. n
           f == Sizes(ms)
           room == Room(shares, ms)
           up == [i \in S |-> shares[i] + room[i]]
<1>1. /\ n \in Nat /\ DOMAIN ms = S /\ IsFiniteSet(S)
      /\ \A i \in S : /\ ms[i].remaining \in Lots /\ ms[i].remaining \in Nat \ {0}
                      /\ f[i] = ms[i].remaining
      /\ total = SumFunctionOnSet(f, S)
  BY LevelSizes
<1>2. Lot \in Nat \ {0} /\ Lot \in Lots /\ available \in Nat /\ \A q \in Lots : q \in Nat
  BY AllocationAssumption DEF Lots
<1>3. total \in Nat \ {0}
  <2>1. \A i \in S : f[i] \in Nat
    BY <1>1
  <2> HIDE DEF f
  <2>2. total \in Nat
    BY <1>1, <2>1, SumNat
  <2> QED
    BY <1>2, <2>2
<1>4. IsClaim(f, S, total)
  BY <1>1, <1>3 DEF IsClaim
<1>5. ASSUME NEW i \in S
      PROVE  /\ shares[i] \in Nat /\ shares[i] \in Lots
             /\ total * shares[i] <= available * f[i]
             /\ available * f[i] < total * (shares[i] + Lot)
  <2> DEFINE due == (available * f[i]) \div total
  <2>1. shares[i] = LotFloor(due)
    BY <1>1 DEF ProRataShares
  <2>2. f[i] \in Nat
    BY <1>1
  <2>3. due = (available * f[i]) \div total
    OBVIOUS
  <2> HIDE DEF due, f
  <2> QED
    BY <1>2, <1>3, <2>1, <2>2, <2>3, ShareOfPool
<1>6. ASSUME NEW i \in S
      PROVE  shares[i] < f[i] /\ shares[i] + Lot <= f[i] /\ HasRoom(shares, ms, i)
  <2>1. /\ shares[i] \in Nat /\ shares[i] \in Lots /\ f[i] \in Nat \ {0} /\ f[i] \in Lots
        /\ total * shares[i] <= available * f[i]
        /\ f[i] = ms[i].remaining
    BY <1>1, <1>5
  <2> HIDE DEF f
  <2>2. available * f[i] < total * f[i]
    BY <1>2, <1>3, <2>1
  <2>3. ~(f[i] <= shares[i])
    <3> SUFFICES ASSUME f[i] <= shares[i] PROVE FALSE
      OBVIOUS
    <3>1. total * f[i] <= total * shares[i]
      BY <1>3, <2>1
    <3> DEFINE a == total * shares[i]
               b == available * f[i]
               c == total * f[i]
    <3>2. a \in Int /\ b \in Int /\ c \in Int /\ a <= b /\ b < c /\ c <= a
      BY <1>2, <1>3, <2>1, <2>2, <3>1
    <3> HIDE DEF a, b, c
    <3> QED
      BY <3>2
  <2>4. shares[i] < f[i]
    BY <2>1, <2>3
  <2>5. shares[i] + Lot <= f[i]
    BY <2>1, <2>4, LotArithmetic
  <2> QED
    BY <1>2, <2>1, <2>4, <2>5 DEF HasRoom
<1>7. AreShares(shares, ms)
  <2>1. shares = [i \in S |-> shares[i]]
    BY <1>1 DEF ProRataShares
  <2>2. \A i \in S : shares[i] \in Nat /\ shares[i] \in Lots /\ shares[i] <= ms[i].remaining
    BY <1>1, <1>5, <1>6
  <2> QED
    BY <2>1, <2>2 DEF AreShares
<1>8. Total(shares) = SumFunctionOnSet(shares, S)
  BY <1>7 DEF Total, SumFunction, AreShares
<1>9. SumFunctionOnSet(shares, S) \in Nat /\ SumFunctionOnSet(shares, S) <= available
  <2>1. IsWithin(shares, available, f, total, S)
    BY <1>5 DEF IsWithin
  <2> HIDE DEF S, f
  <2> QED
    BY <1>2, <1>4, <2>1, PartsWithin
<1>10. SumFunctionOnSet(shares, S) \in Lots
  BY <1>1, <1>5, SumOfLots
<1>11. available - Total(shares) \in Lots
  BY <1>2, <1>8, <1>9, <1>10, LotArithmetic
<1>12. \A i \in S : room[i] = Lot /\ room[i] \in Int /\ shares[i] \in Int /\ up[i] = shares[i] + room[i]
  BY <1>2, <1>5, <1>6 DEF Room
<1> HIDE DEF room, up
<1>13. available <= SumFunctionOnSet(up, S)
  <2>1. IsBeyond(up, available, f, total, S)
    <3> SUFFICES ASSUME NEW i \in S PROVE up[i] \in Nat /\ available * f[i] <= total * up[i]
      BY DEF IsBeyond
    <3>1. up[i] = shares[i] + Lot /\ up[i] \in Nat
      BY <1>2, <1>5, <1>12
    <3>2. available * f[i] < total * (shares[i] + Lot)
      BY <1>5
    <3>3. f[i] \in Nat
      BY <1>1
    <3> HIDE DEF f
    <3>4. available * f[i] \in Int /\ total * (shares[i] + Lot) \in Int
      BY <1>2, <1>3, <1>5, <3>3
    <3> QED
      BY <3>1, <3>2, <3>4
  <2> HIDE DEF S, f
  <2> QED
    BY <1>2, <1>4, <2>1, PartsBeyond
<1>14. SumFunctionOnSet(up, S) = SumFunctionOnSet(shares, S) + SumFunctionOnSet(room, S)
  <2> HIDE DEF S
  <2> QED
    BY <1>1, <1>12, SumAdds
<1>15. SumFunctionOnSet(room, S) \in Int
  <2>1. \A i \in S : room[i] \in Nat
    BY <1>2, <1>12
  <2> HIDE DEF S
  <2> QED
    BY <1>1, <2>1, SumNat
<1>16. available - Total(shares) <= SumFunctionOnSet(room, S)
  BY <1>2, <1>8, <1>9, <1>13, <1>14, <1>15
<1>17. \A i \in S : /\ HasRoom(shares, ms, i)
                    /\ total * shares[i] <= available * ms[i].remaining
                    /\ available * ms[i].remaining < total * (shares[i] + Lot)
  BY <1>1, <1>5, <1>6
<1> QED
  BY <1>3, <1>7, <1>8, <1>9, <1>11, <1>16, <1>17 DEF room

LEMMA ProRataSplits ==
  ASSUME NEW ms, IsLevel(ms), NEW available \in Nat
  PROVE  /\ available >= Total(Sizes(ms)) => ProRataAllocate(available, ms) = Sizes(ms)
         /\ available < Total(Sizes(ms)) =>
              LET shares == ProRataShares(available, ms)
              IN  ProRataAllocate(available, ms) =
                    CrumbSweep(shares, available - Total(shares), ms)
<1>1. Total(Sizes(ms)) \in Nat
  <2>1. /\ IsFiniteSet(1 .. Len(ms)) /\ \A i \in 1 .. Len(ms) : Sizes(ms)[i] \in Nat
        /\ Total(Sizes(ms)) = SumFunctionOnSet(Sizes(ms), 1 .. Len(ms))
    BY LevelSizes
  <2> QED
    BY <2>1, SumNat
<1> QED
  BY <1>1 DEF ProRataAllocate, ProRataShares

\* A taker as large as the level takes all of it.
LEMMA AllHonours ==
  ASSUME NEW ms, IsLevel(ms), NEW available \in Nat, available >= Total(Sizes(ms))
  PROVE  Honours(Sizes(ms), available, ms)
<1> DEFINE f == Sizes(ms)
<1>1. f \in [1 .. Len(ms) -> Nat] /\ \A i \in 1 .. Len(ms) : f[i] \in Lots /\ f[i] <= ms[i].remaining
  <2>1. \A i \in 1 .. Len(ms) : f[i] \in Nat /\ f[i] \in Lots /\ f[i] <= ms[i].remaining
    BY LevelSizes
  <2>2. f = [i \in DOMAIN ms |-> ms[i].remaining] /\ DOMAIN ms = 1 .. Len(ms)
    BY LevelSizes DEF Sizes
  <2> QED
    BY <2>1, <2>2
<1>2. Total(f) \in Nat
  <2>1. IsFiniteSet(1 .. Len(ms)) /\ (\A i \in 1 .. Len(ms) : f[i] \in Nat)
        /\ Total(f) = SumFunctionOnSet(f, 1 .. Len(ms))
    BY LevelSizes
  <2> HIDE DEF f
  <2> QED
    BY <2>1, SumNat
<1> QED
  BY <1>1, <1>2, HonoursWhenSpent

\* Shares and crumbs that make up the taker honour the contract.
LEMMA SweepHonours ==
  ASSUME NEW ms, IsLevel(ms), NEW available \in Nat, NEW shares, AreShares(shares, ms),
         NEW crumbs \in Lots, crumbs <= SumFunctionOnSet(Room(shares, ms), 1 .. Len(ms)),
         SumFunctionOnSet(shares, 1 .. Len(ms)) + crumbs = available
  PROVE  Honours(CrumbSweep(shares, crumbs, ms), available, ms)
<1> DEFINE fills == CrumbSweep(shares, crumbs, ms)
<1>1. /\ fills \in [1 .. Len(ms) -> Nat]
      /\ \A i \in 1 .. Len(ms) : fills[i] <= ms[i].remaining /\ fills[i] \in Lots
      /\ Total(fills) = available
  <2>1. fills = CrumbSweep(shares, crumbs, ms)
    OBVIOUS
  <2> HIDE DEF fills
  <2> QED
    BY <2>1, CrumbsAreSpent
<1> HIDE DEF fills
<1>2. Honours(fills, available, ms)
  BY <1>1, HonoursWhenSpent
<1> QED
  BY <1>2 DEF fills

\* ProRataMatcher honours the contract (allocation.rs:138-250).
THEOREM ProRataHonours ==
  ASSUME NEW ms, IsLevel(ms), NEW available \in Lots
  PROVE  Honours(ProRataAllocate(available, ms), available, ms)
<1>1. available \in Nat
  BY DEF Lots
<1>2. CASE available >= Total(Sizes(ms))
  BY <1>1, <1>2, ProRataSplits, AllHonours
<1>3. CASE ~(available >= Total(Sizes(ms)))
  <2> DEFINE shares == ProRataShares(available, ms)
             crumbs == available - Total(shares)
  <2>1. available < Total(Sizes(ms))
    <3>1. Total(Sizes(ms)) \in Nat
      <4>1. /\ IsFiniteSet(1 .. Len(ms)) /\ \A i \in 1 .. Len(ms) : Sizes(ms)[i] \in Nat
            /\ Total(Sizes(ms)) = SumFunctionOnSet(Sizes(ms), 1 .. Len(ms))
        BY LevelSizes
      <4> QED
        BY <4>1, SumNat
    <3> QED
      BY <1>1, <1>3, <3>1
  <2>2. ProRataAllocate(available, ms) = CrumbSweep(shares, crumbs, ms)
    BY <1>1, <2>1, ProRataSplits
  <2>3. shares = ProRataShares(available, ms)
    OBVIOUS
  <2> HIDE DEF shares
  <2>4. /\ AreShares(shares, ms) /\ crumbs \in Lots
        /\ crumbs <= SumFunctionOnSet(Room(shares, ms), 1 .. Len(ms))
        /\ Total(shares) = SumFunctionOnSet(shares, 1 .. Len(ms)) /\ Total(shares) \in Nat
    BY <2>1, <2>3, SharesLeaveRoom
  <2>5. SumFunctionOnSet(shares, 1 .. Len(ms)) + crumbs = available
    BY <1>1, <2>4
  <2> HIDE DEF crumbs
  <2>6. Honours(CrumbSweep(shares, crumbs, ms), available, ms)
    BY <1>1, <2>4, <2>5, SweepHonours
  <2> QED
    BY <2>2, <2>6
<1> QED
  BY <1>2, <1>3

-------------------------------------------------------------------------------
(* The water-fill *)

\* A sum where some values, all of them 0, are replaced.
IsOverwritten(h, f, S, g, T) == \A x \in S : h[x] = IF x \in T THEN g[x] ELSE f[x]

LEMMA SumOverwritten ==
  ASSUME NEW S, IsFiniteSet(S), NEW f, \A x \in S : f[x] \in Int,
         NEW T \in SUBSET S, \A x \in T : f[x] = 0,
         NEW g, \A x \in T : g[x] \in Int,
         NEW h, IsOverwritten(h, f, S, g, T)
  PROVE  SumFunctionOnSet(h, S) = SumFunctionOnSet(f, S) + SumFunctionOnSet(g, T)
<1> DEFINE U == S \ T
<1>1. IsFiniteSet(T) /\ IsFiniteSet(U) /\ \A x \in U : x \in S /\ x \notin T
  BY FS_Subset
<1>2. \A x \in S : h[x] \in Int
  BY DEF IsOverwritten
<1>3. (\A x \in U : f[x] \in Int /\ h[x] = f[x]) /\ \A x \in T : g[x] \in Int /\ h[x] = g[x]
  BY <1>1 DEF IsOverwritten
<1>4. SumFunctionOnSet(f, S) = SumFunctionOnSet(f, T) + SumFunctionOnSet(f, U)
  BY SumSplit
<1>5. SumFunctionOnSet(h, S) = SumFunctionOnSet(h, T) + SumFunctionOnSet(h, U)
  BY <1>2, SumSplit
<1> HIDE DEF U
<1>6. SumFunctionOnSet(f, T) = 0
  BY <1>1, SumOfZeros
<1>7. SumFunctionOnSet(h, T) = SumFunctionOnSet(g, T)
  BY <1>1, <1>3, SumSame
<1>8. SumFunctionOnSet(h, U) = SumFunctionOnSet(f, U)
  BY <1>1, <1>3, SumSame
<1>9. SumFunctionOnSet(f, U) \in Int /\ SumFunctionOnSet(g, T) \in Int
  BY <1>1, <1>3, SumParts
<1> QED
  BY <1>4, <1>5, <1>6, <1>7, <1>8, <1>9

\* The makers that still want a share.
Contending(fill, ms) == {i \in 1 .. Len(ms) : fill.shares[i] < ms[i].remaining}

\* What the water-fill keeps from pass to pass: shares and pool make up the
\* taker; while it is open every maker has nothing yet or all it asked for, and
\* once closed the pool is small enough for one round of odd lots.
Fills(available, ms) ==
  {fill \in [shares : [1 .. Len(ms) -> Nat], pool : Nat, open : BOOLEAN] :
     /\ AreShares(fill.shares, ms)
     /\ fill.pool \in Lots
     /\ SumFunctionOnSet(fill.shares, 1 .. Len(ms)) + fill.pool = available
     /\ fill.open => \A i \in 1 .. Len(ms) : fill.shares[i] \in {0, ms[i].remaining}
     /\ ~fill.open => fill.pool <= SumFunctionOnSet(Room(fill.shares, ms), 1 .. Len(ms))}

AreWeights(weights, ms) == \A i \in 1 .. Len(ms) : weights[i] \in Nat \ {0}

\* The part of the pool a contending maker is due.
Due(fill, ms, weights) ==
  [i \in Contending(fill, ms) |->
     (fill.pool * weights[i]) \div SumFunctionOnSet(weights, Contending(fill, ms))]

\* Shares handed to makers D that had none.
LEMMA GivenShares ==
  ASSUME NEW ms, IsLevel(ms), NEW available \in Nat, NEW fill \in Fills(available, ms), fill.open,
         NEW D \in SUBSET Contending(fill, ms), NEW given,
         \A i \in D : given[i] \in Lots /\ given[i] <= ms[i].remaining,
         SumFunctionOnSet(given, D) <= fill.pool,
         NEW shares, shares = [i \in 1 .. Len(ms) |-> IF i \in D THEN given[i] ELSE fill.shares[i]]
  PROVE  /\ AreShares(shares, ms)
         /\ SumFunctionOnSet(given, D) \in Nat
         /\ fill.pool - SumFunctionOnSet(given, D) \in Lots
         /\ SumFunctionOnSet(shares, 1 .. Len(ms)) + (fill.pool - SumFunctionOnSet(given, D)) = available
<1> DEFINE S == 1 .. Len(ms)
<1>1. /\ IsFiniteSet(S)
      /\ \A i \in S : ms[i].remaining \in Lots /\ ms[i].remaining \in Nat \ {0}
  BY LevelSizes
<1>2. /\ AreShares(fill.shares, ms) /\ fill.pool \in Lots /\ fill.pool \in Nat
      /\ SumFunctionOnSet(fill.shares, S) + fill.pool = available
      /\ \A i \in S : fill.shares[i] \in {0, ms[i].remaining}
  BY DEF Fills
<1>3. \A i \in S : fill.shares[i] \in Nat /\ fill.shares[i] \in Lots /\ fill.shares[i] <= ms[i].remaining
  BY <1>2 DEF AreShares
<1>4. D \in SUBSET S /\ IsFiniteSet(D) /\ \A i \in D : fill.shares[i] = 0
  <2>1. D \in SUBSET S /\ \A i \in D : fill.shares[i] = 0
    BY <1>1, <1>2, <1>3 DEF Contending
  <2> QED
    BY <1>1, <2>1, FS_Subset
<1>5. \A i \in D : given[i] \in Nat /\ given[i] \in Int
  BY DEF Lots
<1>6. \A i \in S : /\ shares[i] = IF i \in D THEN given[i] ELSE fill.shares[i]
                   /\ shares[i] \in Nat /\ shares[i] \in Lots /\ shares[i] <= ms[i].remaining
  BY <1>3, <1>5
<1>7. AreShares(shares, ms)
  BY <1>6 DEF AreShares
<1>8. SumFunctionOnSet(given, D) \in Lots /\ SumFunctionOnSet(given, D) \in Nat
  <2>1. SumFunctionOnSet(given, D) \in Lots
    BY <1>4, SumOfLots
  <2> QED
    BY <2>1 DEF Lots
<1>9. fill.pool - SumFunctionOnSet(given, D) \in Lots
  BY <1>2, <1>8, LotArithmetic
<1>10. SumFunctionOnSet(shares, S) = SumFunctionOnSet(fill.shares, S) + SumFunctionOnSet(given, D)
  <2> DEFINE before == fill.shares
  <2>1. \A i \in S : before[i] \in Int
    BY <1>3
  <2>2. IsOverwritten(shares, before, S, given, D)
    BY <1>6 DEF IsOverwritten
  <2>3. \A i \in D : before[i] = 0
    BY <1>4
  <2>4. D \in SUBSET S /\ IsFiniteSet(S) /\ \A i \in D : given[i] \in Int
    BY <1>1, <1>4, <1>5
  <2> HIDE DEF S, before
  <2>5. SumFunctionOnSet(shares, S) = SumFunctionOnSet(before, S) + SumFunctionOnSet(given, D)
    BY <2>1, <2>2, <2>3, <2>4, SumOverwritten
  <2> QED
    BY <2>5 DEF before
<1>11. SumFunctionOnSet(fill.shares, S) \in Nat
  <2>1. \A i \in S : fill.shares[i] \in Nat
    BY <1>3
  <2> HIDE DEF S
  <2> QED
    BY <1>1, <2>1, SumNat
<1> QED
  BY <1>2, <1>7, <1>8, <1>9, <1>10, <1>11

\* Those due all they want, those a pass serves, and what it gives them.
Capped(fill, ms, weights) ==
  {i \in Contending(fill, ms) : Due(fill, ms, weights)[i] >= ms[i].remaining}

Served(fill, ms, weights) ==
  IF Capped(fill, ms, weights) # {} THEN Capped(fill, ms, weights) ELSE Contending(fill, ms)

Given(fill, ms, weights) ==
  [i \in Served(fill, ms, weights) |->
     IF Capped(fill, ms, weights) # {} THEN ms[i].remaining ELSE LotFloor(Due(fill, ms, weights)[i])]

SharesAfter(fill, ms, weights) ==
  [i \in 1 .. Len(ms) |->
     IF i \in Served(fill, ms, weights) THEN Given(fill, ms, weights)[i] ELSE fill.shares[i]]

\* An open pass in those terms.
LEMMA PassGives ==
  ASSUME NEW ms, IsLevel(ms), NEW weights, AreWeights(weights, ms), NEW fill, fill.open,
         Contending(fill, ms) # {}
  PROVE  WaterFillPass(fill, ms, weights) =
           [shares |-> SharesAfter(fill, ms, weights),
            pool   |-> fill.pool - SumFunctionOnSet(Given(fill, ms, weights), Served(fill, ms, weights)),
            open   |-> Capped(fill, ms, weights) # {}]
<1> DEFINE C == Contending(fill, ms)
           capped == Capped(fill, ms, weights)
           D == Served(fill, ms, weights)
           given == Given(fill, ms, weights)
           w == [i \in C |-> weights[i]]
           due == [i \in C |-> (fill.pool * weights[i]) \div Total(w)]
<1>1. DOMAIN ms = 1 .. Len(ms) /\ IsFiniteSet(1 .. Len(ms))
  BY LevelSizes
<1>2. C \in SUBSET (1 .. Len(ms)) /\ IsFiniteSet(C)
  <2>1. C \in SUBSET (1 .. Len(ms))
    BY DEF Contending
  <2> QED
    BY <1>1, <2>1, FS_Subset
<1>3. Total(w) = SumFunctionOnSet(weights, C)
  <2>1. DOMAIN w = C /\ \A i \in C : weights[i] \in Int /\ w[i] = weights[i]
    BY <1>2 DEF AreWeights
  <2> HIDE DEF w
  <2>2. SumFunctionOnSet(w, C) = SumFunctionOnSet(weights, C)
    BY <1>2, <2>1, SumSame
  <2> QED
    BY <2>1, <2>2 DEF Total, SumFunction
<1>4. due = Due(fill, ms, weights)
  BY <1>3 DEF Due
<1>5. {i \in DOMAIN ms : fill.shares[i] < ms[i].remaining} = C
  BY <1>1 DEF Contending
<1>6. capped = {i \in C : due[i] >= ms[i].remaining}
  BY <1>4 DEF Capped
<1>7. given = (IF capped # {} THEN [i \in capped |-> ms[i].remaining]
               ELSE [i \in C |-> LotFloor(due[i])])
  <2>1. given = [i \in D |-> IF capped # {} THEN ms[i].remaining ELSE LotFloor(due[i])]
    BY <1>4 DEF Given
  <2>2. D = IF capped # {} THEN capped ELSE C
    BY DEF Served
  <2> HIDE DEF given, D, capped, C, due
  <2> QED
    BY <2>1, <2>2
<1>8. DOMAIN given = D
  BY DEF Given
<1>9. Total(given) = SumFunctionOnSet(given, D)
  BY <1>8 DEF Total, SumFunction
<1> DEFINE K == {i \in DOMAIN ms : fill.shares[i] < ms[i].remaining}
           v == [i \in K |-> weights[i]]
           total == Total(v)
           owed == [i \in K |-> (fill.pool * weights[i]) \div total]
           full == {i \in K : owed[i] >= ms[i].remaining}
           gift == IF full # {} THEN [i \in full |-> ms[i].remaining]
                   ELSE [i \in K |-> LotFloor(owed[i])]
<1>10. WaterFillPass(fill, ms, weights) =
         IF ~fill.open \/ K = {} THEN [fill EXCEPT !.open = FALSE]
         ELSE [shares |-> [i \in DOMAIN ms |-> IF i \in DOMAIN gift THEN gift[i] ELSE fill.shares[i]],
               pool |-> fill.pool - Total(gift), open |-> full # {}]
  BY DEF WaterFillPass
<1>11. K = C /\ v = w
  BY <1>5
<1>12. owed = due
  BY <1>11
<1>13. full = capped
  BY <1>6, <1>11, <1>12
<1>14. gift = given
  <2> HIDE DEF K, owed, full, due
  <2> QED
    BY <1>7, <1>11, <1>12, <1>13
<1>15. SharesAfter(fill, ms, weights) = [i \in 1 .. Len(ms) |-> IF i \in D THEN given[i] ELSE fill.shares[i]]
  BY DEF SharesAfter
<1> HIDE DEF K, full, gift, D, given, capped, C
<1>16. WaterFillPass(fill, ms, weights) =
         [shares |-> SharesAfter(fill, ms, weights),
          pool |-> fill.pool - SumFunctionOnSet(given, D), open |-> capped # {}]
  BY <1>1, <1>8, <1>9, <1>10, <1>11, <1>13, <1>14, <1>15 DEF C
<1> QED
  BY <1>16 DEF D, given, capped

\* While the fill is open somebody contends: the taker is smaller than the level.
LEMMA SomebodyContends ==
  ASSUME NEW ms, IsLevel(ms), NEW available \in Nat, available < Total(Sizes(ms)),
         NEW fill \in Fills(available, ms)
  PROVE  Contending(fill, ms) # {}
<1> DEFINE S == 1 .. Len(ms)
           f == Sizes(ms)
           g == fill.shares
<1> SUFFICES ASSUME Contending(fill, ms) = {} PROVE FALSE
  OBVIOUS
<1>1. /\ IsFiniteSet(S) /\ Total(f) = SumFunctionOnSet(f, S)
      /\ \A i \in S : f[i] = ms[i].remaining /\ ms[i].remaining \in Nat
  BY LevelSizes
<1>2. /\ \A i \in S : g[i] \in Nat /\ g[i] <= ms[i].remaining
      /\ SumFunctionOnSet(g, S) + fill.pool = available /\ fill.pool \in Nat
  BY DEF Fills, AreShares
<1>3. \A i \in S : g[i] \in Nat /\ g[i] \in Int /\ f[i] = g[i]
  BY <1>1, <1>2 DEF Contending
<1> HIDE DEF S, f, g
<1>4. SumFunctionOnSet(f, S) = SumFunctionOnSet(g, S)
  BY <1>1, <1>3, SumSame
<1>5. SumFunctionOnSet(g, S) \in Nat
  BY <1>1, <1>3, SumNat
<1>6. Total(f) <= available
  BY <1>1, <1>2, <1>4, <1>5
<1>7. Total(f) \in Int
  BY <1>1, <1>4, <1>5
<1> QED
  BY <1>6, <1>7 DEF f

\* What the contending makers are due, by their weights.
LEMMA DueParts ==
  ASSUME NEW ms, IsLevel(ms), NEW available \in Nat, available < Total(Sizes(ms)),
         NEW weights, AreWeights(weights, ms), NEW fill \in Fills(available, ms),
         NEW C, C = Contending(fill, ms), NEW total, total = SumFunctionOnSet(weights, C),
         NEW due, due = Due(fill, ms, weights)
  PROVE  /\ C \in SUBSET (1 .. Len(ms)) /\ IsFiniteSet(C)
         /\ total \in Nat \ {0} /\ IsClaim(weights, C, total)
         /\ \A i \in C : /\ due[i] \in Nat /\ LotFloor(due[i]) \in Lots /\ LotFloor(due[i]) \in Nat
                         /\ LotFloor(due[i]) <= due[i]
                         /\ total * due[i] <= fill.pool * weights[i]
                         /\ total * LotFloor(due[i]) <= fill.pool * weights[i]
                         /\ fill.pool * weights[i] < total * (LotFloor(due[i]) + Lot)
<1>1. C \in SUBSET (1 .. Len(ms)) /\ IsFiniteSet(C) /\ C # {}
  <2>1. C \in SUBSET (1 .. Len(ms)) /\ IsFiniteSet(1 .. Len(ms))
    BY LevelSizes DEF Contending
  <2> QED
    BY <2>1, FS_Subset, SomebodyContends
<1>2. \A i \in C : weights[i] \in Nat /\ weights[i] \in Nat \ {0} /\ weights[i] \in Int
  BY <1>1 DEF AreWeights
<1>3. fill.pool \in Nat
  BY DEF Fills
<1>4. total \in Nat \ {0}
  <2>1. PICK x \in C : TRUE
    BY <1>1
  <2>2. total = weights[x] + SumFunctionOnSet(weights, C \ {x})
    BY <1>1, <1>2, SumRemove
  <2>3. SumFunctionOnSet(weights, C \ {x}) \in Nat
    <3> DEFINE T == C \ {x}
    <3>1. IsFiniteSet(T) /\ \A i \in T : weights[i] \in Nat
      BY <1>1, <1>2, FS_Subset
    <3> HIDE DEF T
    <3>2. SumFunctionOnSet(weights, T) \in Nat
      BY <3>1, SumNat
    <3> QED
      BY <3>2 DEF T
  <2> QED
    BY <1>2, <2>1, <2>2, <2>3
<1>5. IsClaim(weights, C, total)
  BY <1>1, <1>2, <1>4 DEF IsClaim
<1>6. ASSUME NEW i \in C
      PROVE  /\ due[i] \in Nat /\ LotFloor(due[i]) \in Lots /\ LotFloor(due[i]) \in Nat
             /\ LotFloor(due[i]) <= due[i]
             /\ total * due[i] <= fill.pool * weights[i]
             /\ total * LotFloor(due[i]) <= fill.pool * weights[i]
             /\ fill.pool * weights[i] < total * (LotFloor(due[i]) + Lot)
  <2> DEFINE d == due[i]
             pool == fill.pool
             claim == weights[i]
  <2>1. d = (pool * claim) \div total
    BY DEF Due
  <2>2. pool \in Nat /\ claim \in Nat
    BY <1>2, <1>3
  <2> HIDE DEF d, pool, claim
  <2>3. /\ d \in Nat /\ LotFloor(d) \in Lots /\ LotFloor(d) \in Nat /\ LotFloor(d) <= d
        /\ total * d <= pool * claim
        /\ total * LotFloor(d) <= pool * claim
        /\ pool * claim < total * (LotFloor(d) + Lot)
    BY <1>4, <2>1, <2>2, ShareOfPool
  <2> QED
    BY <2>3 DEF d, pool, claim
<1> QED
  BY <1>1, <1>4, <1>5, <1>6

\* A pass that caps somebody leaves the fill open for fewer makers; one that
\* caps nobody closes it with less than a lot per contending maker in the pool.
LEMMA PassKeeps ==
  ASSUME NEW ms, IsLevel(ms), NEW available \in Nat, available < Total(Sizes(ms)),
         NEW weights, AreWeights(weights, ms), NEW fill \in Fills(available, ms),
         NEW next, next = WaterFillPass(fill, ms, weights)
  PROVE  /\ next \in Fills(available, ms)
         /\ next.open => /\ fill.open
                         /\ Contending(next, ms) \in SUBSET Contending(fill, ms)
                         /\ Contending(next, ms) # Contending(fill, ms)
<1> DEFINE S == 1 .. Len(ms)
           C == Contending(fill, ms)
           total == SumFunctionOnSet(weights, C)
           due == Due(fill, ms, weights)
           capped == Capped(fill, ms, weights)
           D == Served(fill, ms, weights)
           given == Given(fill, ms, weights)
           shares == SharesAfter(fill, ms, weights)
           handed == SumFunctionOnSet(given, D)
<1>1. CASE ~fill.open
  <2>1. next = [fill EXCEPT !.open = FALSE]
    BY <1>1 DEF WaterFillPass
  <2>2. next = fill
    BY <1>1, <2>1 DEF Fills
  <2> QED
    BY <1>1, <2>2
<1>2. CASE fill.open
  <2>1. /\ IsFiniteSet(S)
        /\ \A i \in S : ms[i].remaining \in Lots /\ ms[i].remaining \in Nat \ {0}
    BY LevelSizes
  <2>2. /\ AreShares(fill.shares, ms) /\ fill.pool \in Nat
        /\ \A i \in S : fill.shares[i] \in {0, ms[i].remaining}
    BY <1>2 DEF Fills
  <2>3. /\ C \in SUBSET S /\ IsFiniteSet(C) /\ C # {}
        /\ total \in Nat \ {0} /\ IsClaim(weights, C, total)
        /\ \A i \in C : /\ due[i] \in Nat /\ LotFloor(due[i]) \in Lots /\ LotFloor(due[i]) \in Nat
                        /\ LotFloor(due[i]) <= due[i]
                        /\ total * due[i] <= fill.pool * weights[i]
                        /\ total * LotFloor(due[i]) <= fill.pool * weights[i]
                        /\ fill.pool * weights[i] < total * (LotFloor(due[i]) + Lot)
    BY DueParts, SomebodyContends
  <2>4. next = [shares |-> shares, pool |-> fill.pool - handed, open |-> capped # {}]
    BY <1>2, <2>3, PassGives
  <2>4x. next.open <=> capped # {}
    <3> HIDE DEF shares, handed, capped
    <3> DEFINE isOpen == capped # {}
    <3>1. next = [shares |-> shares, pool |-> fill.pool - handed, open |-> isOpen]
      BY <2>4
    <3> HIDE DEF isOpen
    <3>2. next.open = isOpen
      BY <3>1
    <3> QED
      BY <3>2 DEF isOpen
  <2>5. \A i \in C : weights[i] \in Nat \ {0}
    BY <2>3 DEF AreWeights
  <2>6. /\ capped = {i \in C : due[i] >= ms[i].remaining}
        /\ D = (IF capped # {} THEN capped ELSE C)
        /\ D \in SUBSET C
        /\ given = [i \in D |-> IF capped # {} THEN ms[i].remaining ELSE LotFloor(due[i])]
        /\ shares = [i \in 1 .. Len(ms) |-> IF i \in D THEN given[i] ELSE fill.shares[i]]
    BY DEF Capped, Served, Given, SharesAfter
  <2>7. \A i \in D : /\ given[i] \in Lots /\ given[i] \in Nat /\ given[i] <= ms[i].remaining
                     /\ total * given[i] <= fill.pool * weights[i]
    <3> SUFFICES ASSUME NEW i \in D
                 PROVE  /\ given[i] \in Lots /\ given[i] \in Nat /\ given[i] <= ms[i].remaining
                        /\ total * given[i] <= fill.pool * weights[i]
      OBVIOUS
    <3>1. CASE capped # {}
      <4>1. i \in C /\ given[i] = ms[i].remaining /\ given[i] <= due[i]
        BY <2>1, <2>3, <2>6, <3>1
      <4>2. given[i] \in Lots /\ given[i] \in Nat
        BY <2>1, <2>3, <4>1
      <4> DEFINE g == given[i]
                 d == due[i]
                 w == weights[i]
      <4>3. total \in Nat /\ g \in Nat /\ d \in Nat /\ g <= d /\ w \in Nat /\ fill.pool \in Nat
            /\ total * d <= fill.pool * w
        BY <2>2, <2>3, <2>5, <4>1, <4>2
      <4> HIDE DEF g, d, w, total
      <4>4. total * g <= total * d
        BY <4>3
      <4>5. total * g <= fill.pool * w
        <5> DEFINE a == total * g
                   b == total * d
                   c == fill.pool * w
        <5>1. a \in Int /\ b \in Int /\ c \in Int /\ a <= b /\ b <= c
          BY <4>3, <4>4
        <5> HIDE DEF a, b, c
        <5>2. a <= c
          BY <5>1
        <5> QED
          BY <5>2 DEF a, c
      <4> QED
        BY <4>1, <4>2, <4>5 DEF g, w
    <3>2. CASE capped = {}
      <4>1. i \in C /\ given[i] = LotFloor(due[i])
        BY <2>6, <3>2
      <4>2. /\ LotFloor(due[i]) \in Lots /\ LotFloor(due[i]) \in Nat
            /\ LotFloor(due[i]) <= due[i] /\ due[i] \in Nat
            /\ total * LotFloor(due[i]) <= fill.pool * weights[i]
        BY <2>3, <4>1
      <4>3. due[i] < ms[i].remaining
        BY <2>1, <2>3, <2>6, <3>2, <4>1, <4>2
      <4>4. LotFloor(due[i]) <= ms[i].remaining
        BY <2>1, <2>3, <4>1, <4>2, <4>3
      <4> QED
        BY <4>1, <4>2, <4>4
    <3> QED
      BY <3>1, <3>2
  <2>8. handed \in Nat /\ handed <= fill.pool
    <3>1. IsWithin(given, fill.pool, weights, total, D)
      BY <2>7 DEF IsWithin
    <3> HIDE DEF C, D, total
    <3> QED
      BY <2>2, <2>3, <2>6, <3>1, PartsWithin
  <2>9. /\ AreShares(shares, ms) /\ fill.pool - handed \in Lots
        /\ SumFunctionOnSet(shares, S) + (fill.pool - handed) = available
    <3>1. \A i \in D : given[i] \in Lots /\ given[i] <= ms[i].remaining
      BY <2>7
    <3>2. D \in SUBSET Contending(fill, ms) /\ SumFunctionOnSet(given, D) <= fill.pool
      BY <2>6, <2>8
    <3>3. shares = [i \in 1 .. Len(ms) |-> IF i \in D THEN given[i] ELSE fill.shares[i]]
      BY <2>6
    <3> HIDE DEF D, shares, given
    <3> QED
      BY <1>2, <3>1, <3>2, <3>3, GivenShares
  <2>10. next.open => /\ \A i \in S : shares[i] \in {0, ms[i].remaining}
                      /\ Contending(next, ms) \in SUBSET C
                      /\ Contending(next, ms) # C
    <3> SUFFICES ASSUME capped # {}
                 PROVE  /\ \A i \in S : shares[i] \in {0, ms[i].remaining}
                        /\ Contending(next, ms) \in SUBSET C
                        /\ Contending(next, ms) # C
      BY <2>4x
    <3>1. \A i \in D : given[i] = ms[i].remaining
      BY <2>6
    <3>2. \A i \in S : shares[i] = IF i \in D THEN ms[i].remaining ELSE fill.shares[i]
      BY <2>6, <3>1
    <3>3. PICK x \in D : TRUE
      BY <2>6
    <3>4. next.shares = shares
      BY <2>4
    <3>5. Contending(next, ms) = C \ D
      <4> HIDE DEF D, shares
      <4>1. ASSUME NEW i \in S PROVE next.shares[i] < ms[i].remaining <=> i \in C /\ i \notin D
        <5>1. i \in C <=> fill.shares[i] < ms[i].remaining
          BY DEF Contending
        <5>2. i \in D => shares[i] = ms[i].remaining
          BY <3>2
        <5>3. i \notin D => shares[i] = fill.shares[i]
          BY <3>2
        <5> QED
          BY <2>1, <3>4, <5>1, <5>2, <5>3
      <4>2. Contending(next, ms) = {i \in S : next.shares[i] < ms[i].remaining}
        BY DEF Contending
      <4> HIDE DEF C
      <4> QED
        BY <2>3, <4>1, <4>2
    <3> QED
      BY <2>2, <2>6, <3>2, <3>3, <3>5
  <2>11. ~next.open => fill.pool - handed <= SumFunctionOnSet(Room(shares, ms), S)
    <3> SUFFICES ASSUME capped = {}
                 PROVE  fill.pool - handed <= SumFunctionOnSet(Room(shares, ms), S)
      BY <2>4x
    <3> DEFINE room == Room(shares, ms)
               up == [i \in C |-> given[i] + room[i]]
    <3>1. D = C /\ Lot \in Nat \ {0} /\ Lot \in Lots
      BY <2>6, AllocationAssumption DEF Lots
    <3>2. \A i \in C : shares[i] = given[i] /\ given[i] = LotFloor(due[i])
      BY <2>3, <2>6, <3>1
    <3>3. \A i \in C : room[i] = Lot
      <4> SUFFICES ASSUME NEW i \in C PROVE room[i] = Lot
        OBVIOUS
      <4>1. /\ given[i] \in Lots /\ given[i] \in Nat /\ given[i] <= due[i] /\ due[i] \in Nat
            /\ i \in S /\ ms[i].remaining \in Lots /\ ms[i].remaining \in Nat
        BY <2>1, <2>3, <2>7, <3>1, <3>2
      <4>2. given[i] < ms[i].remaining
        <5>1. ~(due[i] >= ms[i].remaining)
          BY <2>6
        <5> QED
          BY <4>1, <5>1
      <4>3. given[i] + Lot <= ms[i].remaining
        BY <4>1, <4>2, LotArithmetic
      <4>4. HasRoom(shares, ms, i)
        BY <3>1, <3>2, <4>1, <4>3 DEF HasRoom
      <4> QED
        BY <4>1, <4>4 DEF Room
    <3>4. \A i \in S : room[i] \in Nat
      BY <3>1 DEF Room
    <3> HIDE DEF shares, room
    <3>5. \A i \in C : /\ up[i] \in Nat /\ up[i] = given[i] + Lot
                       /\ given[i] \in Int /\ room[i] \in Int /\ up[i] = given[i] + room[i]
      BY <2>7, <3>1, <3>3
    <3> HIDE DEF up
    <3>6. fill.pool <= SumFunctionOnSet(up, C)
      <4>1. IsBeyond(up, fill.pool, weights, total, C)
        <5> SUFFICES ASSUME NEW i \in C
                     PROVE  up[i] \in Nat /\ fill.pool * weights[i] <= total * up[i]
          BY DEF IsBeyond
        <5>1. up[i] \in Nat /\ up[i] = LotFloor(due[i]) + Lot
          BY <3>2, <3>5
        <5>2. fill.pool * weights[i] < total * up[i]
          BY <2>3, <5>1
        <5>3. fill.pool * weights[i] \in Int /\ total * up[i] \in Int
          BY SMTT(30), <2>2, <2>3, <2>5, <5>1
        <5> QED
          BY <5>1, <5>2, <5>3
      <4> HIDE DEF C, total
      <4> QED
        BY <2>2, <2>3, <4>1, PartsBeyond
    <3>7. SumFunctionOnSet(up, C) = SumFunctionOnSet(given, C) + SumFunctionOnSet(room, C)
      <4> HIDE DEF C
      <4> QED
        BY <2>3, <3>5, SumAdds
    <3>8. SumFunctionOnSet(room, C) <= SumFunctionOnSet(room, S)
      <4> HIDE DEF C, S
      <4> QED
        BY <2>1, <2>3, <3>4, SumOfSubset
    <3>9. SumFunctionOnSet(room, C) \in Nat /\ SumFunctionOnSet(room, S) \in Nat
      <4>1. \A i \in C : room[i] \in Nat
        BY <2>3, <3>4
      <4> HIDE DEF C, S
      <4> QED
        BY <2>1, <2>3, <3>4, <4>1, SumNat
    <3>10. handed = SumFunctionOnSet(given, C)
      BY <3>1
    <3> HIDE DEF handed
    <3>11. fill.pool - handed <= SumFunctionOnSet(room, S)
      BY <2>2, <2>8, <3>6, <3>7, <3>8, <3>9, <3>10
    <3> QED
      BY <3>11 DEF room
  <2> HIDE DEF shares, handed
  <2>12. fill.pool - handed \in Nat
    BY <2>2, <2>8
  <2>13. next \in [shares : [1 .. Len(ms) -> Nat], pool : Nat, open : BOOLEAN]
    BY <2>4, <2>9, <2>12 DEF AreShares
  <2>14. next.shares = shares /\ next.pool = fill.pool - handed
    BY <2>4
  <2>15. next \in Fills(available, ms)
    BY <2>9, <2>10, <2>11, <2>13, <2>14 DEF Fills
  <2> QED
    BY <1>2, <2>10, <2>15
<1> QED
  BY <1>1, <1>2

NothingFilled(available, ms) ==
  [shares |-> [i \in DOMAIN ms |-> 0], pool |-> available, open |-> TRUE]

\* The fill after one pass per maker and one more.
WaterFill(available, ms, weights) ==
  LET pass[n \in 0 .. Len(ms) + 1] ==
        IF n = 0 THEN NothingFilled(available, ms) ELSE WaterFillPass(pass[n-1], ms, weights)
  IN  pass[Len(ms) + 1]

LEMMA NothingFilledIsFill ==
  ASSUME NEW ms, IsLevel(ms), NEW available \in Lots
  PROVE  NothingFilled(available, ms) \in Fills(available, ms)
<1> DEFINE S == 1 .. Len(ms)
           zeros == [i \in S |-> 0]
           fill == NothingFilled(available, ms)
<1>1. /\ IsFiniteSet(S) /\ DOMAIN ms = S
      /\ \A i \in S : ms[i].remaining \in Nat
  BY LevelSizes
<1>2. available \in Nat /\ 0 \in Lots
  BY AllocationAssumption DEF Lots
<1>3. fill = [shares |-> zeros, pool |-> available, open |-> TRUE]
  BY <1>1 DEF NothingFilled
<1>4. \A i \in S : zeros[i] = 0
  OBVIOUS
<1>5. zeros \in [S -> Nat]
  OBVIOUS
<1> HIDE DEF zeros, fill
<1>6. SumFunctionOnSet(zeros, S) = 0
  <2> HIDE DEF S
  <2> QED
    BY <1>1, <1>4, SumOfZeros
<1>7. AreShares(zeros, ms)
  BY <1>1, <1>2, <1>4, <1>5 DEF AreShares
<1>8. fill.shares = zeros /\ fill.pool = available /\ fill.open = TRUE
  BY <1>3
<1>9. fill \in [shares : [1 .. Len(ms) -> Nat], pool : Nat, open : BOOLEAN]
  BY <1>2, <1>3, <1>5
<1>10. fill \in Fills(available, ms)
  BY <1>2, <1>4, <1>6, <1>7, <1>8, <1>9 DEF Fills
<1> QED
  BY <1>10 DEF fill

\* The fill before and after each pass.
WaterFillRuns(available, ms, weights) ==
  {run \in [0 .. Len(ms) + 1 -> Fills(available, ms)] :
     /\ run[0] = NothingFilled(available, ms)
     /\ \A i \in 1 .. Len(ms) + 1 : run[i] = WaterFillPass(run[i-1], ms, weights)}

LEMMA WaterFillRun ==
  ASSUME NEW ms, IsLevel(ms), NEW available \in Lots, available < Total(Sizes(ms)),
         NEW weights, AreWeights(weights, ms)
  PROVE  \E run \in WaterFillRuns(available, ms, weights) :
           WaterFill(available, ms, weights) = run[Len(ms) + 1]
<1> DEFINE n == Len(ms) + 1
           V == Fills(available, ms)
           start == NothingFilled(available, ms)
           Pass(v) == WaterFillPass(v, ms, weights)
           Value(g, i) == IF i = 0 THEN start ELSE Pass(g[i-1])
           step == [i \in 1 .. n |-> [v \in V |-> Pass(v)]]
           IsRun(g) == g = [i \in 0 .. n |-> Value(g, i)]
           run == CHOOSE g : IsRun(g)
<1>1. n \in Nat /\ Len(ms) \in Nat /\ IsFiniteSet(1 .. Len(ms))
  BY LevelSizes
<1>2. available \in Nat
  BY DEF Lots
<1>3. start \in V
  BY NothingFilledIsFill
<1>4. ASSUME NEW v \in V
      PROVE  Pass(v) \in V
  BY <1>2, PassKeeps
<1>5. WaterFill(available, ms, weights) = run[n]
  BY DEF WaterFill
<1> HIDE DEF Pass, V, start
<1>6. IsStepwise(n, V, start, step)
  BY <1>1, <1>3, <1>4 DEF IsStepwise
<1>7. PICK g \in Recursions(n, V, start, step) : TRUE
  <2> HIDE DEF step
  <2> QED
    BY <1>6, RecursionExists
<1>8. IsRun(g)
  <2>1. g \in [0 .. n -> V] /\ g[0] = start
    BY <1>7 DEF Recursions
  <2>2. ASSUME NEW i \in 1 .. n PROVE g[i] = Pass(g[i-1])
    <3>1. g[i] = step[i][g[i-1]]
      BY <1>7 DEF Recursions
    <3>2. i - 1 \in 0 .. n
      BY <1>1
    <3> QED
      BY <2>1, <3>1, <3>2
  <2>3. \A i \in 0 .. n : g[i] = Value(g, i)
    BY <1>1, <2>1, <2>2
  <2> HIDE DEF Value
  <2> QED
    BY <2>1, <2>3
<1>9. IsRun(run)
  <2> HIDE DEF IsRun
  <2> QED
    BY <1>8
<1>10. run = [i \in 0 .. n |-> run[i]] /\ run[0] = start /\ \A i \in 1 .. n : run[i] = Pass(run[i-1])
  <2> HIDE DEF run
  <2>1. run = [i \in 0 .. n |-> run[i]] /\ \A i \in 0 .. n : run[i] = Value(run, i)
    <3> HIDE DEF Value
    <3> QED
      BY <1>9
  <2>2. 0 \in 0 .. n /\ \A i \in 1 .. n : i \in 0 .. n /\ i # 0
    BY <1>1
  <2> QED
    BY <2>1, <2>2
<1>11. run \in [0 .. n -> V]
  <2>1. \A i \in 1 .. n : run[i-1] \in V => run[i] = step[i][run[i-1]]
    <3> HIDE DEF run
    <3> QED
      BY <1>10
  <2> HIDE DEF run, step
  <2>2. run \in Recursions(n, V, start, step)
    BY <1>6, <1>10, <2>1, StepwiseIsRecursion
  <2> QED
    BY <2>2 DEF Recursions
<1>12. run \in WaterFillRuns(available, ms, weights)
  <2> HIDE DEF run
  <2> QED
    BY <1>10, <1>11 DEF WaterFillRuns, Pass, V, start
<1> HIDE DEF run
<1> QED
  BY <1>5, <1>12

\* Every pass but the last caps a maker, so the fill closes within its passes.
LEMMA WaterFillCloses ==
  ASSUME NEW ms, IsLevel(ms), NEW available \in Lots, available < Total(Sizes(ms)),
         NEW weights, AreWeights(weights, ms)
  PROVE  /\ WaterFill(available, ms, weights) \in Fills(available, ms)
         /\ ~WaterFill(available, ms, weights).open
<1> DEFINE n == Len(ms) + 1
           V == Fills(available, ms)
           Pass(v) == WaterFillPass(v, ms, weights)
<1>1. n \in Nat /\ Len(ms) \in Nat /\ IsFiniteSet(1 .. Len(ms))
  BY LevelSizes
<1>2. available \in Nat
  BY DEF Lots
<1>4. ASSUME NEW v \in V
      PROVE  /\ Pass(v) \in V
             /\ Pass(v).open => /\ v.open
                                /\ Contending(Pass(v), ms) \in SUBSET Contending(v, ms)
                                /\ Contending(Pass(v), ms) # Contending(v, ms)
  BY <1>2, PassKeeps
<1>5. PICK run \in WaterFillRuns(available, ms, weights) : WaterFill(available, ms, weights) = run[n]
  BY WaterFillRun
<1>10. \A i \in 1 .. n : run[i] = Pass(run[i-1])
  BY DEF WaterFillRuns
<1>11. run \in [0 .. n -> V]
  BY DEF WaterFillRuns
<1> HIDE DEF Pass, V
<1> DEFINE K(i) == Cardinality(Contending(run[i], ms))
           G == {i \in 0 .. n : run[i].open => K(i) + i <= Len(ms)}
<1>12. ASSUME NEW i \in 0 .. n
       PROVE  /\ Contending(run[i], ms) \in SUBSET (1 .. Len(ms))
              /\ IsFiniteSet(Contending(run[i], ms)) /\ K(i) \in Nat /\ K(i) <= Len(ms) /\ K(i) # 0
  <2>1. Contending(run[i], ms) \in SUBSET (1 .. Len(ms))
    BY DEF Contending
  <2>2. run[i] \in Fills(available, ms)
    BY <1>11 DEF V
  <2>3. Contending(run[i], ms) # {}
    BY <1>2, <2>2, SomebodyContends
  <2>4. Cardinality(1 .. Len(ms)) = Len(ms)
    <3> DEFINE m == Len(ms)
    <3>1. m \in Nat
      BY <1>1
    <3> HIDE DEF m
    <3>2. Cardinality(1 .. m) = m
      BY <3>1, FS_Interval
    <3> QED
      BY <3>2 DEF m
  <2> QED
    BY <1>1, <2>1, <2>3, <2>4, FS_Subset, FS_CardinalityType, FS_EmptySet
<1>13. 0 \in G
  BY <1>1, <1>12
<1>14. ASSUME NEW i \in 0 .. n - 1, i \in G PROVE i + 1 \in G
  <2> DEFINE before == Contending(run[i], ms)
             after == Contending(run[i+1], ms)
  <2>1. i \in 0 .. n /\ i + 1 \in 0 .. n /\ i + 1 \in 1 .. n /\ (i + 1) - 1 = i
    BY <1>1
  <2>2. run[i+1] = Pass(run[i]) /\ run[i] \in V
    BY <1>10, <1>11, <2>1
  <2>3. ASSUME run[i+1].open PROVE K(i + 1) + (i + 1) <= Len(ms)
    <3>1. run[i].open /\ after \in SUBSET before /\ after # before
      BY <1>4, <2>2, <2>3
    <3>2. IsFiniteSet(before) /\ K(i) \in Nat /\ K(i + 1) \in Nat
      BY <1>12, <2>1
    <3>3. K(i) = Cardinality(before) /\ K(i + 1) = Cardinality(after)
      OBVIOUS
    <3>4. K(i) + i <= Len(ms)
      BY <1>14, <3>1
    <3> HIDE DEF K, before, after
    <3>5. K(i + 1) < K(i)
      BY <3>1, <3>2, <3>3, FS_Subset
    <3> QED
      BY <1>1, <3>2, <3>4, <3>5
  <2> QED
    BY <2>1, <2>3
<1>15. n \in G
  <2> HIDE DEF G
  <2>1. \A i \in 0 .. n : i \in G
    BY <1>1, <1>13, <1>14, UpTo
  <2> QED
    BY <1>1, <2>1
<1>16. ~run[n].open
  BY <1>1, <1>12, <1>15
<1> QED
  BY <1>1, <1>5, <1>11, <1>16 DEF V

\* A closed fill and its odd lots honour the contract.
LEMMA WaterFillHonours ==
  ASSUME NEW ms, IsLevel(ms), NEW available \in Lots, available < Total(Sizes(ms)),
         NEW weights, AreWeights(weights, ms),
         NEW fill, fill = WaterFill(available, ms, weights)
  PROVE  Honours(CrumbSweep(fill.shares, fill.pool, ms), available, ms)
<1>1. fill \in Fills(available, ms) /\ ~fill.open
  BY WaterFillCloses
<1>2. /\ AreShares(fill.shares, ms) /\ fill.pool \in Lots
      /\ fill.pool <= SumFunctionOnSet(Room(fill.shares, ms), 1 .. Len(ms))
      /\ SumFunctionOnSet(fill.shares, 1 .. Len(ms)) + fill.pool = available
      /\ available \in Nat
  BY <1>1 DEF Fills, Lots
<1> QED
  BY <1>2, SweepHonours

-------------------------------------------------------------------------------
(* Weights *)

LEMMA PowerOfTwo ==
  ASSUME NEW n \in Nat
  PROVE  2 ^ n \in Nat \ {0}
<1> DEFINE S == 1 .. n
<1>1. IsFiniteSet(S) /\ Cardinality(S) = n
  BY FS_Interval
<1>2. Cardinality(SUBSET S) = 2 ^ n /\ IsFiniteSet(SUBSET S)
  BY <1>1, FS_SUBSET
<1>3. Cardinality(SUBSET S) \in Nat
  BY <1>2, FS_CardinalityType
<1>4. Cardinality(SUBSET S) # 0
  <2>1. SUBSET S # {}
    OBVIOUS
  <2> QED
    BY <1>2, <2>1, FS_EmptySet
<1> QED
  BY <1>2, <1>3, <1>4

\* The bits a weight has beyond a word of `bits' bits.
Excess(weight, bits) ==
  IF weight < 2 ^ bits THEN 0
  ELSE CHOOSE n \in 1 .. bits : 2 ^ (bits + n - 1) <= weight /\ weight < 2 ^ (bits + n)

LEMMA ExcessIsNat ==
  ASSUME NEW bits \in Nat, NEW weight \in Nat, weight < 2 ^ (bits + bits)
  PROVE  Excess(weight, bits) \in Nat
<1>1. CASE weight < 2 ^ bits
  BY <1>1 DEF Excess
<1>2. CASE ~(weight < 2 ^ bits)
  <2> DEFINE fits == {n \in Nat : weight < 2 ^ (bits + n)}
  <2>1. bits \in fits
    OBVIOUS
  <2>2. PICK n \in fits : \A m \in fits : n <= m
    <3>1. fits \in SUBSET Nat /\ fits # {}
      BY <2>1
    <3> HIDE DEF fits
    <3> QED
      BY <3>1, LeastExists
  <2>3. n # 0
    <3>1. bits + 0 = bits
      OBVIOUS
    <3> QED
      BY <1>2, <2>2, <3>1
  <2>4. n \in 1 .. bits
    BY <2>1, <2>2, <2>3
  <2>5. n - 1 \notin fits /\ n - 1 \in Nat
    BY <2>2, <2>4
  <2>6. ~(weight < 2 ^ (bits + n - 1))
    <3>1. bits + (n - 1) = bits + n - 1
      BY <2>4
    <3> QED
      BY <2>5, <3>1
  <2>7. 2 ^ (bits + n - 1) \in Nat
    <3>1. bits + n - 1 \in Nat
      BY <2>4
    <3> DEFINE k == bits + n - 1
    <3> HIDE DEF k
    <3>2. 2 ^ k \in Nat
      BY <3>1, PowerOfTwo DEF k
    <3> QED
      BY <3>2 DEF k
  <2>8. 2 ^ (bits + n - 1) <= weight /\ weight < 2 ^ (bits + n)
    BY <2>2, <2>6, <2>7
  <2> HIDE DEF fits
  <2>9. Excess(weight, bits) \in 1 .. bits
    BY <1>2, <2>4, <2>8 DEF Excess
  <2> QED
    BY <2>9
<1> QED
  BY <1>1, <1>2

LEMMA AgeIsBounded ==
  ASSUME NEW ms, IsLevel(ms), NEW i \in 1 .. Len(ms), NEW at \in Nat
  PROVE  AgeTicks(ms[i], at) \in 1 .. MaxAge
<1>1. ms[i].arrival \in Nat /\ MaxAge \in Nat \ {0} /\ Tick \in Nat \ {0}
  BY LevelSizes, AllocationAssumption
<1>2. Larger(at - ms[i].arrival, 0) \in Nat
  BY <1>1 DEF Larger
<1>3. Larger(at - ms[i].arrival, 0) \div Tick \in Nat
  BY <1>1, <1>2, DivMod
<1> QED
  BY <1>1, <1>3 DEF AgeTicks, Larger, Smaller

\* Who came first has the greater age.
LEMMA AgesRank ==
  ASSUME NEW ms, IsLevel(ms), NEW i \in 1 .. Len(ms), NEW j \in 1 .. Len(ms), NEW at \in Nat,
         ms[i].arrival <= ms[j].arrival
  PROVE  AgeTicks(ms[j], at) <= AgeTicks(ms[i], at)
<1> DEFINE rested(k) == Larger(at - ms[k].arrival, 0)
           ticks(k) == rested(k) \div Tick
<1>1. /\ ms[i].arrival \in Nat /\ ms[j].arrival \in Nat
      /\ MaxAge \in Nat \ {0} /\ Tick \in Nat \ {0}
  BY LevelSizes, AllocationAssumption
<1>2. rested(i) \in Nat /\ rested(j) \in Nat /\ rested(j) <= rested(i)
  BY <1>1 DEF Larger
<1>3. /\ AgeTicks(ms[i], at) = Smaller(Larger(ticks(i), 1), MaxAge)
      /\ AgeTicks(ms[j], at) = Smaller(Larger(ticks(j), 1), MaxAge)
  BY DEF AgeTicks
<1> HIDE DEF rested
<1>4. ticks(i) \in Nat /\ ticks(j) \in Nat /\ ticks(j) <= ticks(i)
  BY <1>1, <1>2, DivMod, DivMonotone
<1> HIDE DEF ticks
<1> QED
  BY <1>1, <1>3, <1>4 DEF Smaller, Larger

\* Raw weights shifted so that the largest fits a word of `bits' bits.
Shifted(raw, bits) ==
  LET largest == CHOOSE w \in Range(raw) : \A v \in Range(raw) : v <= w
  IN  [i \in DOMAIN raw |-> Larger(raw[i] \div 2 ^ Excess(largest, bits), 1)]

\* One and the same shift for every weight.
LEMMA ShiftIsShared ==
  ASSUME NEW n \in Nat, NEW bits \in Nat, NEW raw \in [1 .. n -> Nat],
         \A i \in 1 .. n : raw[i] < 2 ^ (bits + bits), n # 0
  PROVE  \E shift \in Nat \ {0} :
           \A i \in 1 .. n : Shifted(raw, bits)[i] = Larger(raw[i] \div shift, 1)
<1> DEFINE largest == CHOOSE w \in Range(raw) : \A v \in Range(raw) : v <= w
           shift == 2 ^ Excess(largest, bits)
<1>1. Range(raw) \in SUBSET Nat /\ Range(raw) # {} /\ IsFiniteSet(Range(raw))
  <2>1. Range(raw) = {raw[k] : k \in 1 .. n}
    BY DEF Range
  <2>2. IsFiniteSet({raw[k] : k \in 1 .. n})
    <3>1. IsFiniteSet(1 .. n)
      BY FS_Interval
    <3>2. raw \in Surjection(1 .. n, {raw[k] : k \in 1 .. n})
      BY DEF Surjection
    <3> QED
      BY <3>1, <3>2, FS_Surjection
  <2> QED
    BY <2>1, <2>2
<1>2. largest \in Range(raw)
  <2>1. \E w \in Range(raw) : \A v \in Range(raw) : v <= w
    BY <1>1, GreatestExists
  <2> QED
    BY <2>1
<1>3. largest \in Nat /\ largest < 2 ^ (bits + bits)
  BY <1>1, <1>2 DEF Range
<1>4. \A i \in 1 .. n : Shifted(raw, bits)[i] = Larger(raw[i] \div shift, 1)
  BY DEF Shifted
<1> HIDE DEF largest
<1>5. shift \in Nat \ {0}
  <2> DEFINE k == Excess(largest, bits)
  <2>1. k \in Nat
    BY <1>3, ExcessIsNat
  <2> HIDE DEF k
  <2>2. 2 ^ k \in Nat \ {0}
    BY <2>1, PowerOfTwo
  <2> QED
    BY <2>2 DEF k
<1> HIDE DEF shift
<1> QED
  BY <1>4, <1>5

\* It leaves every weight a claim, and their order as it was.
LEMMA ShiftKeepsRank ==
  ASSUME NEW n \in Nat, NEW bits \in Nat, NEW raw \in [1 .. n -> Nat],
         \A i \in 1 .. n : raw[i] < 2 ^ (bits + bits)
  PROVE  /\ \A i \in 1 .. n : Shifted(raw, bits)[i] \in Nat \ {0}
         /\ \A i, j \in 1 .. n : raw[j] <= raw[i] => Shifted(raw, bits)[j] <= Shifted(raw, bits)[i]
<1>1. CASE n = 0
  BY <1>1
<1>2. CASE n # 0
  <2>1. PICK shift \in Nat \ {0} :
               \A i \in 1 .. n : Shifted(raw, bits)[i] = Larger(raw[i] \div shift, 1)
    BY <1>2, ShiftIsShared
  <2>2. \A i \in 1 .. n : raw[i] \in Nat /\ raw[i] \div shift \in Nat
    BY <2>1, DivMod
  <2>3. \A i, j \in 1 .. n : raw[j] <= raw[i] => raw[j] \div shift <= raw[i] \div shift
    BY <2>1, <2>2, DivMonotone
  <2>4. \A q \in Nat : Larger(q, 1) \in Nat \ {0}
    BY DEF Larger
  <2>5. \A p, q \in Nat : p <= q => Larger(p, 1) <= Larger(q, 1)
    BY DEF Larger
  <2> DEFINE part == [i \in 1 .. n |-> raw[i] \div shift]
  <2>6. /\ \A i \in 1 .. n : part[i] \in Nat /\ Shifted(raw, bits)[i] = Larger(part[i], 1)
        /\ \A i, j \in 1 .. n : raw[j] <= raw[i] => part[j] <= part[i]
    BY <2>1, <2>2, <2>3
  <2> HIDE DEF part
  <2> QED
    BY <2>4, <2>5, <2>6
<1> QED
  BY <1>1, <1>2

\* Sizes whose weights fit two words of `bits' bits, as sizes and ages of one
\* word each do (allocation.rs:367-368).
FitsWords(ms, bits) == \A i \in 1 .. Len(ms) : ms[i].remaining * MaxAge < 2 ^ (bits + bits)

LEMMA RawWeights ==
  ASSUME NEW ms, IsLevel(ms), NEW bits \in Nat, FitsWords(ms, bits),
         NEW age, \A i \in 1 .. Len(ms) : age[i] \in 1 .. MaxAge,
         NEW raw, raw = [i \in DOMAIN ms |-> ms[i].remaining * age[i]]
  PROVE  /\ AreWeights(Shifted(raw, bits), ms)
         /\ \A i, j \in 1 .. Len(ms) :
              ms[i].remaining = ms[j].remaining /\ age[j] <= age[i]
                => Shifted(raw, bits)[j] <= Shifted(raw, bits)[i]
<1>1. /\ Len(ms) \in Nat /\ DOMAIN ms = 1 .. Len(ms)
      /\ \A i \in 1 .. Len(ms) : ms[i].remaining \in Nat
  BY LevelSizes
<1>2. MaxAge \in Nat
  BY AllocationAssumption
<1>3. \A i \in 1 .. Len(ms) : raw[i] \in Nat /\ raw[i] < 2 ^ (bits + bits)
  <2> SUFFICES ASSUME NEW i \in 1 .. Len(ms) PROVE raw[i] \in Nat /\ raw[i] < 2 ^ (bits + bits)
    OBVIOUS
  <2> DEFINE q == ms[i].remaining
             a == age[i]
             bound == 2 ^ (bits + bits)
  <2>1. raw[i] = q * a
    BY <1>1
  <2>2. q \in Nat /\ a \in 1 .. MaxAge
    BY <1>1
  <2>3. q * MaxAge < bound
    BY DEF FitsWords
  <2>4. bound \in Int
    <3> DEFINE k == bits + bits
    <3>1. k \in Nat
      OBVIOUS
    <3> HIDE DEF k
    <3>2. 2 ^ k \in Nat
      BY <3>1, PowerOfTwo
    <3> QED
      BY <3>2 DEF k
  <2> HIDE DEF q, a, bound
  <2>5. q * a \in Nat /\ q * a <= q * MaxAge
    BY <1>2, <2>2
  <2>6. q * a < bound
    <3> DEFINE p == q * a
               r == q * MaxAge
    <3>1. p \in Int /\ r \in Int /\ p <= r /\ r < bound
      BY <1>2, <2>2, <2>3, <2>5
    <3> HIDE DEF p, r
    <3>2. p < bound
      BY <2>4, <3>1
    <3> QED
      BY <3>2 DEF p
  <2> QED
    BY <2>1, <2>5, <2>6 DEF bound
<1>4. raw \in [1 .. Len(ms) -> Nat]
  BY <1>1, <1>3
<1>5. /\ \A i \in 1 .. Len(ms) : Shifted(raw, bits)[i] \in Nat \ {0}
      /\ \A i, j \in 1 .. Len(ms) : raw[j] <= raw[i] => Shifted(raw, bits)[j] <= Shifted(raw, bits)[i]
  <2> HIDE DEF Shifted
  <2> QED
    BY <1>1, <1>3, <1>4, ShiftKeepsRank
<1>6. ASSUME NEW i \in 1 .. Len(ms), NEW j \in 1 .. Len(ms),
             ms[i].remaining = ms[j].remaining, age[j] <= age[i]
      PROVE  raw[j] <= raw[i]
  <2> DEFINE q == ms[i].remaining
             a == age[i]
             b == age[j]
  <2>1. raw[i] = q * a /\ raw[j] = q * b
    BY <1>1, <1>6
  <2>2. q \in Nat /\ a \in Nat /\ b \in Nat /\ b <= a
    BY <1>1, <1>2, <1>6
  <2> HIDE DEF q, a, b
  <2>3. \A k, m, c \in Nat : k <= m => c * k <= c * m
    OBVIOUS
  <2> QED
    BY <2>1, <2>2, <2>3
<1> QED
  BY <1>5, <1>6 DEF AreWeights

\* Every maker has a claim, and of two of one size the older the greater.
LEMMA WeightsRank ==
  ASSUME NEW ms, IsLevel(ms), FitsWords(ms, WordBits), NEW at \in Nat
  PROVE  /\ AreWeights(Weights(ms, at), ms)
         /\ \A i, j \in 1 .. Len(ms) :
              ms[i].remaining = ms[j].remaining /\ ms[i].arrival <= ms[j].arrival
                => Weights(ms, at)[j] <= Weights(ms, at)[i]
<1> DEFINE age == [i \in DOMAIN ms |-> AgeTicks(ms[i], at)]
           raw == [i \in DOMAIN ms |-> ms[i].remaining * AgeTicks(ms[i], at)]
           largest == CHOOSE w \in Range(raw) : \A v \in Range(raw) : v <= w
<1>1. Weights(ms, at) = [i \in DOMAIN ms |-> Larger(raw[i] \div 2 ^ ExcessBits(largest), 1)]
  BY DEF Weights
<1>2. ExcessBits(largest) = Excess(largest, WordBits)
  BY DEF ExcessBits, Excess
<1>3. DOMAIN raw = DOMAIN ms
  OBVIOUS
<1>4. Weights(ms, at) = Shifted(raw, WordBits)
  <2>1. Shifted(raw, WordBits) = [i \in DOMAIN raw |-> Larger(raw[i] \div 2 ^ Excess(largest, WordBits), 1)]
    BY DEF Shifted
  <2> HIDE DEF raw, largest
  <2> QED
    BY <1>1, <1>2, <1>3, <2>1
<1>5. \A i \in 1 .. Len(ms) : age[i] \in 1 .. MaxAge
  BY LevelSizes, AgeIsBounded
<1>6. raw = [i \in DOMAIN ms |-> ms[i].remaining * age[i]]
  OBVIOUS
<1>7. WordBits \in Nat
  BY AllocationAssumption
<1>8. \A i, j \in 1 .. Len(ms) : ms[i].arrival <= ms[j].arrival => age[j] <= age[i]
  BY LevelSizes, AgesRank
<1> HIDE DEF age, raw
<1>9. /\ AreWeights(Shifted(raw, WordBits), ms)
      /\ \A i, j \in 1 .. Len(ms) :
           ms[i].remaining = ms[j].remaining /\ age[j] <= age[i]
             => Shifted(raw, WordBits)[j] <= Shifted(raw, WordBits)[i]
  BY <1>5, <1>6, <1>7, RawWeights
<1> QED
  BY <1>4, <1>8, <1>9

LEMMA LevelTotal ==
  ASSUME NEW ms, IsLevel(ms)
  PROVE  Total(Sizes(ms)) \in Nat
<1>1. /\ IsFiniteSet(1 .. Len(ms)) /\ \A i \in 1 .. Len(ms) : Sizes(ms)[i] \in Nat
      /\ Total(Sizes(ms)) = SumFunctionOnSet(Sizes(ms), 1 .. Len(ms))
  BY LevelSizes
<1> QED
  BY <1>1, SumNat

LEMMA TimeProRataSplits ==
  ASSUME NEW ms, IsLevel(ms), NEW available \in Nat, NEW at
  PROVE  /\ available >= Total(Sizes(ms)) => TimeProRataAllocate(available, ms, at) = Sizes(ms)
         /\ available < Total(Sizes(ms)) =>
              LET fill == WaterFill(available, ms, Weights(ms, at))
              IN  TimeProRataAllocate(available, ms, at) = CrumbSweep(fill.shares, fill.pool, ms)
<1>1. Total(Sizes(ms)) \in Nat
  BY LevelTotal
<1> QED
  BY <1>1 DEF TimeProRataAllocate, WaterFill, NothingFilled

\* TimeProRataMatcher honours the contract (allocation.rs:252-511), whatever the
\* ages and whatever the shift does to the weights.
THEOREM TimeProRataHonours ==
  ASSUME NEW ms, IsLevel(ms), FitsWords(ms, WordBits), NEW available \in Lots, NEW at \in Nat
  PROVE  Honours(TimeProRataAllocate(available, ms, at), available, ms)
<1> DEFINE weights == Weights(ms, at)
           fill == WaterFill(available, ms, weights)
<1>1. available \in Nat /\ Total(Sizes(ms)) \in Nat
  BY LevelTotal DEF Lots
<1>2. CASE available >= Total(Sizes(ms))
  BY <1>1, <1>2, TimeProRataSplits, AllHonours
<1>3. CASE available < Total(Sizes(ms))
  <2>1. TimeProRataAllocate(available, ms, at) = CrumbSweep(fill.shares, fill.pool, ms)
    BY <1>1, <1>3, TimeProRataSplits
  <2>2. AreWeights(weights, ms)
    BY WeightsRank
  <2>3. fill = WaterFill(available, ms, weights)
    OBVIOUS
  <2> HIDE DEF weights, fill
  <2>4. Honours(CrumbSweep(fill.shares, fill.pool, ms), available, ms)
    BY <1>3, <2>2, <2>3, WaterFillHonours
  <2> QED
    BY <2>1, <2>4
<1> QED
  BY <1>1, <1>2, <1>3

LEMMA SqueezedTotal == ASSUME NEW f PROVE Squeezed!Total(f) = Total(f)
BY Zenon DEF Squeezed!Total, Squeezed!SumFunction, Squeezed!SumFunctionOnSet, Squeezed!FoldFunctionOnSet,
   Squeezed!MapThenFoldSet, Total, SumFunction, SumFunctionOnSet, FoldFunctionOnSet, MapThenFoldSet

LEMMA SqueezedSweep ==
  ASSUME NEW shares, NEW crumbs, NEW ms
  PROVE  Squeezed!CrumbSweep(shares, crumbs, ms) = CrumbSweep(shares, crumbs, ms)
BY Zenon DEF Squeezed!CrumbSweep, CrumbSweep

SqueezedFill(available, ms, weights) ==
  LET pass[n \in 0 .. Len(ms) + 1] ==
        IF n = 0 THEN NothingFilled(available, ms)
        ELSE Squeezed!WaterFillPass(pass[n-1], ms, weights)
  IN  pass[Len(ms) + 1]

LEMMA SqueezedFills ==
  ASSUME NEW available, NEW ms, NEW weights
  PROVE  SqueezedFill(available, ms, weights) = WaterFill(available, ms, weights)
BY Zenon DEF SqueezedFill, WaterFill, Squeezed!WaterFillPass, WaterFillPass, Squeezed!LotFloor, LotFloor,
   Squeezed!Total, Squeezed!SumFunction, Squeezed!SumFunctionOnSet, Squeezed!FoldFunctionOnSet,
   Squeezed!MapThenFoldSet, Total, SumFunction, SumFunctionOnSet, FoldFunctionOnSet, MapThenFoldSet

\* The squeezed instance differs in its weights alone.
LEMMA SqueezedSplits ==
  ASSUME NEW ms, IsLevel(ms), NEW available \in Nat, NEW at
  PROVE  /\ available >= Total(Sizes(ms)) => Squeezed!TimeProRataAllocate(available, ms, at) = Sizes(ms)
         /\ available < Total(Sizes(ms)) =>
              LET fill == WaterFill(available, ms, Squeezed!Weights(ms, at))
              IN  Squeezed!TimeProRataAllocate(available, ms, at) =
                    CrumbSweep(fill.shares, fill.pool, ms)
<1>1. Total(Sizes(ms)) \in Nat
  BY LevelTotal
<1>2. Squeezed!Total(Squeezed!Sizes(ms)) = Total(Sizes(ms)) /\ Squeezed!Sizes(ms) = Sizes(ms)
  BY SqueezedTotal DEF Squeezed!Sizes, Sizes
<1>3. \A shares, crumbs : Squeezed!CrumbSweep(shares, crumbs, ms) = CrumbSweep(shares, crumbs, ms)
  BY SqueezedSweep
<1>4. \A weights : SqueezedFill(available, ms, weights) = WaterFill(available, ms, weights)
  BY SqueezedFills
<1>5. CASE available >= Total(Sizes(ms))
  BY <1>1, <1>2, <1>5 DEF Squeezed!TimeProRataAllocate
<1>6. CASE available < Total(Sizes(ms))
  <2> DEFINE fill == SqueezedFill(available, ms, Squeezed!Weights(ms, at))
  <2>1. Squeezed!TimeProRataAllocate(available, ms, at) = Squeezed!CrumbSweep(fill.shares, fill.pool, ms)
    BY <1>1, <1>2, <1>6 DEF Squeezed!TimeProRataAllocate, SqueezedFill, NothingFilled
  <2>2. fill = WaterFill(available, ms, Squeezed!Weights(ms, at))
    BY <1>4
  <2> HIDE DEF fill
  <2> QED
    BY <1>1, <1>3, <1>6, <2>1, <2>2
<1> QED
  BY <1>1, <1>5, <1>6

LEMMA SqueezedWeightsRank ==
  ASSUME NEW ms, IsLevel(ms), FitsWords(ms, 3), NEW at \in Nat
  PROVE  /\ AreWeights(Squeezed!Weights(ms, at), ms)
         /\ \A i, j \in 1 .. Len(ms) :
              ms[i].remaining = ms[j].remaining /\ ms[i].arrival <= ms[j].arrival
                => Squeezed!Weights(ms, at)[j] <= Squeezed!Weights(ms, at)[i]
<1> DEFINE age == [i \in DOMAIN ms |-> Squeezed!AgeTicks(ms[i], at)]
           raw == [i \in DOMAIN ms |-> ms[i].remaining * Squeezed!AgeTicks(ms[i], at)]
           largest == CHOOSE w \in Range(raw) : \A v \in Range(raw) : v <= w
<1>1. Squeezed!Weights(ms, at) =
        [i \in DOMAIN ms |-> Larger(raw[i] \div 2 ^ Squeezed!ExcessBits(largest), 1)]
  BY Zenon DEF Squeezed!Weights, Squeezed!Larger, Larger, Squeezed!Range, Range
<1>2. Squeezed!ExcessBits(largest) = Excess(largest, 3)
  BY DEF Squeezed!ExcessBits, Excess
<1>3. DOMAIN raw = DOMAIN ms
  OBVIOUS
<1>4. Squeezed!Weights(ms, at) = Shifted(raw, 3)
  <2>1. Shifted(raw, 3) = [i \in DOMAIN raw |-> Larger(raw[i] \div 2 ^ Excess(largest, 3), 1)]
    BY DEF Shifted
  <2> HIDE DEF raw, largest
  <2> QED
    BY <1>1, <1>2, <1>3, <2>1
<1>5. \A i \in 1 .. Len(ms) : age[i] \in 1 .. MaxAge
  <2> SUFFICES ASSUME NEW i \in 1 .. Len(ms) PROVE age[i] \in 1 .. MaxAge
    OBVIOUS
  <2>1. ms[i].arrival \in Nat /\ MaxAge \in Nat \ {0} /\ DOMAIN ms = 1 .. Len(ms)
    BY LevelSizes, AllocationAssumption
  <2> DEFINE elapsed == Squeezed!Larger(at - ms[i].arrival, 0)
  <2>2. elapsed \in Nat
    BY <2>1 DEF Squeezed!Larger
  <2> HIDE DEF elapsed
  <2>3. elapsed \div 2 \in Nat
    BY <2>2, DivMod
  <2>4. Squeezed!AgeTicks(ms[i], at) = Squeezed!Smaller(Squeezed!Larger(elapsed \div 2, 1), MaxAge)
    BY DEF Squeezed!AgeTicks, elapsed
  <2> QED
    BY <2>1, <2>3, <2>4 DEF Squeezed!Larger, Squeezed!Smaller
<1>6. raw = [i \in DOMAIN ms |-> ms[i].remaining * age[i]]
  OBVIOUS
<1>7. ASSUME NEW i \in 1 .. Len(ms), NEW j \in 1 .. Len(ms), ms[i].arrival <= ms[j].arrival
      PROVE  age[j] <= age[i]
  <2> DEFINE rested(k) == Squeezed!Larger(at - ms[k].arrival, 0)
             ticks(k) == rested(k) \div 2
  <2>1. /\ ms[i].arrival \in Nat /\ ms[j].arrival \in Nat /\ MaxAge \in Nat \ {0}
        /\ DOMAIN ms = 1 .. Len(ms)
    BY LevelSizes, AllocationAssumption
  <2>2. rested(i) \in Nat /\ rested(j) \in Nat /\ rested(j) <= rested(i)
    BY <1>7, <2>1 DEF Squeezed!Larger
  <2>3. /\ age[i] = Squeezed!Smaller(Squeezed!Larger(ticks(i), 1), MaxAge)
        /\ age[j] = Squeezed!Smaller(Squeezed!Larger(ticks(j), 1), MaxAge)
    <3>1. age[i] = Squeezed!AgeTicks(ms[i], at) /\ age[j] = Squeezed!AgeTicks(ms[j], at)
      BY <2>1
    <3>2. /\ Squeezed!AgeTicks(ms[i], at) = Squeezed!Smaller(Squeezed!Larger(ticks(i), 1), MaxAge)
          /\ Squeezed!AgeTicks(ms[j], at) = Squeezed!Smaller(Squeezed!Larger(ticks(j), 1), MaxAge)
      BY DEF Squeezed!AgeTicks
    <3> HIDE DEF age, ticks
    <3> QED
      BY <3>1, <3>2
  <2> HIDE DEF rested
  <2>4. ticks(i) \in Nat /\ ticks(j) \in Nat /\ ticks(j) <= ticks(i)
    <3> DEFINE m == rested(j)
               n == rested(i)
               two == 2
    <3>1. m \in Nat /\ n \in Nat /\ m <= n /\ two \in Nat \ {0}
      BY <2>2
    <3> HIDE DEF m, n, two
    <3>2. m \div two \in Nat /\ n \div two \in Nat /\ m \div two <= n \div two
      BY <3>1, DivMod, DivMonotone
    <3> QED
      BY <3>2 DEF m, n, two
  <2> HIDE DEF ticks, age
  <2> QED
    BY <2>1, <2>3, <2>4 DEF Squeezed!Smaller, Squeezed!Larger
<1> HIDE DEF age, raw
<1>8. /\ AreWeights(Shifted(raw, 3), ms)
      /\ \A i, j \in 1 .. Len(ms) :
           ms[i].remaining = ms[j].remaining /\ age[j] <= age[i]
             => Shifted(raw, 3)[j] <= Shifted(raw, 3)[i]
  BY <1>5, <1>6, RawWeights
<1> QED
  BY <1>4, <1>7, <1>8

LEMMA SqueezedHonours ==
  ASSUME NEW ms, IsLevel(ms), FitsWords(ms, 3), NEW available \in Lots, NEW at \in Nat
  PROVE  Honours(Squeezed!TimeProRataAllocate(available, ms, at), available, ms)
<1> DEFINE weights == Squeezed!Weights(ms, at)
           fill == WaterFill(available, ms, weights)
<1>1. available \in Nat /\ Total(Sizes(ms)) \in Nat
  BY LevelTotal DEF Lots
<1>2. CASE available >= Total(Sizes(ms))
  BY <1>1, <1>2, SqueezedSplits, AllHonours
<1>3. CASE available < Total(Sizes(ms))
  <2>1. Squeezed!TimeProRataAllocate(available, ms, at) = CrumbSweep(fill.shares, fill.pool, ms)
    BY <1>1, <1>3, SqueezedSplits
  <2>2. AreWeights(weights, ms)
    BY SqueezedWeightsRank
  <2>3. fill = WaterFill(available, ms, weights)
    OBVIOUS
  <2> HIDE DEF weights, fill
  <2>4. Honours(CrumbSweep(fill.shares, fill.pool, ms), available, ms)
    BY <1>3, <2>2, <2>3, WaterFillHonours
  <2> QED
    BY <2>1, <2>4
<1> QED
  BY <1>1, <1>2, <1>3

-------------------------------------------------------------------------------
(* The makers that stay at a level *)

\* Live keeps the makers with something left, in their order.
LEMMA LiveSelects ==
  ASSUME NEW M, NEW ms \in Seq(M)
  PROVE  /\ Live(ms) \in Seq(M)
         /\ \A i \in 1 .. Len(Live(ms)) :
              \E p \in 1 .. Len(ms) : Live(ms)[i] = ms[p] /\ ms[p].remaining > 0
         /\ \A i, j \in 1 .. Len(Live(ms)) : i < j =>
              \E p, q \in 1 .. Len(ms) : p < q /\ Live(ms)[i] = ms[p] /\ Live(ms)[j] = ms[q]
<1> DEFINE n == Len(ms)
           Keep(i, v) == IF ms[i].remaining > 0 THEN Append(v, ms[i]) ELSE v
           Value(g, i) == IF i = 0 THEN <<>> ELSE Keep(i, g[i-1])
           step == [i \in 1 .. n |-> [v \in Seq(M) |-> Keep(i, v)]]
           IsRun(g) == g = [i \in 0 .. n |-> Value(g, i)]
           live == CHOOSE g : IsRun(g)
<1>1. n \in Nat /\ \A i \in 1 .. n : ms[i] \in M
  BY LenProperties, ElementOfSeq
<1>2. \A i \in 1 .. n, v \in Seq(M) : Keep(i, v) \in Seq(M)
  BY <1>1, AppendProperties
<1>3. Live(ms) = live[n]
  BY DEF Live
<1> HIDE DEF Keep
<1>4. IsStepwise(n, Seq(M), <<>>, step)
  BY <1>1, <1>2 DEF IsStepwise
<1>5. PICK g \in Recursions(n, Seq(M), <<>>, step) : TRUE
  <2> HIDE DEF step
  <2> QED
    BY <1>4, RecursionExists
<1>6. IsRun(g)
  <2>1. g \in [0 .. n -> Seq(M)] /\ g[0] = <<>>
    BY <1>5 DEF Recursions
  <2>2. ASSUME NEW i \in 1 .. n PROVE g[i] = Keep(i, g[i-1])
    <3>1. g[i] = step[i][g[i-1]]
      BY <1>5 DEF Recursions
    <3>2. i - 1 \in 0 .. n
      BY <1>1
    <3> QED
      BY <2>1, <3>1, <3>2
  <2>3. \A i \in 0 .. n : g[i] = Value(g, i)
    BY <1>1, <2>1, <2>2
  <2> HIDE DEF Value
  <2> QED
    BY <2>1, <2>3
<1>7. IsRun(live)
  <2> HIDE DEF IsRun
  <2> QED
    BY <1>6
<1>8. live = [i \in 0 .. n |-> live[i]] /\ live[0] = <<>> /\ \A i \in 1 .. n : live[i] = Keep(i, live[i-1])
  <2> HIDE DEF live
  <2>1. live = [i \in 0 .. n |-> live[i]] /\ \A i \in 0 .. n : live[i] = Value(live, i)
    <3> HIDE DEF Value
    <3> QED
      BY <1>7
  <2>2. 0 \in 0 .. n /\ \A i \in 1 .. n : i \in 0 .. n /\ i # 0
    BY <1>1
  <2> QED
    BY <2>1, <2>2
<1>9. live \in [0 .. n -> Seq(M)]
  <2>1. \A i \in 1 .. n : live[i-1] \in Seq(M) => live[i] = step[i][live[i-1]]
    <3> HIDE DEF live
    <3> QED
      BY <1>8
  <2> HIDE DEF live, step
  <2>2. live \in Recursions(n, Seq(M), <<>>, step)
    BY <1>4, <1>8, <2>1, StepwiseIsRecursion
  <2> QED
    BY <2>2 DEF Recursions
<1> HIDE DEF live
<1> DEFINE From(i, k, p) == p \in 1 .. k /\ live[k][i] = ms[p] /\ ms[p].remaining > 0
           G == {k \in 0 .. n :
                   /\ \A i \in 1 .. Len(live[k]) : \E p : From(i, k, p)
                   /\ \A i, j \in 1 .. Len(live[k]) : i < j =>
                        \E p, q : p < q /\ From(i, k, p) /\ From(j, k, q)}
<1>10. 0 \in G
  BY <1>1, <1>8, EmptySeq
<1>11. ASSUME NEW k \in 0 .. n - 1, k \in G PROVE k + 1 \in G
  <2>1. k + 1 \in 1 .. n /\ k + 1 \in 0 .. n /\ k \in 0 .. n /\ (k + 1) - 1 = k
    BY <1>1
  <2> DEFINE old == live[k]
             new == live[k+1]
             maker == ms[k+1]
  <2>2. old \in Seq(M) /\ maker \in M /\ new = IF maker.remaining > 0 THEN Append(old, maker) ELSE old
    BY <1>1, <1>8, <1>9, <2>1 DEF Keep
  <2>3. /\ \A i \in 1 .. Len(old) : \E p : From(i, k, p)
        /\ \A i, j \in 1 .. Len(old) : i < j => \E p, q : p < q /\ From(i, k, p) /\ From(j, k, q)
    BY <1>11
  <2>4. CASE maker.remaining > 0
    <3>1. Len(new) = Len(old) + 1 /\ Len(old) \in Nat /\ new[Len(old) + 1] = maker
          /\ \A i \in 1 .. Len(old) : new[i] = old[i]
      BY <2>2, <2>4, AppendProperties, LenProperties
    <3>2. \A i \in 1 .. Len(old) : \A p : From(i, k, p) => From(i, k + 1, p) /\ p < k + 1
      BY <2>1, <3>1
    <3>3. From(Len(old) + 1, k + 1, k + 1)
      BY <2>1, <2>4, <3>1
    <3> HIDE DEF From, old, new
    <3>4. \A i \in 1 .. Len(new) : \E p : From(i, k + 1, p)
      BY <2>3, <3>1, <3>2, <3>3
    <3>5. ASSUME NEW i \in 1 .. Len(new), NEW j \in 1 .. Len(new), i < j
          PROVE  \E p, q : p < q /\ From(i, k + 1, p) /\ From(j, k + 1, q)
      <4>1. i \in 1 .. Len(old)
        BY <3>1, <3>5
      <4>2. CASE j \in 1 .. Len(old)
        BY <2>3, <3>2, <3>5, <4>1, <4>2
      <4>3. CASE j = Len(old) + 1
        <5>1. PICK p : From(i, k, p)
          BY <2>3, <4>1
        <5>2. p < k + 1 /\ From(i, k + 1, p)
          BY <3>2, <4>1, <5>1
        <5> QED
          BY <3>3, <4>3, <5>2
      <4> QED
        BY <3>1, <4>2, <4>3
    <3> QED
      BY <2>1, <3>4, <3>5 DEF new
  <2>5. CASE ~(maker.remaining > 0)
    <3>1. new = old
      BY <2>2, <2>5
    <3>2. \A i, p : From(i, k, p) => From(i, k + 1, p)
      BY <2>1, <3>1
    <3> HIDE DEF From, old, new
    <3>3. \A i \in 1 .. Len(new) : \E p : From(i, k + 1, p)
      BY <2>3, <3>1, <3>2
    <3>4. \A i, j \in 1 .. Len(new) : i < j => \E p, q : p < q /\ From(i, k + 1, p) /\ From(j, k + 1, q)
      BY <2>3, <3>1, <3>2
    <3> QED
      BY <2>1, <3>3, <3>4 DEF new
  <2> QED
    BY <2>4, <2>5
<1>12. n \in G
  <2> HIDE DEF G
  <2>1. \A k \in 0 .. n : k \in G
    BY <1>1, <1>10, <1>11, UpTo
  <2> QED
    BY <1>1, <2>1
<1>13. /\ \A i \in 1 .. Len(live[n]) : \E p \in 1 .. n : live[n][i] = ms[p] /\ ms[p].remaining > 0
       /\ \A i, j \in 1 .. Len(live[n]) : i < j =>
            \E p, q \in 1 .. n : p < q /\ live[n][i] = ms[p] /\ live[n][j] = ms[q]
  <2>1. \A i \in 1 .. Len(live[n]) : \E p : From(i, n, p)
    <3> HIDE DEF From
    <3> QED
      BY <1>12
  <2>2. \A i, j \in 1 .. Len(live[n]) : i < j => \E p, q : p < q /\ From(i, n, p) /\ From(j, n, q)
    <3> HIDE DEF From
    <3> QED
      BY <1>12
  <2>3. ASSUME NEW i \in 1 .. Len(live[n])
        PROVE  \E p \in 1 .. n : live[n][i] = ms[p] /\ ms[p].remaining > 0
    BY <2>1
  <2>4. ASSUME NEW i \in 1 .. Len(live[n]), NEW j \in 1 .. Len(live[n]), i < j
        PROVE  \E p, q \in 1 .. n : p < q /\ live[n][i] = ms[p] /\ live[n][j] = ms[q]
    <3>1. PICK p, q : p < q /\ From(i, n, p) /\ From(j, n, q)
      <4> HIDE DEF From
      <4> QED
        BY <2>2, <2>4
    <3>2. p \in 1 .. n /\ q \in 1 .. n /\ live[n][i] = ms[p] /\ live[n][j] = ms[q]
      BY <3>1
    <3> QED
      BY <3>1, <3>2
  <2> HIDE DEF From
  <2> QED
    BY <2>3, <2>4
<1>14. live[n] \in Seq(M)
  BY <1>1, <1>9
<1> QED
  BY <1>3, <1>13, <1>14

-------------------------------------------------------------------------------
(* The level along a behaviour *)

\* The inductive invariant: live makers of whole lots within the bound, oldest
\* first, all of them arrived before now.
LevelInv ==
  /\ IsLevel(makers) /\ now \in Nat
  /\ \A i \in 1 .. Len(makers) :
       makers[i].remaining <= MaxLots * Lot /\ makers[i].arrival < now
  /\ \A i, j \in 1 .. Len(makers) : i < j => makers[i].arrival < makers[j].arrival

\* The weights of such a level fit, whether or not they are squeezed.
LEMMA LevelFits ==
  ASSUME LevelInv
  PROVE  FitsWords(makers, WordBits) /\ FitsWords(makers, 3)
<1> DEFINE most == MaxLots * Lot
<1>1. most \in Nat /\ MaxAge \in Nat
  BY LevelAssumption, AllocationAssumption
<1>2. most * MaxAge < 2 ^ (WordBits + WordBits) /\ most * MaxAge < 2 ^ (3 + 3)
  BY LevelAssumption
<1> DEFINE weight(i) == makers[i].remaining * MaxAge
           bound == most * MaxAge
<1>3. ASSUME NEW i \in 1 .. Len(makers) PROVE weight(i) \in Nat /\ weight(i) <= bound
  <2>1. makers[i].remaining \in Nat /\ makers[i].remaining <= most
    BY LevelSizes DEF LevelInv
  <2> HIDE DEF most
  <2>2. \A a, b, c \in Nat : a <= b => a * c \in Nat /\ a * c <= b * c
    OBVIOUS
  <2> QED
    BY <1>1, <2>1, <2>2
<1>4. bound \in Nat
  <2> HIDE DEF most
  <2> QED
    BY <1>1
<1>5. 2 ^ (WordBits + WordBits) \in Nat /\ 2 ^ (3 + 3) \in Nat
  <2>1. WordBits + WordBits \in Nat /\ 3 + 3 \in Nat
    BY AllocationAssumption
  <2> QED
    BY <2>1, PowerOfTwo
<1> DEFINE wide == 2 ^ (WordBits + WordBits)
           narrow == 2 ^ (3 + 3)
<1>6. /\ wide \in Nat /\ narrow \in Nat /\ bound < wide /\ bound < narrow
      /\ FitsWords(makers, WordBits) <=> (\A i \in 1 .. Len(makers) : weight(i) < wide)
      /\ FitsWords(makers, 3) <=> (\A i \in 1 .. Len(makers) : weight(i) < narrow)
  BY <1>2, <1>5 DEF FitsWords
<1> HIDE DEF wide, narrow, weight, bound
<1> QED
  BY <1>3, <1>4, <1>6

LEMMA TakersAreLots ==
  ASSUME NEW available \in Takers
  PROVE  available \in Lots /\ available \in Nat
<1>1. PICK lots \in 1 .. MaxTaker : available = lots * Lot
  BY DEF Takers
<1>2. lots \in Nat /\ lots * Lot = Lot * lots
  BY <1>1, LevelAssumption, AllocationAssumption
<1>3. Lot * lots \in Lots
  BY <1>2, MultiplesAreLots
<1> QED
  BY <1>1, <1>2, <1>3 DEF Lots

\* Every answer of every policy honours the contract.
LEMMA AnswersHonour ==
  ASSUME LevelInv, NEW available \in Takers, NEW fills \in Answers(available)
  PROVE  Honours(fills, available, makers)
<1>1. IsLevel(makers) /\ now \in Nat /\ available \in Lots
  BY TakersAreLots DEF LevelInv
<1>2. CASE fills = FifoAllocate(available, makers)
  BY <1>1, <1>2, FifoHonours
<1>3. CASE fills = ProRataAllocate(available, makers)
  BY <1>1, <1>3, ProRataHonours
<1>4. CASE fills = TimeProRataAllocate(available, makers, now)
  BY <1>1, <1>4, LevelFits, TimeProRataHonours
<1>5. CASE fills = Squeezed!TimeProRataAllocate(available, makers, now)
  BY <1>1, <1>5, LevelFits, SqueezedHonours
<1> QED
  BY <1>2, <1>3, <1>4, <1>5 DEF Answers

\* What an honest answer leaves is a level again.
LEMMA SweepKeepsLevel ==
  ASSUME LevelInv, NEW available, NEW fills, Honours(fills, available, makers),
         makers' = Survivors(fills), now' = now
  PROVE  LevelInv'
<1> DEFINE n == Len(makers)
           Maker == [remaining : Lots, arrival : Nat]
           left == [i \in DOMAIN makers |-> [makers[i] EXCEPT !.remaining = @ - fills[i]]]
<1>1. /\ n \in Nat /\ DOMAIN makers = 1 .. n
      /\ \A i \in 1 .. n : /\ makers[i] \in [remaining : Lots \ {0}, arrival : Nat]
                           /\ makers[i].remaining \in Lots /\ makers[i].remaining \in Nat
  BY LevelSizes, ElementOfSeq DEF LevelInv, IsLevel
<1>2. \A i \in 1 .. n : fills[i] \in Nat /\ fills[i] \in Lots /\ fills[i] <= makers[i].remaining
  BY <1>1 DEF Honours
<1>3. \A i \in 1 .. n : makers[i].remaining - fills[i] \in Lots
  BY <1>1, <1>2, LotArithmetic
<1>4. \A i \in 1 .. n : /\ left[i] \in Maker
                        /\ left[i].remaining = makers[i].remaining - fills[i]
                        /\ left[i].arrival = makers[i].arrival
  BY <1>1, <1>3
<1>5. left \in [1 .. n -> Maker]
  <2>1. left = [i \in 1 .. n |-> left[i]]
    BY <1>1
  <2> HIDE DEF left, Maker
  <2> QED
    BY <1>4, <2>1
<1>6. left \in Seq(Maker) /\ Len(left) = n
  <2> HIDE DEF left, Maker
  <2> QED
    BY <1>1, <1>5, SeqDef, LenProperties
<1>7. makers' = Live(left)
  BY DEF Survivors
<1> HIDE DEF left
<1> DEFINE kept == Live(left)
           From(i, p) == p \in 1 .. n /\ kept[i] = left[p]
<1>8. /\ kept \in Seq(Maker)
      /\ \A i \in 1 .. Len(kept) : \E p \in 1 .. n : kept[i] = left[p] /\ left[p].remaining > 0
      /\ \A i, j \in 1 .. Len(kept) : i < j =>
           \E p, q \in 1 .. n : p < q /\ kept[i] = left[p] /\ kept[j] = left[q]
  <2> HIDE DEF Maker
  <2> QED
    BY <1>6, LiveSelects
<1> HIDE DEF kept
<1>9. Len(kept) \in Nat /\ kept \in [1 .. Len(kept) -> Maker]
  <2> HIDE DEF Maker
  <2> QED
    BY <1>8, LenProperties
<1>10. ASSUME NEW i \in 1 .. Len(kept)
       PROVE  /\ kept[i] \in [remaining : Lots \ {0}, arrival : Nat]
              /\ kept[i].remaining <= MaxLots * Lot /\ kept[i].arrival < now
  <2>1. PICK p \in 1 .. n : kept[i] = left[p] /\ left[p].remaining > 0
    BY <1>8
  <2> DEFINE most == MaxLots * Lot
  <2>2. most \in Nat
    BY LevelAssumption, AllocationAssumption
  <2>3. makers[p].remaining <= most /\ makers[p].arrival < now
    BY <2>1 DEF LevelInv
  <2> HIDE DEF most
  <2>4. /\ left[p].remaining \in Nat /\ left[p].remaining <= makers[p].remaining
        /\ left[p].arrival = makers[p].arrival /\ left[p] \in Maker
    <3> HIDE DEF Maker
    <3>1. left[p].remaining = makers[p].remaining - fills[p] /\ makers[p].remaining \in Nat
          /\ fills[p] \in Nat /\ fills[p] <= makers[p].remaining
      BY <1>1, <1>2, <1>4
    <3> QED
      BY <1>4, <3>1
  <2>5. kept[i].remaining <= most /\ kept[i].arrival < now
    <3> HIDE DEF Maker
    <3> QED
      BY <1>1, <2>1, <2>2, <2>3, <2>4
  <2>6. kept[i] \in [remaining : Lots \ {0}, arrival : Nat]
    BY <2>1, <2>4
  <2> QED
    BY <2>5, <2>6 DEF most
<1>11. kept \in Seq([remaining : Lots \ {0}, arrival : Nat])
  <2> DEFINE Living == [remaining : Lots \ {0}, arrival : Nat]
  <2>1. \A i \in 1 .. Len(kept) : kept[i] \in Living
    BY <1>10
  <2> HIDE DEF Living, Maker
  <2>2. kept \in [1 .. Len(kept) -> Living]
    BY <1>9, <2>1
  <2>3. kept \in Seq(Living)
    BY <1>9, <2>2, SeqDef
  <2> QED
    BY <2>3 DEF Living
<1>12. ASSUME NEW i \in 1 .. Len(kept), NEW j \in 1 .. Len(kept), i < j
       PROVE  kept[i].arrival < kept[j].arrival
  <2>1. PICK p, q \in 1 .. n : p < q /\ kept[i] = left[p] /\ kept[j] = left[q]
    BY <1>8, <1>12
  <2>2. makers[p].arrival < makers[q].arrival
    BY <2>1 DEF LevelInv
  <2> QED
    BY <1>4, <2>1, <2>2
<1>13. makers' = kept /\ now' \in Nat
  BY <1>7 DEF kept, LevelInv
<1> QED
  BY <1>10, <1>11, <1>12, <1>13 DEF LevelInv, IsLevel

LEMMA LevelStarts == Init => LevelInv
<1> SUFFICES ASSUME Init PROVE LevelInv
  OBVIOUS
<1> QED
  BY EmptySeq DEF Init, LevelInv, IsLevel

LEMMA RestKeepsLevel ==
  ASSUME LevelInv, NEW lots \in 1 .. MaxLots, RestMaker(lots)
  PROVE  LevelInv'
<1> DEFINE Living == [remaining : Lots \ {0}, arrival : Nat]
           maker == [remaining |-> lots * Lot, arrival |-> now]
           most == MaxLots * Lot
<1>1. lots * Lot \in Lots \ {0} /\ lots * Lot <= most
  <2>1. lots \in Nat \ {0} /\ MaxLots \in Nat /\ lots <= MaxLots /\ Lot \in Nat \ {0} /\ lots * Lot = Lot * lots
    BY LevelAssumption, AllocationAssumption
  <2>2. Lot * lots \in Lots
    BY <2>1, MultiplesAreLots
  <2>3. \A a, b, c \in Nat : a <= b => a * c <= b * c
    OBVIOUS
  <2>4. \A a, c \in Nat \ {0} : a * c # 0
    OBVIOUS
  <2> QED
    BY <2>1, <2>2, <2>3, <2>4
<1>2. maker \in Living /\ maker.remaining <= most /\ maker.arrival = now
  BY <1>1 DEF LevelInv
<1>3. makers \in Seq(Living) /\ now \in Nat /\ makers' = Append(makers, maker) /\ now' = now + 1
  BY DEF LevelInv, IsLevel, RestMaker
<1> HIDE DEF Living, maker
<1>4. /\ makers' \in Seq(Living) /\ Len(makers) \in Nat /\ Len(makers') = Len(makers) + 1
      /\ makers'[Len(makers) + 1] = maker /\ \A i \in 1 .. Len(makers) : makers'[i] = makers[i]
  BY <1>2, <1>3, AppendProperties, LenProperties
<1>5. /\ \A i \in 1 .. Len(makers) :
           makers[i].remaining <= most /\ makers[i].arrival < now /\ makers[i].arrival \in Nat
      /\ \A i, j \in 1 .. Len(makers) : i < j => makers[i].arrival < makers[j].arrival
  BY LevelSizes DEF LevelInv
<1> HIDE DEF most
<1>6. \A i \in 1 .. Len(makers') : makers'[i].remaining <= most /\ makers'[i].arrival < now'
  BY <1>2, <1>3, <1>4, <1>5
<1>7. ASSUME NEW i \in 1 .. Len(makers'), NEW j \in 1 .. Len(makers'), i < j
      PROVE  makers'[i].arrival < makers'[j].arrival
  <2>1. i \in 1 .. Len(makers) /\ makers'[i] = makers[i]
    BY <1>4, <1>7
  <2>2. CASE j \in 1 .. Len(makers)
    BY <1>4, <1>5, <1>7, <2>1, <2>2
  <2>3. CASE j = Len(makers) + 1
    BY <1>2, <1>4, <1>5, <2>1, <2>3
  <2> QED
    BY <1>4, <2>2, <2>3
<1>8. now' \in Nat
  BY <1>3
<1> QED
  BY <1>4, <1>6, <1>7, <1>8 DEF LevelInv, IsLevel, Living, most

LEMMA CancelKeepsLevel ==
  ASSUME LevelInv, NEW i \in DOMAIN makers, CancelMaker(i)
  PROVE  LevelInv'
<1> DEFINE Living == [remaining : Lots \ {0}, arrival : Nat]
           most == MaxLots * Lot
<1>1. /\ makers \in Seq(Living) /\ now \in Nat /\ Len(makers) \in Nat
      /\ i \in 1 .. Len(makers) /\ makers' = RemoveAt(makers, i) /\ now' = now
  BY LevelSizes DEF LevelInv, IsLevel, CancelMaker
<1> HIDE DEF Living
<1>2. /\ makers' \in Seq(Living) /\ Len(makers') = Len(makers) - 1
      /\ \A j \in 1 .. Len(makers) - 1 : makers'[j] = IF j < i THEN makers[j] ELSE makers[j+1]
  BY <1>1, RemoveAtElements
<1>3. /\ \A j \in 1 .. Len(makers) : makers[j].remaining <= most /\ makers[j].arrival < now
      /\ \A j, k \in 1 .. Len(makers) : j < k => makers[j].arrival < makers[k].arrival
  BY DEF LevelInv
<1> HIDE DEF most
<1>4. \A j \in 1 .. Len(makers') : makers'[j].remaining <= most /\ makers'[j].arrival < now'
  BY <1>1, <1>2, <1>3
<1>5. ASSUME NEW j \in 1 .. Len(makers'), NEW k \in 1 .. Len(makers'), j < k
      PROVE  makers'[j].arrival < makers'[k].arrival
  <2>1. j \in 1 .. Len(makers) /\ k \in 1 .. Len(makers) /\ j + 1 \in 1 .. Len(makers) /\ k + 1 \in 1 .. Len(makers)
        /\ j \in 1 .. Len(makers) - 1 /\ k \in 1 .. Len(makers) - 1 /\ j < k + 1 /\ j + 1 < k + 1
    BY <1>1, <1>2, <1>5
  <2>2. /\ makers[j].arrival < makers[k].arrival /\ makers[j].arrival < makers[k+1].arrival
        /\ makers[j+1].arrival < makers[k+1].arrival
    BY <1>3, <1>5, <2>1
  <2>3. /\ makers'[j] = IF j < i THEN makers[j] ELSE makers[j+1]
        /\ makers'[k] = IF k < i THEN makers[k] ELSE makers[k+1]
    BY <1>2, <2>1
  <2> QED
    BY <1>1, <1>5, <2>1, <2>2, <2>3
<1> QED
  BY <1>1, <1>2, <1>4, <1>5 DEF LevelInv, IsLevel, Living, most

LEMMA StepKeepsLevel == LevelInv /\ [Next]_<<makers, now>> => LevelInv'
<1> SUFFICES ASSUME LevelInv, [Next]_<<makers, now>> PROVE LevelInv'
  OBVIOUS
<1>1. CASE UNCHANGED <<makers, now>>
  BY <1>1 DEF LevelInv, IsLevel
<1>2. ASSUME NEW lots \in 1 .. MaxLots, RestMaker(lots) PROVE LevelInv'
  BY <1>2, RestKeepsLevel
<1>3. CASE RestElsewhere
  <2>1. makers' = makers /\ now' = now + 1 /\ now \in Nat /\ \A i \in 1 .. Len(makers) : makers[i].arrival \in Nat
    BY <1>3, LevelSizes DEF RestElsewhere, LevelInv
  <2>2. now' \in Nat /\ \A i \in 1 .. Len(makers') : makers'[i].arrival < now'
    BY <2>1 DEF LevelInv
  <2> QED
    BY <2>1, <2>2 DEF LevelInv, IsLevel
<1>4. ASSUME NEW i \in DOMAIN makers, CancelMaker(i) PROVE LevelInv'
  BY <1>4, CancelKeepsLevel
<1>5. ASSUME NEW available \in Takers, Sweep(available) PROVE LevelInv'
  <2>1. PICK fills \in Answers(available) : makers' = Survivors(fills) /\ now' = now
    BY <1>5 DEF Sweep
  <2>2. Honours(fills, available, makers)
    BY AnswersHonour
  <2> QED
    BY <2>1, <2>2, SweepKeepsLevel
<1> QED
  BY <1>1, <1>2, <1>3, <1>4, <1>5 DEF Next

THEOREM LevelIsKept == Spec => []LevelInv
  BY LevelStarts, StepKeepsLevel, PTL DEF Spec

\* Every shipped policy keeps the contract, at every level a behaviour reaches
\* and for every taker (allocation.rs:5-12).
THEOREM PoliciesAreHonest == Spec => []PoliciesKeepContract
<1>1. LevelInv => PoliciesKeepContract
  <2> SUFFICES ASSUME LevelInv, NEW available \in Takers, NEW fills \in Answers(available)
               PROVE  /\ \A i \in DOMAIN makers :
                           0 <= fills[i] /\ fills[i] <= makers[i].remaining /\ fills[i] % Lot = 0
                      /\ Total(fills) = Smaller(available, Total(Sizes(makers)))
    BY DEF PoliciesKeepContract
  <2>1. Honours(fills, available, makers)
    BY AnswersHonour
  <2> QED
    BY <2>1 DEF Honours, Lots
<1> QED
  BY <1>1, LevelIsKept, PTL

\* The contract as the engine's model states it is the documented one, at every
\* level a behaviour reaches.
THEOREM ContractIsDocumented == Spec => []ContractIsAsDocumented
<1>1. LevelInv => ContractIsAsDocumented
  <2> SUFFICES ASSUME LevelInv, NEW available \in Takers,
                      NEW fills \in [DOMAIN makers -> 0 .. MaxLots * Lot]
               PROVE  Contract(fills, available, makers) <=>
                        /\ \A i \in DOMAIN makers : fills[i] <= makers[i].remaining /\ fills[i] % Lot = 0
                        /\ Total(fills) = Smaller(available, Total(Sizes(makers)))
    BY DEF ContractIsAsDocumented
  <2> DEFINE S == 1 .. Len(makers)
             f == Sizes(makers)
  <2>1. /\ DOMAIN makers = S /\ IsFiniteSet(S) /\ Total(f) = SumFunctionOnSet(f, S) /\ DOMAIN f = S
        /\ f = [i \in S |-> f[i]] /\ \A i \in S : f[i] \in Nat /\ f[i] = makers[i].remaining
    BY LevelSizes DEF LevelInv, Sizes
  <2>2. available \in Nat
    BY TakersAreLots
  <2>3. fills \in [S -> Nat] /\ Total(fills) = SumFunctionOnSet(fills, S)
    <3>1. fills \in [S -> 0 .. MaxLots * Lot] /\ MaxLots * Lot \in Nat
      BY SMTT(30), <2>1, LevelAssumption, AllocationAssumption
    <3>2. \A i \in S : fills[i] \in Nat
      BY <3>1
    <3> QED
      BY <3>1, <3>2 DEF Total, SumFunction
  <2> HIDE DEF S, f
  <2>4. \A i \in S : fills[i] \in Nat /\ fills[i] \in Int /\ f[i] \in Int
    BY <2>1, <2>3
  <2>5. Total(fills) \in Nat /\ Total(f) \in Nat
    BY <2>1, <2>3, <2>4, SumNat
  <2> DEFINE fits == \A i \in S : fills[i] <= makers[i].remaining /\ fills[i] % Lot = 0
  <2>6. ASSUME Contract(fills, available, makers)
        PROVE  fits /\ Total(fills) = Smaller(available, Total(f))
    <3>1. /\ fits /\ Total(fills) <= available
          /\ Total(fills) = available \/ fills = f
      BY <2>1, <2>2, <2>5, <2>6 DEF Contract, f
    <3>2. \A i \in S : fills[i] <= f[i]
      BY <2>1, <3>1
    <3>3. Total(fills) <= Total(f)
      BY <2>1, <2>3, <2>4, <3>2, SumAtMost
    <3> QED
      BY <2>2, <2>5, <3>1, <3>3 DEF Smaller
  <2>7. ASSUME fits, Total(fills) = Smaller(available, Total(f))
        PROVE  Contract(fills, available, makers)
    <3>1. Total(fills) \in 0 .. available
      BY <2>2, <2>5, <2>7 DEF Smaller
    <3>2. CASE Total(fills) = Total(f)
      <4>1. \A i \in S : fills[i] <= f[i]
        BY <2>1, <2>7
      <4>2. \A i \in S : fills[i] = f[i]
        <5> HIDE DEF fits
        <5>1. SumFunctionOnSet(fills, S) = SumFunctionOnSet(f, S)
          BY <2>1, <2>3, <3>2
        <5>2. \A i \in S : fills[i] \in Int /\ f[i] \in Int /\ fills[i] <= f[i]
          BY <2>4, <4>1
        <5> QED
          BY <2>1, <5>1, <5>2, SumEqual
      <4>3. fills = f
        BY <2>1, <2>3, <4>2
      <4> QED
        <5>1. fits /\ fills = Sizes(makers)
          BY <2>7, <4>3 DEF f
        <5> QED
          BY <2>1, <3>1, <5>1 DEF Contract
    <3>3. CASE Total(fills) = available
      BY <2>1, <2>7, <3>1, <3>3 DEF Contract
    <3> QED
      BY <2>7, <3>2, <3>3 DEF Smaller
  <2> QED
    BY <2>1, <2>6, <2>7 DEF f
<1> QED
  BY <1>1, LevelIsKept, PTL

\* What one maker gets of a smaller taker beyond its exact proportional share,
\* the level's total being the unit.
Over(fills, available, ms, i) == fills[i] * Total(Sizes(ms)) - available * ms[i].remaining

LEMMA OneLotOff ==
  ASSUME NEW total \in Nat \ {0}, NEW claim \in Nat, NEW share \in Nat, NEW fill,
         total * share <= claim, claim < total * (share + Lot),
         fill = share \/ fill = share + Lot
  PROVE  /\ -Lot * total < fill * total - claim /\ fill * total - claim <= Lot * total
         /\ fill = share => fill * total - claim <= 0
         /\ fill # share => fill * total - claim > 0
<1> DEFINE a == total * share
           b == total * Lot
<1>1. Lot \in Nat \ {0}
  BY AllocationAssumption
<1>2. a \in Nat /\ b \in Nat /\ b > 0 /\ total * (share + Lot) = a + b
  BY <1>1
<1>3. /\ fill = share => fill * total = a
      /\ fill = share + Lot => fill * total = a + b
  BY <1>1
<1>4. -Lot * total = -b /\ Lot * total = b
  BY <1>1
<1>5. share # share + Lot
  BY <1>1
<1>6. a <= claim /\ claim < a + b
  BY <1>2
<1> HIDE DEF a, b
<1> QED
  BY <1>2, <1>3, <1>4, <1>5, <1>6

LEMMA FairDivision ==
  ASSUME NEW ms, IsLevel(ms), NEW available \in Lots, available < Total(Sizes(ms)),
         NEW fills, fills = ProRataAllocate(available, ms), NEW total, total = Total(Sizes(ms))
  PROVE  /\ \A i \in 1 .. Len(ms) : /\ -Lot * total < Over(fills, available, ms, i)
                                    /\ Over(fills, available, ms, i) <= Lot * total
         /\ \A i, j \in 1 .. Len(ms) :
              i < j /\ Over(fills, available, ms, j) > 0 => ~(Over(fills, available, ms, i) < 0)
<1> DEFINE S == 1 .. Len(ms)
           shares == ProRataShares(available, ms)
           crumbs == available - Total(shares)
<1>1. /\ total \in Nat \ {0} /\ AreShares(shares, ms) /\ crumbs \in Lots
      /\ crumbs <= SumFunctionOnSet(Room(shares, ms), S)
      /\ \A i \in S : /\ HasRoom(shares, ms, i)
                      /\ total * shares[i] <= available * ms[i].remaining
                      /\ available * ms[i].remaining < total * (shares[i] + Lot)
  BY SharesLeaveRoom
<1>2. available \in Nat
  BY DEF Lots
<1>3. fills = CrumbSweep(shares, crumbs, ms)
  BY <1>2, ProRataSplits
<1> HIDE DEF shares, crumbs
<1>4. /\ \A i \in S : fills[i] = shares[i] \/ (fills[i] = shares[i] + Lot /\ HasRoom(shares, ms, i))
      /\ \A i, j \in S :
           i < j /\ fills[j] # shares[j] /\ HasRoom(shares, ms, i) => fills[i] = shares[i] + Lot
  BY <1>1, <1>3, CrumbsAreSpent
<1>5. ASSUME NEW i \in S
      PROVE  /\ -Lot * total < Over(fills, available, ms, i)
             /\ Over(fills, available, ms, i) <= Lot * total
             /\ Over(fills, available, ms, i) \in Int
             /\ fills[i] = shares[i] => Over(fills, available, ms, i) <= 0
             /\ fills[i] # shares[i] => Over(fills, available, ms, i) > 0
  <2> DEFINE claim == available * ms[i].remaining
             share == shares[i]
             fill == fills[i]
  <2>1. ms[i].remaining \in Nat
    BY LevelSizes
  <2>2. claim \in Nat /\ share \in Nat
    BY <1>1, <1>2, <2>1 DEF AreShares
  <2>3. total * share <= claim /\ claim < total * (share + Lot) /\ (fill = share \/ fill = share + Lot)
    BY <1>1, <1>4
  <2>4. Over(fills, available, ms, i) = fill * total - claim
    BY DEF Over
  <2>5. fill \in Nat /\ fill * total \in Int
    BY <1>1, <2>2, <2>3, AllocationAssumption
  <2> HIDE DEF claim, share, fill
  <2>6. /\ -Lot * total < fill * total - claim /\ fill * total - claim <= Lot * total
        /\ fill = share => fill * total - claim <= 0
        /\ fill # share => fill * total - claim > 0
    BY <1>1, <2>2, <2>3, OneLotOff
  <2> QED
    BY <2>2, <2>4, <2>5, <2>6 DEF share, fill
<1>6. ASSUME NEW i \in S, NEW j \in S, i < j, Over(fills, available, ms, j) > 0
      PROVE  ~(Over(fills, available, ms, i) < 0)
  <2>1. fills[j] # shares[j]
    BY <1>5, <1>6
  <2>2. fills[i] = shares[i] + Lot /\ shares[i] \in Nat
    BY <1>1, <1>4, <1>6, <2>1 DEF AreShares
  <2>3. fills[i] # shares[i]
    BY <2>2, AllocationAssumption
  <2> QED
    BY <1>5, <2>3
<1> QED
  BY <1>5, <1>6

\* Pro-rata is fair to within one lot of the exact proportional share, and the
\* odd lots go to the oldest makers with room, at every level a behaviour
\* reaches and for every taker (allocation.rs:111-115).
THEOREM ProRataDividesFairly == Spec => []ProRataIsFair
<1>1. LevelInv => ProRataIsFair
  <2> SUFFICES ASSUME LevelInv PROVE ProRataIsFair
    OBVIOUS
  <2> DEFINE S == 1 .. Len(makers)
             total == Total(Sizes(makers))
             Fair(available, fills) ==
               /\ \A i \in S : /\ -Lot * total < Over(fills, available, makers, i)
                               /\ Over(fills, available, makers, i) <= Lot * total
               /\ \A i, j \in S :
                    i < j /\ Over(fills, available, makers, j) > 0
                      => ~(Over(fills, available, makers, i) < 0)
  <2>1. DOMAIN makers = S
    BY LevelSizes DEF LevelInv
  <2>2. ASSUME NEW available \in Takers, available < total
        PROVE  Fair(available, ProRataAllocate(available, makers))
    BY <2>2, TakersAreLots, FairDivision DEF LevelInv
  <2> QED
    BY <2>1, <2>2 DEF ProRataIsFair, Over
<1> QED
  BY <1>1, LevelIsKept, PTL

-------------------------------------------------------------------------------
(* Patience *)

\* A pass hands the maker that counts for more no less than one of its size
\* that counts for less: if the lighter is due all it holds, so is the heavier.
LEMMA PassKeepsRank ==
  ASSUME NEW ms, IsLevel(ms), NEW available \in Nat, available < Total(Sizes(ms)),
         NEW weights, AreWeights(weights, ms), NEW fill \in Fills(available, ms),
         NEW next, next = WaterFillPass(fill, ms, weights),
         NEW i \in 1 .. Len(ms), NEW j \in 1 .. Len(ms), ms[i].remaining = ms[j].remaining,
         weights[j] <= weights[i], fill.shares[j] <= fill.shares[i]
  PROVE  next.shares[j] <= next.shares[i]
<1> DEFINE S == 1 .. Len(ms)
           C == Contending(fill, ms)
           total == SumFunctionOnSet(weights, C)
           due == Due(fill, ms, weights)
           capped == Capped(fill, ms, weights)
           D == Served(fill, ms, weights)
           given == Given(fill, ms, weights)
           shares == SharesAfter(fill, ms, weights)
           size == ms[i].remaining
<1>1. CASE ~fill.open
  <2>1. next = [fill EXCEPT !.open = FALSE] /\ fill \in [shares : [S -> Nat], pool : Nat, open : BOOLEAN]
    BY <1>1 DEF WaterFillPass, Fills
  <2>2. next.shares = fill.shares
    BY <2>1
  <2> QED
    BY <2>2
<1>2. CASE fill.open
  <2>1. size \in Nat /\ ms[j].remaining = size
    BY LevelSizes
  <2>2. /\ fill.pool \in Nat /\ fill.shares[i] \in Nat /\ fill.shares[j] \in Nat
        /\ fill.shares[i] <= size /\ fill.shares[j] <= size
    BY DEF Fills, AreShares
  <2>3. /\ total \in Nat \ {0}
        /\ \A k \in C : due[k] \in Nat /\ LotFloor(due[k]) \in Nat /\ LotFloor(due[k]) <= due[k]
    BY DueParts
  <2>4. next.shares = shares
    <3>1. next = [shares |-> shares, pool |-> fill.pool - SumFunctionOnSet(given, D), open |-> capped # {}]
      BY <1>2, SomebodyContends, PassGives
    <3> HIDE DEF shares, given, D, capped
    <3> QED
      BY <3>1
  <2>5. /\ i \in C <=> fill.shares[i] < size
        /\ j \in C <=> fill.shares[j] < size
    BY <2>1 DEF Contending
  <2>6. /\ due = [k \in C |-> (fill.pool * weights[k]) \div total]
        /\ capped = {k \in C : due[k] >= ms[k].remaining}
        /\ D = (IF capped # {} THEN capped ELSE C)
        /\ given = [k \in D |-> IF capped # {} THEN ms[k].remaining ELSE LotFloor(due[k])]
        /\ shares = [k \in S |-> IF k \in D THEN given[k] ELSE fill.shares[k]]
    BY DEF Due, Capped, Served, Given, SharesAfter
  <2>7. ASSUME i \in C, j \in C
        PROVE  due[j] <= due[i] /\ LotFloor(due[j]) <= LotFloor(due[i])
    <3> DEFINE m == fill.pool * weights[j]
               n == fill.pool * weights[i]
    <3>1. weights[i] \in Nat /\ weights[j] \in Nat
      BY DEF AreWeights
    <3>2. m \in Nat /\ n \in Nat /\ m <= n
      <4>1. \A a, b, c \in Nat : a <= b => c * a \in Nat /\ c * b \in Nat /\ c * a <= c * b
        OBVIOUS
      <4> QED
        BY <2>2, <3>1, <4>1
    <3>3. due[j] = m \div total /\ due[i] = n \div total
      BY <2>6, <2>7
    <3> HIDE DEF m, n, total, due
    <3>4. due[j] <= due[i]
      BY <2>3, <3>2, <3>3, DivMonotone
    <3> DEFINE a == due[j]
               b == due[i]
    <3>5. a \in Nat /\ b \in Nat /\ a <= b
      BY <2>3, <2>7, <3>4
    <3> HIDE DEF a, b
    <3>6. a \div Lot <= b \div Lot /\ a \div Lot \in Nat /\ b \div Lot \in Nat
      BY <3>5, AllocationAssumption, DivMonotone, DivMod
    <3> DEFINE x == a \div Lot
               y == b \div Lot
    <3>7. LotFloor(a) = x * Lot /\ LotFloor(b) = y * Lot
      BY DEF LotFloor
    <3> HIDE DEF x, y
    <3>8. x * Lot <= y * Lot
      <4>1. \A p, q, c \in Nat : p <= q => p * c <= q * c
        OBVIOUS
      <4>2. x \in Nat /\ y \in Nat /\ x <= y /\ Lot \in Nat
        BY <3>6, AllocationAssumption DEF x, y
      <4> QED
        BY <4>1, <4>2
    <3> QED
      BY <3>4, <3>7, <3>8 DEF a, b
  <2> HIDE DEF C, total, due, capped, D, given, shares, size
  <2>8. \A k \in C : k \in capped <=> due[k] >= ms[k].remaining
    BY <2>6
  <2>9. CASE capped # {}
    <3>1. \A k \in S : shares[k] = IF k \in capped THEN ms[k].remaining ELSE fill.shares[k]
      BY <2>6, <2>9
    <3>2. j \in capped => i \in capped \/ fill.shares[i] = size
      <4> SUFFICES ASSUME j \in capped, i \in C PROVE i \in capped
        BY <2>1, <2>2, <2>5
      <4>1. j \in C /\ due[j] >= size
        BY <2>1, <2>6, <2>8
      <4>2. due[j] <= due[i] /\ due[j] \in Nat /\ due[i] \in Nat
        BY <2>3, <2>7, <4>1
      <4>3. due[i] >= size
        BY <2>1, <4>1, <4>2
      <4> QED
        BY <2>8, <4>3 DEF size
    <3>3. size = ms[i].remaining
      BY DEF size
    <3> QED
      BY <2>1, <2>2, <2>4, <3>1, <3>2, <3>3
  <2>10. CASE capped = {}
    <3>1. \A k \in S : shares[k] = IF k \in C THEN LotFloor(due[k]) ELSE fill.shares[k]
      BY <2>6, <2>10
    <3>2. CASE j \notin C
      <4>1. i \notin C
        BY <2>1, <2>2, <2>5, <3>2
      <4> QED
        BY <2>4, <3>1, <3>2, <4>1
    <3>3. CASE j \in C /\ i \in C
      BY <2>4, <2>7, <3>1, <3>3
    <3>4. CASE j \in C /\ i \notin C
      <4>1. ~(due[j] >= size) /\ due[j] \in Nat /\ LotFloor(due[j]) \in Nat /\ LotFloor(due[j]) <= due[j]
        BY <2>1, <2>3, <2>8, <2>10, <3>4
      <4>2. LotFloor(due[j]) <= size
        BY <2>1, <4>1
      <4>3. fill.shares[i] = size
        BY <2>1, <2>2, <2>5, <3>4
      <4> QED
        BY <2>4, <3>1, <3>4, <4>2, <4>3
    <3> QED
      BY <3>2, <3>3, <3>4
  <2> QED
    BY <2>9, <2>10
<1> QED
  BY <1>1, <1>2

\* So does the whole fill.
LEMMA WaterFillKeepsRank ==
  ASSUME NEW ms, IsLevel(ms), NEW available \in Lots, available < Total(Sizes(ms)),
         NEW weights, AreWeights(weights, ms),
         NEW i \in 1 .. Len(ms), NEW j \in 1 .. Len(ms), ms[i].remaining = ms[j].remaining,
         weights[j] <= weights[i]
  PROVE  WaterFill(available, ms, weights).shares[j] <= WaterFill(available, ms, weights).shares[i]
<1> DEFINE n == Len(ms) + 1
           V == Fills(available, ms)
           Pass(v) == WaterFillPass(v, ms, weights)
<1>1. n \in Nat /\ available \in Nat /\ DOMAIN ms = 1 .. Len(ms)
  BY LevelSizes DEF Lots
<1>2. ASSUME NEW v \in V, v.shares[j] <= v.shares[i] PROVE Pass(v).shares[j] <= Pass(v).shares[i]
  BY <1>1, <1>2, PassKeepsRank
<1>3. PICK run \in WaterFillRuns(available, ms, weights) : WaterFill(available, ms, weights) = run[n]
  BY WaterFillRun
<1>4. /\ run \in [0 .. n -> V] /\ run[0] = NothingFilled(available, ms)
      /\ \A k \in 1 .. n : run[k] = Pass(run[k-1])
  BY DEF WaterFillRuns
<1>5. run[0].shares[j] <= run[0].shares[i]
  BY <1>1, <1>4 DEF NothingFilled
<1> HIDE DEF Pass, V
<1> DEFINE G == {k \in 0 .. n : run[k].shares[j] <= run[k].shares[i]}
<1>6. 0 \in G
  BY <1>1, <1>5
<1>7. ASSUME NEW k \in 0 .. n - 1, k \in G PROVE k + 1 \in G
  <2>1. k \in 0 .. n /\ k + 1 \in 1 .. n /\ k + 1 \in 0 .. n /\ (k + 1) - 1 = k
    BY <1>1
  <2>2. run[k] \in V /\ run[k+1] = Pass(run[k])
    BY <1>4, <2>1
  <2> QED
    BY <1>2, <1>7, <2>1, <2>2
<1>8. n \in G
  <2> HIDE DEF G
  <2>1. \A k \in 0 .. n : k \in G
    BY <1>1, <1>6, <1>7, UpTo
  <2> QED
    BY <1>1, <2>1
<1> QED
  BY <1>3, <1>8

\* A closed fill with its odd lots rewards patience: the odd lots go front to
\* back, and only to makers with room.
LEMMA OddLotsKeepRank ==
  ASSUME NEW ms, IsLevel(ms), NEW available \in Lots, available < Total(Sizes(ms)),
         NEW weights, AreWeights(weights, ms),
         NEW fill, fill = WaterFill(available, ms, weights),
         NEW i \in 1 .. Len(ms), NEW j \in 1 .. Len(ms), i < j, ms[i].remaining = ms[j].remaining,
         weights[j] <= weights[i]
  PROVE  LET fills == CrumbSweep(fill.shares, fill.pool, ms)
         IN  fills[i] \in Nat /\ fills[j] \in Nat /\ fills[j] <= fills[i]
<1> DEFINE shares == fill.shares
           crumbs == fill.pool
           fills == CrumbSweep(shares, crumbs, ms)
<1>1. fill \in Fills(available, ms) /\ ~fill.open
  BY WaterFillCloses
<1>2. /\ AreShares(shares, ms) /\ crumbs \in Lots
      /\ crumbs <= SumFunctionOnSet(Room(shares, ms), 1 .. Len(ms))
  BY <1>1 DEF Fills
<1>3. shares[j] <= shares[i]
  BY WaterFillKeepsRank
<1>4. /\ shares[i] \in Nat /\ shares[j] \in Nat /\ shares[i] \in Lots /\ shares[j] \in Lots
  BY <1>2 DEF AreShares
<1>5. ms[i].remaining \in Nat /\ Lot \in Nat \ {0}
  BY LevelSizes, AllocationAssumption
<1>6. fills = CrumbSweep(shares, crumbs, ms)
  OBVIOUS
<1> HIDE DEF shares, crumbs, fills
<1>7. /\ fills \in [1 .. Len(ms) -> Nat]
      /\ \A k \in 1 .. Len(ms) :
           fills[k] = shares[k] \/ (fills[k] = shares[k] + Lot /\ HasRoom(shares, ms, k))
      /\ fills[j] # shares[j] /\ HasRoom(shares, ms, i) => fills[i] = shares[i] + Lot
  BY <1>2, <1>6, CrumbsAreSpent
<1>8. fills[j] <= fills[i]
  <2>1. CASE shares[j] < shares[i]
    <3>1. shares[j] + Lot <= shares[i]
      BY <1>4, <2>1, LotArithmetic
    <3> QED
      BY <1>4, <1>5, <1>7, <3>1
  <2>2. CASE shares[j] = shares[i]
    <3>1. HasRoom(shares, ms, j) => HasRoom(shares, ms, i)
      BY <2>2 DEF HasRoom
    <3> QED
      BY <1>4, <1>5, <1>7, <2>2, <3>1
  <2> QED
    BY <1>3, <1>4, <2>1, <2>2
<1> QED
  BY <1>7, <1>8 DEF fills, shares, crumbs

LEMMA TimeProRataRewards ==
  ASSUME NEW ms, IsLevel(ms), FitsWords(ms, WordBits), NEW available \in Lots, NEW at \in Nat,
         NEW i \in 1 .. Len(ms), NEW j \in 1 .. Len(ms), i < j, ms[i].remaining = ms[j].remaining,
         ms[i].arrival <= ms[j].arrival
  PROVE  TimeProRataAllocate(available, ms, at)[i] >= TimeProRataAllocate(available, ms, at)[j]
<1> DEFINE weights == Weights(ms, at)
           fill == WaterFill(available, ms, weights)
           fills == CrumbSweep(fill.shares, fill.pool, ms)
<1>1. /\ available \in Nat /\ Total(Sizes(ms)) \in Nat
      /\ \A k \in 1 .. Len(ms) : Sizes(ms)[k] = ms[k].remaining /\ ms[k].remaining \in Nat
  BY LevelTotal, LevelSizes DEF Lots
<1>2. CASE available >= Total(Sizes(ms))
  BY <1>1, <1>2, TimeProRataSplits
<1>3. CASE available < Total(Sizes(ms))
  <2>1. TimeProRataAllocate(available, ms, at) = fills
    BY <1>1, <1>3, TimeProRataSplits
  <2>2. AreWeights(weights, ms) /\ weights[j] <= weights[i]
    BY WeightsRank
  <2>3. fill = WaterFill(available, ms, weights)
    OBVIOUS
  <2> HIDE DEF weights, fill
  <2>4. fills[i] \in Nat /\ fills[j] \in Nat /\ fills[j] <= fills[i]
    BY <1>3, <2>2, <2>3, OddLotsKeepRank
  <2> QED
    BY <2>1, <2>4
<1> QED
  BY <1>1, <1>2, <1>3

LEMMA SqueezedRewards ==
  ASSUME NEW ms, IsLevel(ms), FitsWords(ms, 3), NEW available \in Lots, NEW at \in Nat,
         NEW i \in 1 .. Len(ms), NEW j \in 1 .. Len(ms), i < j, ms[i].remaining = ms[j].remaining,
         ms[i].arrival <= ms[j].arrival
  PROVE  Squeezed!TimeProRataAllocate(available, ms, at)[i] >= Squeezed!TimeProRataAllocate(available, ms, at)[j]
<1> DEFINE weights == Squeezed!Weights(ms, at)
           fill == WaterFill(available, ms, weights)
           fills == CrumbSweep(fill.shares, fill.pool, ms)
<1>1. /\ available \in Nat /\ Total(Sizes(ms)) \in Nat
      /\ \A k \in 1 .. Len(ms) : Sizes(ms)[k] = ms[k].remaining /\ ms[k].remaining \in Nat
  BY LevelTotal, LevelSizes DEF Lots
<1>2. CASE available >= Total(Sizes(ms))
  BY <1>1, <1>2, SqueezedSplits
<1>3. CASE available < Total(Sizes(ms))
  <2>1. Squeezed!TimeProRataAllocate(available, ms, at) = fills
    BY <1>1, <1>3, SqueezedSplits
  <2>2. AreWeights(weights, ms) /\ weights[j] <= weights[i]
    BY SqueezedWeightsRank
  <2>3. fill = WaterFill(available, ms, weights)
    OBVIOUS
  <2> HIDE DEF weights, fill
  <2>4. fills[i] \in Nat /\ fills[j] \in Nat /\ fills[j] <= fills[i]
    BY <1>3, <2>2, <2>3, OddLotsKeepRank
  <2> QED
    BY <2>1, <2>4
<1> QED
  BY <1>1, <1>2, <1>3

\* Patience never hurts, at every level a behaviour reaches and for every taker:
\* of two makers of one size the one that has rested longer gets at least as
\* much (allocation.rs:277-280), shifted weights or not.
THEOREM PatienceIsNeverPunished == Spec => []PatienceNeverHurts
<1>1. LevelInv => PatienceNeverHurts
  <2> SUFFICES ASSUME LevelInv PROVE PatienceNeverHurts
    OBVIOUS
  <2>1. DOMAIN makers = 1 .. Len(makers) /\ now \in Nat
        /\ \A i \in 1 .. Len(makers) : makers[i].arrival \in Nat
    BY LevelSizes DEF LevelInv
  <2>2. ASSUME NEW available \in Takers, NEW i \in 1 .. Len(makers), NEW j \in 1 .. Len(makers),
               i < j, makers[i].remaining = makers[j].remaining
        PROVE  /\ TimeProRataAllocate(available, makers, now)[i] >= TimeProRataAllocate(available, makers, now)[j]
               /\ Squeezed!TimeProRataAllocate(available, makers, now)[i]
                    >= Squeezed!TimeProRataAllocate(available, makers, now)[j]
    <3>1. makers[i].arrival <= makers[j].arrival
      BY <2>1, <2>2 DEF LevelInv
    <3>2. IsLevel(makers) /\ available \in Lots
      BY TakersAreLots DEF LevelInv
    <3> QED
      BY <2>1, <2>2, <3>1, <3>2, LevelFits, TimeProRataRewards, SqueezedRewards
  <2> QED
    BY <2>1, <2>2 DEF PatienceNeverHurts
<1> QED
  BY <1>1, LevelIsKept, PTL

-------------------------------------------------------------------------------
(* Equal ages *)

\* A shift by no bits, and what it leaves of a weight.
LEMMA NoShift == 2 ^ 0 = 1
<1>1. IsFiniteSet({}) /\ Cardinality({}) = 0
  BY FS_EmptySet
<1>2. Cardinality(SUBSET {}) = 2 ^ Cardinality({})
  BY <1>1, FS_SUBSET
<1>3. SUBSET {} = {{}} /\ Cardinality({{}}) = 1
  BY FS_Singleton
<1> QED
  BY <1>1, <1>2, <1>3

LEMMA DivByOne == ASSUME NEW n \in Nat PROVE n \div 1 = n
OBVIOUS

\* Weights that fit the word are not shifted: they are size times age.
LEMMA WholeWeights ==
  ASSUME NEW ms, IsLevel(ms), NEW at \in Nat,
         \A i \in 1 .. Len(ms) : ms[i].remaining * MaxAge < 2 ^ WordBits
  PROVE  \A i \in 1 .. Len(ms) : Weights(ms, at)[i] = ms[i].remaining * AgeTicks(ms[i], at)
<1> DEFINE raw == [i \in DOMAIN ms |-> ms[i].remaining * AgeTicks(ms[i], at)]
           largest == CHOOSE w \in Range(raw) : \A v \in Range(raw) : v <= w
           word == 2 ^ WordBits
<1>1. Weights(ms, at) = [i \in DOMAIN ms |-> Larger(raw[i] \div 2 ^ ExcessBits(largest), 1)]
  BY DEF Weights
<1>2. DOMAIN ms = 1 .. Len(ms) /\ Len(ms) \in Nat /\ MaxAge \in Nat
  BY LevelSizes, AllocationAssumption
<1>3. word \in Nat
  BY PowerOfTwo, AllocationAssumption
<1>4. ASSUME NEW i \in 1 .. Len(ms)
      PROVE  /\ raw[i] \in Nat \ {0} /\ raw[i] < word
             /\ raw[i] = ms[i].remaining * AgeTicks(ms[i], at)
  <2> DEFINE size == ms[i].remaining
             age == AgeTicks(ms[i], at)
  <2>1. size \in Nat \ {0}
    BY LevelSizes
  <2>2. age \in 1 .. MaxAge
    BY AgeIsBounded
  <2>3. size * MaxAge < word
    OBVIOUS
  <2>4. raw[i] = size * age
    BY <1>2
  <2> HIDE DEF size, age, word, raw
  <2>5. size * age \in Nat \ {0} /\ size * age <= size * MaxAge /\ size * MaxAge \in Nat
    BY <1>2, <2>1, <2>2
  <2>6. size * age < word
    BY <1>3, <2>3, <2>5
  <2> QED
    BY <2>4, <2>5, <2>6 DEF size, age
<1> SUFFICES ASSUME NEW i \in 1 .. Len(ms)
             PROVE  Weights(ms, at)[i] = ms[i].remaining * AgeTicks(ms[i], at)
  OBVIOUS
<1>5. DOMAIN raw = 1 .. Len(ms)
  BY <1>2
<1> HIDE DEF raw
<1>6. Range(raw) = {raw[k] : k \in 1 .. Len(ms)}
  BY <1>5 DEF Range
<1>7. largest \in Range(raw)
  <2>1. Range(raw) \in SUBSET Nat /\ Range(raw) # {}
    <3>1. \A k \in 1 .. Len(ms) : raw[k] \in Nat
      BY <1>4
    <3>2. raw[i] \in Range(raw)
      BY <1>6
    <3>3. \A w \in Range(raw) : w \in Nat
      BY <3>1, <1>6
    <3> QED
      BY <3>2, <3>3
  <2>2. IsFiniteSet(Range(raw))
    <3>1. IsFiniteSet(1 .. Len(ms))
      BY LevelSizes
    <3>2. raw \in Surjection(1 .. Len(ms), Range(raw))
      BY <1>5, <1>6 DEF Surjection, raw
    <3> QED
      BY <3>1, <3>2, FS_Surjection
  <2> QED
    BY <2>1, <2>2, GreatestExists
<1>8. largest < word
  BY <1>4, <1>6, <1>7
<1>9. ExcessBits(largest) = 0
  BY <1>8 DEF ExcessBits
<1>10. raw[i] \div 2 ^ ExcessBits(largest) = raw[i]
  BY <1>4, <1>9, NoShift, DivByOne
<1>11. Larger(raw[i], 1) = raw[i]
  BY <1>4 DEF Larger
<1>12. Weights(ms, at)[i] = Larger(raw[i] \div 2 ^ ExcessBits(largest), 1)
  <2> HIDE DEF largest
  <2> QED
    BY <1>1, <1>2
<1> QED
  BY <1>4, <1>10, <1>11, <1>12

\* Sizes scaled by one age: the claims of makers of equal age.
AreEvenWeights(weights, ms, age) == \A i \in 1 .. Len(ms) : weights[i] = ms[i].remaining * age

\* A common factor of part and whole makes no difference to the share.
LEMMA CommonFactor ==
  ASSUME NEW a \in Nat, NEW b \in Nat \ {0}, NEW c \in Nat \ {0}
  PROVE  (c * a) \div (c * b) = a \div b
<1> DEFINE q == a \div b
           r == a % b
<1>1. q \in Nat /\ a = b * q + r /\ r \in 0 .. b - 1
  BY DivMod
<1> HIDE DEF q, r
<1>2. c * a = (c * b) * q + c * r /\ c * r \in Nat /\ c * r < c * b /\ c * b \in Nat \ {0}
  <2>1. c * r < c * b
    <3>1. b - r \in Nat \ {0}
      BY <1>1
    <3>2. c * (b - r) > 0
      BY <3>1
    <3>3. c * (b - r) = c * b - c * r
      BY <1>1
    <3> QED
      BY <1>1, <3>2, <3>3
  <2>2. c * a = c * (b * q) + c * r
    BY <1>1
  <2>3. c * (b * q) = (c * b) * q
    BY <1>1
  <2> QED
    BY <1>1, <2>1, <2>2, <2>3
<1> DEFINE A == c * a
           B == c * b
           p == A \div B
           s == A % B
<1>3. A \in Nat /\ B \in Nat \ {0}
  BY <1>2
<1>4. p \in Nat /\ A = B * p + s /\ s \in 0 .. B - 1
  <2> HIDE DEF A, B
  <2> QED
    BY <1>3, DivMod
<1>5. A = B * q + c * r /\ c * r \in 0 .. B - 1
  BY <1>2
<1> DEFINE u == c * r
<1>6. u \in 0 .. B - 1 /\ A = B * q + u
  BY <1>5
<1> HIDE DEF p, s, A, B, u
<1>7. p = q
  <2>1. B * (p - q) = u - s
    BY <1>1, <1>3, <1>4, <1>6
  <2>2. u - s < B /\ s - u < B
    BY <1>3, <1>4, <1>6
  <2>3. ~(p > q)
    <3> SUFFICES ASSUME p > q PROVE FALSE
      OBVIOUS
    <3>1. p - q - 1 \in Nat
      BY <1>1, <1>4
    <3> DEFINE d == B * (p - q - 1)
    <3>2. B * (p - q) = d + B /\ d >= 0 /\ d \in Int
      BY <1>1, <1>3, <1>4, <3>1
    <3> HIDE DEF d
    <3>3. u - s = d + B
      BY <2>1, <3>2
    <3> QED
      BY <1>3, <1>4, <1>6, <2>2, <3>2, <3>3
  <2>4. ~(q > p)
    <3> SUFFICES ASSUME q > p PROVE FALSE
      OBVIOUS
    <3>1. q - p - 1 \in Nat
      BY <1>1, <1>4
    <3> DEFINE d == B * (q - p - 1)
    <3>2. B * (q - p) = d + B /\ d >= 0 /\ d \in Int
      BY <1>1, <1>3, <1>4, <3>1
    <3>3. B * (q - p) = s - u
      BY <1>1, <1>3, <1>4, <1>6
    <3> HIDE DEF d
    <3>4. s - u = d + B
      BY <3>2, <3>3
    <3> QED
      BY <1>3, <1>4, <1>6, <2>2, <3>2, <3>4
  <2> QED
    BY <1>1, <1>4, <2>3, <2>4
<1> QED
  BY <1>7 DEF p, q, A, B

\* The one pass such a fill takes is the apportionment of pro-rata.
LEMMA EvenPass ==
  ASSUME NEW ms, IsLevel(ms), NEW available \in Lots, available < Total(Sizes(ms)),
         NEW age \in Nat \ {0}, NEW weights, AreEvenWeights(weights, ms, age),
         NEW shares, shares = ProRataShares(available, ms)
  PROVE  WaterFillPass(NothingFilled(available, ms), ms, weights) =
           [shares |-> shares, pool |-> available - Total(shares), open |-> FALSE]
<1> DEFINE n == Len(ms)
           S == 1 .. n
           fill == NothingFilled(available, ms)
           f == Sizes(ms)
           total == Total(f)
           C == Contending(fill, ms)
           due == Due(fill, ms, weights)
<1>1. /\ n \in Nat /\ DOMAIN ms = S /\ IsFiniteSet(S)
      /\ \A i \in S : ms[i].remaining \in Nat \ {0} /\ f[i] = ms[i].remaining
      /\ total = SumFunctionOnSet(f, S)
  BY LevelSizes
<1>2. available \in Nat /\ total \in Nat /\ total # 0 /\ available < total
  BY LevelTotal DEF Lots
<1>3. fill.open /\ fill.pool = available /\ fill.shares = [i \in S |-> 0]
  BY <1>1 DEF NothingFilled
<1>4. C = S
  BY <1>1, <1>3 DEF Contending
<1>5. \A i \in S : weights[i] = age * f[i] /\ f[i] \in Nat \ {0}
  BY <1>1 DEF AreEvenWeights
<1>6. SumFunctionOnSet(weights, S) = age * total
  <2>1. IsMultiple(weights, age, f, S) /\ \A i \in S : f[i] \in Int
    BY <1>5 DEF IsMultiple
  <2> HIDE DEF S, f, total
  <2> QED
    BY <1>1, <2>1, SumScaled
<1>7. AreWeights(weights, ms)
  <2>1. \A k \in Nat \ {0} : age * k \in Nat \ {0}
    OBVIOUS
  <2> QED
    BY <1>5, <2>1 DEF AreWeights
<1>8. ASSUME NEW i \in S
      PROVE  /\ due[i] = (available * f[i]) \div total
             /\ due[i] < ms[i].remaining
  <2> DEFINE a == available * f[i]
  <2>1. a \in Nat /\ f[i] \in Nat \ {0}
    BY <1>2, <1>5
  <2>2. due[i] = (available * weights[i]) \div (age * total)
    BY <1>3, <1>4, <1>6 DEF Due
  <2>3. available * weights[i] = age * a
    BY <1>2, <1>5, <2>1
  <2>4. due[i] = a \div total
    <3> HIDE DEF a, due, total
    <3>1. (age * a) \div (age * total) = a \div total
      BY <1>2, <2>1, CommonFactor
    <3> QED
      BY <2>2, <2>3, <3>1
  <2>5. a \div total < f[i]
    <3> DEFINE q == a \div total
               size == f[i]
    <3>1. q \in Nat /\ total * q <= a
      <4> DEFINE r == a % total
      <4>1. q \in Nat /\ a = total * q + r /\ r \in 0 .. total - 1
        <5> HIDE DEF a, total
        <5> QED
          BY <1>2, <2>1, DivMod
      <4> HIDE DEF a, total, q, r
      <4>2. total * q \in Nat
        BY <1>2, <4>1
      <4> QED
        BY <1>2, <2>1, <4>1, <4>2
    <3>2. a = available * size /\ size \in Nat \ {0}
      BY <2>1
    <3> HIDE DEF q, size, a, total
    <3>3. (total - available) * size > 0 /\ (total - available) * size = total * size - available * size
      <4>1. total - available \in Nat \ {0}
        BY <1>2
      <4> QED
        BY <1>2, <3>2, <4>1
    <3>4. a < total * size
      BY <1>2, <3>2, <3>3
    <3>5. ~(size <= q)
      <4> SUFFICES ASSUME size <= q PROVE FALSE
        OBVIOUS
      <4>1. q - size \in Nat
        BY <3>1, <3>2
      <4>2. total * (q - size) >= 0 /\ total * (q - size) = total * q - total * size
        BY <1>2, <3>1, <3>2, <4>1
      <4> QED
        BY <1>2, <3>1, <3>2, <3>4, <4>2
    <3> QED
      BY <3>1, <3>2, <3>5 DEF q, size
  <2> QED
    BY <1>1, <2>4, <2>5
<1>9. Capped(fill, ms, weights) = {}
  <2>1. \A i \in C : ~(due[i] >= ms[i].remaining)
    <3> SUFFICES ASSUME NEW i \in C PROVE ~(due[i] >= ms[i].remaining)
      OBVIOUS
    <3>1. due[i] \in Nat /\ ms[i].remaining \in Nat /\ due[i] < ms[i].remaining
      <4>1. i \in S
        BY <1>4
      <4>2. available * f[i] \in Nat
        BY <1>2, <1>5, <4>1
      <4>3. (available * f[i]) \div total \in Nat
        <5> HIDE DEF f, total
        <5> QED
          BY <1>2, <4>2, DivMod
      <4> QED
        BY <1>1, <1>8, <4>1, <4>3
    <3> HIDE DEF due
    <3> QED
      BY <3>1
  <2> HIDE DEF C, due
  <2> QED
    BY <2>1 DEF Capped, C, due
<1>10. Served(fill, ms, weights) = S
  BY <1>4, <1>9 DEF Served
<1>11. Given(fill, ms, weights) = [i \in S |-> LotFloor(due[i])]
  BY <1>9, <1>10 DEF Given
<1>12. shares = [i \in S |-> LotFloor((available * f[i]) \div total)]
  BY <1>1 DEF ProRataShares
<1>13. Given(fill, ms, weights) = shares
  <2>1. \A i \in S : due[i] = (available * f[i]) \div total
    BY <1>8
  <2> HIDE DEF S, f, total, due
  <2> QED
    BY <1>11, <1>12, <2>1
<1>14. SharesAfter(fill, ms, weights) = shares
  <2>1. SharesAfter(fill, ms, weights) = [i \in S |-> shares[i]]
    BY <1>10, <1>13 DEF SharesAfter
  <2> QED
    BY <1>12, <2>1
<1>15. Total(shares) = SumFunctionOnSet(shares, S)
  BY <1>12 DEF Total, SumFunction
<1>16. C # {}
  <2>1. n # 0
    <3> SUFFICES ASSUME n = 0 PROVE FALSE
      OBVIOUS
    <3>1. S = {}
      BY <1>1
    <3>2. SumFunctionOnSet(f, {}) = 0
      BY SumStep, FS_EmptySet
    <3> QED
      BY <1>1, <1>2, <3>1, <3>2
  <2> QED
    BY <1>1, <1>4, <2>1
<1> DEFINE pass == WaterFillPass(fill, ms, weights)
<1> HIDE DEF fill
<1>17. pass = [shares |-> SharesAfter(fill, ms, weights),
               pool   |-> fill.pool - SumFunctionOnSet(Given(fill, ms, weights), Served(fill, ms, weights)),
               open   |-> Capped(fill, ms, weights) # {}]
  BY <1>3, <1>7, <1>16, PassGives
<1> HIDE DEF pass, S
<1>18. pass = [shares |-> shares, pool |-> available - Total(shares), open |-> FALSE]
  BY <1>3, <1>9, <1>10, <1>13, <1>14, <1>15, <1>17
<1> QED
  BY <1>18 DEF pass, fill

\* Nothing happens after it.
LEMMA EvenFill ==
  ASSUME NEW ms, IsLevel(ms), NEW available \in Lots, available < Total(Sizes(ms)),
         NEW age \in Nat \ {0}, NEW weights, AreEvenWeights(weights, ms, age),
         AreWeights(weights, ms), NEW shares, shares = ProRataShares(available, ms)
  PROVE  WaterFill(available, ms, weights) =
           [shares |-> shares, pool |-> available - Total(shares), open |-> FALSE]
<1> DEFINE n == Len(ms)
           done == [shares |-> shares, pool |-> available - Total(shares), open |-> FALSE]
<1>1. n \in Nat
  BY LevelSizes
<1>2. PICK run \in WaterFillRuns(available, ms, weights) :
        WaterFill(available, ms, weights) = run[n + 1]
  BY WaterFillRun
<1>3. /\ run[0] = NothingFilled(available, ms)
      /\ \A i \in 1 .. n + 1 : run[i] = WaterFillPass(run[i-1], ms, weights)
  BY <1>2 DEF WaterFillRuns
<1>4. run[1] = done
  <2>1. 1 \in 1 .. n + 1 /\ 1 - 1 = 0
    BY <1>1
  <2>2. run[1] = WaterFillPass(run[0], ms, weights)
    BY <1>3, <2>1
  <2>3. WaterFillPass(NothingFilled(available, ms), ms, weights) = done
    BY EvenPass
  <2> HIDE DEF done
  <2> QED
    BY <1>3, <2>2, <2>3
<1>5. WaterFillPass(done, ms, weights) = done
  <2>1. run[1] \in [shares : [1 .. n -> Nat], pool : Nat, open : BOOLEAN]
    BY <1>1, <1>2 DEF WaterFillRuns, Fills
  <2>2. done.open = FALSE
    OBVIOUS
  <2> HIDE DEF done
  <2>3. [done EXCEPT !.open = FALSE] = done
    BY <1>4, <2>1, <2>2
  <2> QED
    BY <2>2, <2>3 DEF WaterFillPass
<1> DEFINE G == {k \in 0 .. n : run[k+1] = done}
<1> HIDE DEF done
<1>6. 0 \in G
  BY <1>1, <1>4
<1>7. ASSUME NEW k \in 0 .. n - 1, k \in G PROVE k + 1 \in G
  <2>1. k + 2 \in 1 .. n + 1 /\ (k + 2) - 1 = k + 1 /\ (k + 1) + 1 = k + 2 /\ k + 1 \in 0 .. n
    BY <1>1
  <2>2. run[k+2] = WaterFillPass(run[k+1], ms, weights)
    BY <1>3, <2>1
  <2>3. run[k+1] = done
    BY <1>7
  <2> QED
    BY <1>5, <2>1, <2>2, <2>3
<1>8. n \in G
  <2> HIDE DEF G, n
  <2>1. \A k \in 0 .. n : k \in G
    BY <1>1, <1>6, <1>7, UpTo
  <2> QED
    BY <1>1, <2>1
<1> QED
  BY <1>2, <1>8 DEF done

\* Makers of one age divide as pro-rata does, if no weight overruns its word.
LEMMA EvenAgesDivideEvenly ==
  ASSUME NEW ms, IsLevel(ms), NEW available \in Lots, NEW at \in Nat, FitsWords(ms, WordBits),
         \A i \in 1 .. Len(ms) : ms[i].remaining * MaxAge < 2 ^ WordBits,
         \A i, j \in 1 .. Len(ms) : AgeTicks(ms[i], at) = AgeTicks(ms[j], at)
  PROVE  TimeProRataAllocate(available, ms, at) = ProRataAllocate(available, ms)
<1> DEFINE total == Total(Sizes(ms))
           weights == Weights(ms, at)
           fill == WaterFill(available, ms, weights)
           shares == ProRataShares(available, ms)
<1>1. available \in Nat /\ total \in Nat
  BY LevelTotal DEF Lots
<1>2. CASE available >= total
  BY <1>1, <1>2, TimeProRataSplits, ProRataSplits
<1>3. CASE available < total
  <2>1. PICK age \in Nat \ {0} : \A i \in 1 .. Len(ms) : AgeTicks(ms[i], at) = age
    <3>1. CASE 1 .. Len(ms) = {}
      <4>1. \A i \in 1 .. Len(ms) : AgeTicks(ms[i], at) = 1
        BY <3>1
      <4>2. 1 \in Nat \ {0}
        OBVIOUS
      <4> QED
        BY <4>1, <4>2
    <3>2. CASE 1 .. Len(ms) # {}
      <4>1. PICK k \in 1 .. Len(ms) : TRUE
        BY <3>2
      <4>2. AgeTicks(ms[k], at) \in 1 .. MaxAge /\ MaxAge \in Nat
        BY AgeIsBounded, AllocationAssumption
      <4>3. AgeTicks(ms[k], at) \in Nat \ {0}
        BY <4>2
      <4> QED
        BY <4>3
    <3> QED
      BY <3>1, <3>2
  <2>2. AreEvenWeights(weights, ms, age)
    BY <2>1, WholeWeights DEF AreEvenWeights
  <2>3. AreWeights(weights, ms)
    BY WeightsRank
  <2>4. TimeProRataAllocate(available, ms, at) = CrumbSweep(fill.shares, fill.pool, ms)
    BY <1>1, <1>3, TimeProRataSplits
  <2>5. fill = [shares |-> shares, pool |-> available - Total(shares), open |-> FALSE]
    <3> HIDE DEF weights
    <3> QED
      BY <1>3, <2>2, <2>3, EvenFill
  <2>6. ProRataAllocate(available, ms) = CrumbSweep(shares, available - Total(shares), ms)
    BY <1>1, <1>3, ProRataSplits
  <2> HIDE DEF fill, shares
  <2> QED
    BY <2>4, <2>5, <2>6
<1> QED
  BY <1>1, <1>2, <1>3

\* Every weight fits its word: nothing is shifted away.
WeightsFitWord == MaxLots * Lot * MaxAge < 2 ^ WordBits

\* Time pro-rata is pro-rata where every maker has rested equally long
\* (allocation.rs:280-281), as long as no weight is shifted; equal_ages shows
\* what shifting does.
THEOREM EqualAgesDivideEqually == ASSUME WeightsFitWord PROVE Spec => []EqualAgesAreProRata
<1>1. LevelInv => EqualAgesAreProRata
  <2> SUFFICES ASSUME LevelInv,
                      \A i, j \in DOMAIN makers : AgeTicks(makers[i], now) = AgeTicks(makers[j], now),
                      NEW available \in Takers
               PROVE  TimeProRataAllocate(available, makers, now) = ProRataAllocate(available, makers)
    BY DEF EqualAgesAreProRata
  <2>1. IsLevel(makers) /\ now \in Nat /\ DOMAIN makers = 1 .. Len(makers) /\ available \in Lots
    BY LevelSizes, TakersAreLots DEF LevelInv
  <2>2. ASSUME NEW i \in 1 .. Len(makers) PROVE makers[i].remaining * MaxAge < 2 ^ WordBits
    <3> DEFINE most == MaxLots * Lot
               word == 2 ^ WordBits
               size == makers[i].remaining
    <3>1. most \in Nat /\ MaxAge \in Nat /\ word \in Nat /\ most * MaxAge < word
      BY LevelAssumption, AllocationAssumption, PowerOfTwo DEF WeightsFitWord
    <3>2. size \in Nat /\ size <= most
      BY <2>1, LevelSizes DEF LevelInv
    <3> HIDE DEF most, word, size
    <3>3. size * MaxAge <= most * MaxAge /\ size * MaxAge \in Nat /\ most * MaxAge \in Nat
      BY <3>1, <3>2
    <3>4. size * MaxAge < word
      BY <3>1, <3>3
    <3> QED
      BY <3>4 DEF word, size
  <2>3. \A i, j \in 1 .. Len(makers) : AgeTicks(makers[i], now) = AgeTicks(makers[j], now)
    BY <2>1
  <2> QED
    BY <2>1, <2>2, <2>3, LevelFits, EvenAgesDivideEvenly
<1> QED
  BY <1>1, LevelIsKept, PTL

===============================================================================
