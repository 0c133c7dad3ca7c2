------------------------------- MODULE DataProofs -------------------------------
(***************************************************************************)
(* Induction over data, for the proofs about queues, levels and policies:  *)
(* least and greatest elements, induction over naturals and over finite    *)
(* sets, what a recursion along 0 .. n computes, sums, and finite sets put *)
(* in order.                                                               *)
(*                                                                         *)
(* An induction is stated about a set of good values, not about a          *)
(* predicate, so that a proof can cite it: whoever needs it defines the    *)
(* set of the values for which its claim holds.                            *)
(***************************************************************************)
EXTENDS Integers, SequencesExt, FiniteSetTheorems, SequenceTheorems, WellFoundedInduction, TLAPS

-------------------------------------------------------------------------------
(* Induction *)

\* A non-empty set of naturals has a least element (BTreeMap's first key).
LEMMA LeastExists ==
  ASSUME NEW S \in SUBSET Nat, S # {}
  PROVE  \E m \in S : \A n \in S : m <= n
<1> DEFINE R == OpToRel(<, Nat)
<1>1. IsWellFoundedOn(R, Nat)
  BY NatLessThanWellFounded
<1>2. \A n, m \in Nat : n < m => <<n, m>> \in R
  BY DEF OpToRel
<1> HIDE DEF R
<1>3. PICK m \in S : \A n \in S : ~(<<n, m>> \in R)
  BY <1>1, WFMin
<1>4. \A n \in S : ~(n < m)
  BY <1>2, <1>3
<1>5. \A n \in S : m <= n
  BY <1>4
<1> QED
  BY <1>5

\* What holds of 0 and passes from each number below n to the next holds up to n.
LEMMA UpTo ==
  ASSUME NEW n \in Nat, NEW G, 0 \in G, \A i \in 0 .. n - 1 : i \in G => i + 1 \in G
  PROVE  \A i \in 0 .. n : i \in G
<1> DEFINE Bad == {i \in 0 .. n : i \notin G}
<1>1. SUFFICES ASSUME Bad # {} PROVE FALSE
  OBVIOUS
<1>2. PICK m \in Bad : \A i \in Bad : m <= i
  <2>1. Bad \in SUBSET Nat
    OBVIOUS
  <2> HIDE DEF Bad
  <2> QED
    BY <1>1, <2>1, LeastExists
<1>3. m # 0 /\ m - 1 \in 0 .. n - 1
  BY <1>2
<1>4. m - 1 \in G
  BY <1>2, <1>3
<1> QED
  BY <1>2, <1>3, <1>4

\* What holds of a set if it holds of all the sets with one element less holds
\* of every part of a finite set.
LEMMA ByElements ==
  ASSUME NEW S, IsFiniteSet(S), NEW G,
         \A T \in SUBSET S : (\A x \in T : T \ {x} \in G) => T \in G
  PROVE  \A T \in SUBSET S : T \in G
<1> DEFINE Bad == {T \in SUBSET S : T \notin G}
           Counts == {Cardinality(T) : T \in Bad}
<1>1. SUFFICES ASSUME Bad # {} PROVE FALSE
  OBVIOUS
<1>2. \A T \in SUBSET S : IsFiniteSet(T) /\ Cardinality(T) \in Nat
  BY FS_Subset, FS_CardinalityType
<1>3. PICK T \in Bad : \A U \in Bad : Cardinality(T) <= Cardinality(U)
  <2>1. Counts \in SUBSET Nat /\ Counts # {}
    BY <1>1, <1>2
  <2>2. PICK k \in Counts : \A i \in Counts : k <= i
    <3> HIDE DEF Counts
    <3> QED
      BY <2>1, LeastExists
  <2> QED
    BY <2>2
<1>4. PICK x \in T : T \ {x} \notin G
  BY <1>3
<1>5. Cardinality(T \ {x}) = Cardinality(T) - 1
  BY <1>2, <1>3, <1>4, FS_RemoveElement
<1>6. T \ {x} \in Bad
  BY <1>3, <1>4
<1>7. Cardinality(T \ {x}) \in Nat /\ Cardinality(T) \in Nat
  BY <1>2, <1>3, <1>6
<1> HIDE DEF Bad
<1> QED
  BY <1>3, <1>5, <1>6, <1>7

\* A non-empty finite set of naturals has a greatest element (BTreeMap's last
\* key).  By contradiction, from a counterexample of least cardinality.
LEMMA GreatestExists ==
  ASSUME NEW S \in SUBSET Nat, S # {}, IsFiniteSet(S)
  PROVE  \E m \in S : \A n \in S : n <= m
<1> DEFINE HasGreatest(U) == \E m \in U : \A n \in U : n <= m
           Unbounded == {U \in SUBSET S : U # {} /\ ~HasGreatest(U)}
           Counts == {Cardinality(U) : U \in Unbounded}
<1>1. \A U \in SUBSET S : IsFiniteSet(U) /\ Cardinality(U) \in Nat
  BY FS_Subset, FS_CardinalityType
<1>2. SUFFICES ASSUME ~HasGreatest(S) PROVE FALSE
  OBVIOUS
<1>3. Counts \in SUBSET Nat /\ Counts # {}
  BY <1>1, <1>2
<1>4. PICK U \in Unbounded : \A V \in Unbounded : Cardinality(U) <= Cardinality(V)
  <2>1. PICK k \in Counts : \A n \in Counts : k <= n
    <3> HIDE DEF Counts
    <3> QED
      BY <1>3, LeastExists
  <2>2. PICK U \in Unbounded : k = Cardinality(U)
    BY <2>1
  <2>3. \A V \in Unbounded : Cardinality(V) \in Counts
    OBVIOUS
  <2> QED
    BY <2>1, <2>2, <2>3
<1>5. PICK x \in U : TRUE
  BY <1>4
<1>6. Cardinality(U \ {x}) < Cardinality(U)
  BY <1>1, <1>4, <1>5, FS_RemoveElement
<1>7. U \ {x} \notin Unbounded
  <2>1. U \ {x} \in SUBSET S
    BY <1>4
  <2>2. Cardinality(U \ {x}) \in Nat /\ Cardinality(U) \in Nat
    BY <1>1, <1>4, <2>1
  <2> HIDE DEF Unbounded
  <2> QED
    BY <1>4, <1>6, <2>2
<1>8. CASE U \ {x} = {}
  <2>1. \A n \in U : n <= x
    BY <1>5, <1>8
  <2> QED
    BY <2>1, <1>4, <1>5
<1>9. CASE U \ {x} # {}
  <2>1. PICK m \in U \ {x} : \A n \in U \ {x} : n <= m
    BY <1>7, <1>9
  <2>2. HasGreatest(U)
    <3>1. CASE m <= x
      BY <3>1, <2>1, <1>5
    <3>2. CASE ~(m <= x)
      BY <3>2, <2>1, <1>5
    <3> QED
      BY <3>1, <3>2
  <2> QED
    BY <2>2, <1>4
<1> QED
  BY <1>8, <1>9

-------------------------------------------------------------------------------
(* Division *)

LEMMA DivMod ==
  ASSUME NEW n \in Nat, NEW d \in Nat \ {0}
  PROVE  n \div d \in Nat /\ n = d * (n \div d) + (n % d) /\ n % d \in 0 .. d - 1
<1>1. n \div d \in Nat
  OBVIOUS
<1>2. n % d \in 0 .. d - 1
  OBVIOUS
<1>3. n = d * (n \div d) + (n % d)
  OBVIOUS
<1> QED
  BY <1>1, <1>2, <1>3

\* Division keeps the order.
LEMMA DivMonotone ==
  ASSUME NEW m \in Nat, NEW n \in Nat, NEW d \in Nat \ {0}, m <= n
  PROVE  m \div d <= n \div d
<1> DEFINE a == m \div d
           b == n \div d
<1>1. a \in Nat /\ b \in Nat /\ d * a <= m /\ n < d * b + d
  BY DivMod
<1> HIDE DEF a, b
<1>2. ~(b + 1 <= a)
  <2> SUFFICES ASSUME b + 1 <= a PROVE FALSE
    OBVIOUS
  <2> DEFINE low == d * a
             high == d * b + d
  <2>1. high = d * (b + 1) /\ d * (b + 1) <= low
    BY <1>1
  <2>2. low \in Int /\ high \in Int /\ low <= m /\ n < high /\ high <= low
    BY <1>1, <2>1
  <2> HIDE DEF low, high
  <2> QED
    BY <2>2
<1>3. a <= b
  BY <1>1, <1>2
<1> QED
  BY <1>3 DEF a, b

-------------------------------------------------------------------------------
(* Removing one element from a sequence *)

\* RemoveAt, the model of LevelQueue::remove_key (order_queue.rs:58-78), drops
\* one position and keeps the rest in order.
LEMMA RemoveAtElements ==
  ASSUME NEW S, NEW q \in Seq(S), NEW i \in 1 .. Len(q)
  PROVE  /\ RemoveAt(q, i) \in Seq(S)
         /\ Len(RemoveAt(q, i)) = Len(q) - 1
         /\ \A j \in 1 .. Len(q) - 1 :
              RemoveAt(q, i)[j] = IF j < i THEN q[j] ELSE q[j+1]
<1> DEFINE front == SubSeq(q, 1, i-1)
           back == SubSeq(q, i+1, Len(q))
<1>1. /\ front \in Seq(S)
      /\ Len(front) = i - 1
      /\ \A j \in 1 .. i - 1 : front[j] = q[j]
  BY SubSeqProperties
<1>2. /\ back \in Seq(S)
      /\ Len(back) = Len(q) - i
      /\ \A j \in 1 .. Len(q) - i : back[j] = q[i + j]
  BY SubSeqProperties
<1>3. RemoveAt(q, i) = front \o back
  BY DEF RemoveAt
<1> HIDE DEF front, back
<1>4. /\ front \o back \in Seq(S)
      /\ Len(front \o back) = Len(front) + Len(back)
      /\ \A j \in 1 .. Len(front) + Len(back) :
           (front \o back)[j] = IF j <= Len(front) THEN front[j] ELSE back[j - Len(front)]
  BY <1>1, <1>2, ConcatProperties
<1>5. ASSUME NEW j \in 1 .. Len(q) - 1
      PROVE  (front \o back)[j] = IF j < i THEN q[j] ELSE q[j+1]
  <2>1. CASE j < i
    BY <2>1, <1>1, <1>2, <1>4
  <2>2. CASE ~(j < i)
    <3>1. j - (i - 1) \in 1 .. Len(q) - i /\ i + (j - (i - 1)) = j + 1
      BY <2>2
    <3>2. (front \o back)[j] = back[j - (i - 1)]
      BY <2>2, <1>1, <1>2, <1>4
    <3> QED
      BY <2>2, <3>1, <3>2, <1>2
  <2> QED
    BY <2>1, <2>2
<1> QED
  BY <1>1, <1>2, <1>3, <1>4, <1>5

-------------------------------------------------------------------------------
(* Recursion along 0 .. n *)

\* What a step from each index to the next makes of a value to start from.
Recursions(n, V, base, step) ==
  {g \in [0 .. n -> V] : g[0] = base /\ \A i \in 1 .. n : g[i] = step[i][g[i-1]]}

IsStepwise(n, V, base, step) == n \in Nat /\ base \in V /\ step \in [1 .. n -> [V -> V]]

LEMMA RecursionExists ==
  ASSUME NEW n, NEW V, NEW base, NEW step, IsStepwise(n, V, base, step)
  PROVE  Recursions(n, V, base, step) # {}
<1> USE DEF IsStepwise
<1> DEFINE Good(m) == {g \in [0 .. m -> V] :
                         /\ g[0] = base
                         /\ \A i \in 1 .. m : g[i] = step[i][g[i-1]]}
           G == {m \in 0 .. n : Good(m) # {}}
<1>1. 0 \in G
  <2>1. [i \in 0 .. 0 |-> base] \in Good(0)
    OBVIOUS
  <2> QED
    BY <2>1
<1>2. ASSUME NEW m \in 0 .. n - 1, m \in G PROVE m + 1 \in G
  <2>1. PICK g \in Good(m) : TRUE
    BY <1>2
  <2> DEFINE h == [i \in 0 .. m + 1 |-> IF i = m + 1 THEN step[m+1][g[m]] ELSE g[i]]
  <2>2. \A i \in 0 .. m : g[i] \in V /\ h[i] = g[i]
    BY <2>1
  <2>3. m + 1 \in 1 .. n /\ step[m+1] \in [V -> V]
    BY <1>2
  <2>4. h \in [0 .. m + 1 -> V] /\ h[m+1] = step[m+1][h[m]]
    BY <2>2, <2>3
  <2>5. \A i \in 1 .. m + 1 : h[i] = step[i][h[i-1]]
    <3> SUFFICES ASSUME NEW i \in 1 .. m + 1 PROVE h[i] = step[i][h[i-1]]
      OBVIOUS
    <3> HIDE DEF h
    <3>1. CASE i = m + 1
      BY <2>4, <3>1
    <3>2. CASE i # m + 1
      <4>1. i \in 1 .. m /\ i - 1 \in 0 .. m /\ i \in 0 .. m
        BY <3>2
      <4> QED
        BY <2>1, <2>2, <4>1
    <3> QED
      BY <3>1, <3>2
  <2>6. h[0] = base
    BY <2>1, <2>2
  <2> HIDE DEF h
  <2>7. h \in Good(m + 1)
    BY <2>4, <2>5, <2>6
  <2>8. m + 1 \in 0 .. n
    OBVIOUS
  <2> QED
    BY <2>7, <2>8
<1>3. n \in G
  <2> HIDE DEF G
  <2>1. \A m \in 0 .. n - 1 : m \in G => m + 1 \in G
    BY <1>2
  <2>2. \A m \in 0 .. n : m \in G
    BY <1>1, <2>1, UpTo
  <2> QED
    BY <2>2
<1> QED
  BY <1>3 DEF Recursions

\* Whatever takes those steps from the base stays among the values.
LEMMA StepwiseIsRecursion ==
  ASSUME NEW n, NEW V, NEW base, NEW step, IsStepwise(n, V, base, step),
         NEW g, g = [i \in 0 .. n |-> g[i]], g[0] = base,
         \A i \in 1 .. n : g[i-1] \in V => g[i] = step[i][g[i-1]]
  PROVE  g \in Recursions(n, V, base, step)
<1> DEFINE G == {i \in 0 .. n : g[i] \in V}
<1>1. n \in Nat /\ base \in V /\ \A i \in 1 .. n, v \in V : step[i][v] \in V
  BY DEF IsStepwise
<1>2. 0 \in G /\ \A i \in 0 .. n - 1 : i \in G => i + 1 \in G
  <2>1. 0 \in G
    BY <1>1
  <2>2. ASSUME NEW i \in 0 .. n - 1, i \in G PROVE i + 1 \in G
    <3>1. i + 1 \in 1 .. n /\ i + 1 \in 0 .. n /\ (i + 1) - 1 = i
      BY <1>1
    <3>2. g[i+1] = step[i+1][g[i]]
      BY <2>2, <3>1
    <3> QED
      BY <1>1, <2>2, <3>1, <3>2
  <2> QED
    BY <2>1, <2>2
<1>3. \A i \in 0 .. n : i \in G
  <2> HIDE DEF G
  <2> QED
    BY <1>1, <1>2, UpTo
<1>4. g \in [0 .. n -> V]
  BY <1>3
<1>5. \A i \in 1 .. n : i - 1 \in 0 .. n
  BY <1>1
<1> QED
  BY <1>3, <1>4, <1>5 DEF Recursions

-------------------------------------------------------------------------------
(* Recursion over the parts of a finite set *)

\* A walk over the parts of a set, one element at a time: `pick' says which
\* element comes last, and `step' what it makes of the walk over the others.
IsWalkable(S, V, base, pick, step) ==
  /\ IsFiniteSet(S)
  /\ base \in V
  /\ \A T \in SUBSET S : T # {} => pick[T] \in T
  /\ step \in [S -> [V -> V]]

Unwindings(S, V, base, pick, step) ==
  {g \in [SUBSET S -> V] :
     /\ g[{}] = base
     /\ \A T \in SUBSET S : T # {} => g[T] = step[pick[T]][g[T \ {pick[T]}]]}

LEMMA UnwindingExists ==
  ASSUME NEW S, NEW V, NEW base, NEW pick, NEW step, IsWalkable(S, V, base, pick, step)
  PROVE  Unwindings(S, V, base, pick, step) # {}
<1> USE DEF IsWalkable
<1> DEFINE Small(n) == {T \in SUBSET S : Cardinality(T) <= n}
           Next(g, T) == IF T = {} THEN base ELSE step[pick[T]][g[T \ {pick[T]}]]
           Good(n) == {g \in [Small(n) -> V] : \A T \in Small(n) : g[T] = Next(g, T)}
           N == Cardinality(S)
           G == {n \in 0 .. N : Good(n) # {}}
<1>1. \A T \in SUBSET S : IsFiniteSet(T) /\ Cardinality(T) \in Nat
  BY FS_Subset, FS_CardinalityType
<1>2. \A T \in SUBSET S : T # {} => /\ pick[T] \in S
                                    /\ T \ {pick[T]} \in SUBSET S
                                    /\ Cardinality(T \ {pick[T]}) = Cardinality(T) - 1
  BY <1>1, FS_RemoveElement
<1>3. \A T \in SUBSET S : Cardinality(T) = 0 <=> T = {}
  BY <1>1, FS_EmptySet
<1>4. 0 \in G
  <2>1. [T \in Small(0) |-> base] \in Good(0)
    BY <1>1, <1>3
  <2>2. 0 \in 0 .. N
    BY <1>1
  <2> HIDE DEF Good, N
  <2> QED
    BY <2>1, <2>2
<1>5. ASSUME NEW n \in 0 .. N - 1, n \in G PROVE n + 1 \in G
  <2>1. PICK g \in Good(n) : TRUE
    BY <1>5
  <2> DEFINE h == [T \in Small(n + 1) |-> Next(g, T)]
  <2>2. \A T \in Small(n + 1) : T # {} => T \ {pick[T]} \in Small(n)
    BY <1>1, <1>2
  <2>3. ASSUME NEW T \in Small(n) PROVE T \in Small(n + 1) /\ h[T] = g[T]
    <3>1. T \in Small(n + 1)
      BY <1>1
    <3>2. g[T] = Next(g, T)
      BY <2>1
    <3> QED
      BY <3>1, <3>2
  <2>4. ASSUME NEW T \in Small(n + 1) PROVE Next(h, T) = Next(g, T) /\ Next(g, T) \in V
    <3>1. CASE T = {}
      BY <3>1
    <3>2. CASE T # {}
      <4> DEFINE U == T \ {pick[T]}
      <4>1. U \in Small(n) /\ pick[T] \in S
        BY <3>2, <1>2, <2>2
      <4>2. h[U] = g[U] /\ g[U] \in V
        BY <4>1, <2>1, <2>3
      <4> HIDE DEF U, h
      <4>3. Next(h, T) = step[pick[T]][h[U]] /\ Next(g, T) = step[pick[T]][g[U]]
        BY <3>2 DEF U
      <4> QED
        BY <4>1, <4>2, <4>3
    <3> QED
      BY <3>1, <3>2
  <2>5. h \in [Small(n + 1) -> V] /\ \A T \in Small(n + 1) : h[T] = Next(h, T)
    BY <2>4
  <2>6. n + 1 \in 0 .. N
    BY <1>1
  <2> HIDE DEF h, N
  <2> QED
    BY <2>5, <2>6
<1>6. N \in G
  <2>1. N \in Nat
    BY <1>1
  <2> HIDE DEF G, N
  <2>2. \A n \in 0 .. N - 1 : n \in G => n + 1 \in G
    BY <1>5
  <2>3. \A n \in 0 .. N : n \in G
    BY <1>4, <2>1, <2>2, UpTo
  <2> QED
    BY <2>1, <2>3
<1>7. PICK g \in Good(N) : TRUE
  BY <1>6
<1>8. Small(N) = SUBSET S
  BY <1>1, FS_Subset
<1>9. g \in [SUBSET S -> V] /\ \A T \in SUBSET S : g[T] = Next(g, T)
  BY <1>7, <1>8
<1>10. {} \in SUBSET S
  OBVIOUS
<1>11. g \in Unwindings(S, V, base, pick, step)
  BY <1>9, <1>10 DEF Unwindings
<1> QED
  BY <1>11

-------------------------------------------------------------------------------
(* Sums *)

\* The walk by which a sum is computed: some element first, then the others.
IsWalk(g, f, S) ==
  g = [T \in SUBSET S |->
         IF T = {} THEN 0
         ELSE f[CHOOSE x \in T : TRUE] + g[T \ {CHOOSE x \in T : TRUE}]]

LEMMA SumIsWalk ==
  ASSUME NEW f, NEW S
  PROVE  SumFunctionOnSet(f, S) = (CHOOSE g : IsWalk(g, f, S))[S]
BY DEF SumFunctionOnSet, FoldFunctionOnSet, MapThenFoldSet, IsWalk

LEMMA WalkExists ==
  ASSUME NEW S, IsFiniteSet(S), NEW f, \A x \in S : f[x] \in Int
  PROVE  \E g \in [SUBSET S -> Int] : IsWalk(g, f, S)
<1> DEFINE pick == [T \in SUBSET S |-> CHOOSE x \in T : TRUE]
           step == [x \in S |-> [v \in Int |-> f[x] + v]]
<1>1. \A T \in SUBSET S : T # {} => pick[T] = (CHOOSE x \in T : TRUE) /\ pick[T] \in T
  <2> SUFFICES ASSUME NEW T \in SUBSET S, T # {}
               PROVE  pick[T] = (CHOOSE x \in T : TRUE) /\ pick[T] \in T
    OBVIOUS
  <2>1. \E x \in T : TRUE
    OBVIOUS
  <2> QED
    BY <2>1
<1>2. step \in [S -> [Int -> Int]]
  OBVIOUS
<1>3. PICK g \in Unwindings(S, Int, 0, pick, step) : TRUE
  <2>1. IsWalkable(S, Int, 0, pick, step)
    BY <1>1, <1>2 DEF IsWalkable
  <2> HIDE DEF pick, step
  <2> QED
    BY <2>1, UnwindingExists
<1>4. \A T \in SUBSET S : T # {} => step[pick[T]][g[T \ {pick[T]}]] = f[pick[T]] + g[T \ {pick[T]}]
  <2> SUFFICES ASSUME NEW T \in SUBSET S, T # {}
               PROVE  step[pick[T]][g[T \ {pick[T]}]] = f[pick[T]] + g[T \ {pick[T]}]
    OBVIOUS
  <2>1. g[T \ {pick[T]}] \in Int
    BY <1>3 DEF Unwindings
  <2>2. pick[T] \in S
    BY <1>1
  <2> HIDE DEF pick
  <2> QED
    BY <2>1, <2>2
<1> DEFINE Value(T) == IF T = {} THEN 0
                      ELSE f[CHOOSE x \in T : TRUE] + g[T \ {CHOOSE x \in T : TRUE}]
<1>5. ASSUME NEW T \in SUBSET S PROVE g[T] = Value(T)
  <2>1. pick[T] = CHOOSE x \in T : TRUE
    OBVIOUS
  <2> HIDE DEF pick, step
  <2> QED
    BY <1>3, <1>4, <2>1 DEF Unwindings
<1> HIDE DEF Value
<1>6. g \in [SUBSET S -> Int]
  BY <1>3 DEF Unwindings
<1>7. g = [T \in SUBSET S |-> Value(T)]
  BY <1>5, <1>6
<1>8. IsWalk(g, f, S)
  BY <1>7 DEF IsWalk, Value
<1> QED
  BY <1>6, <1>8

\* There is one walk.
LEMMA WalkIsUnique ==
  ASSUME NEW S, IsFiniteSet(S), NEW f, NEW T \in SUBSET S,
         NEW g, NEW h, IsWalk(g, f, S), IsWalk(h, f, T)
  PROVE  g[T] = h[T]
<1> DEFINE G == {U \in SUBSET T : g[U] = h[U]}
<1>1. \A U \in SUBSET T : /\ g[U] = IF U = {} THEN 0
                                    ELSE f[CHOOSE x \in U : TRUE] + g[U \ {CHOOSE x \in U : TRUE}]
                          /\ h[U] = IF U = {} THEN 0
                                    ELSE f[CHOOSE x \in U : TRUE] + h[U \ {CHOOSE x \in U : TRUE}]
  BY DEF IsWalk
<1>2. ASSUME NEW U \in SUBSET T, \A x \in U : U \ {x} \in G PROVE U \in G
  <2>1. CASE U = {}
    BY <1>1, <2>1
  <2>2. CASE U # {}
    <3> DEFINE c == CHOOSE x \in U : TRUE
    <3>1. c \in U
      BY <2>2
    <3>2. g[U] = f[c] + g[U \ {c}] /\ h[U] = f[c] + h[U \ {c}]
      BY <1>1, <2>2
    <3> HIDE DEF c
    <3> QED
      BY <1>2, <3>1, <3>2
  <2> QED
    BY <2>1, <2>2
<1>3. IsFiniteSet(T)
  BY FS_Subset
<1>4. T \in G
  <2> HIDE DEF G
  <2>1. \A U \in SUBSET T : U \in G
    BY <1>2, <1>3, ByElements
  <2> QED
    BY <2>1
<1> QED
  BY <1>4

\* A sum is some element's share and the sum of the others.
LEMMA SumStep ==
  ASSUME NEW S, IsFiniteSet(S), NEW f, \A x \in S : f[x] \in Int
  PROVE  /\ SumFunctionOnSet(f, S) \in Int
         /\ S = {} => SumFunctionOnSet(f, S) = 0
         /\ S # {} => \E c \in S : SumFunctionOnSet(f, S) = f[c] + SumFunctionOnSet(f, S \ {c})
<1> DEFINE walk(T) == CHOOSE g : IsWalk(g, f, T)
<1>1. ASSUME NEW T \in SUBSET S PROVE IsWalk(walk(T), f, T) /\ SumFunctionOnSet(f, T) = walk(T)[T]
  <2>1. IsFiniteSet(T) /\ \A x \in T : f[x] \in Int
    BY FS_Subset
  <2>2. \E g : IsWalk(g, f, T)
    BY <2>1, WalkExists
  <2> QED
    BY <2>2, SumIsWalk
<1> HIDE DEF walk
<1>2. PICK g \in [SUBSET S -> Int] : IsWalk(g, f, S)
  BY WalkExists
<1>3. \A T \in SUBSET S : SumFunctionOnSet(f, T) = g[T]
  BY <1>1, <1>2, WalkIsUnique
<1>4. g[S] \in Int /\ S \in SUBSET S
  OBVIOUS
<1>5. S = {} => g[S] = 0
  BY <1>2 DEF IsWalk
<1>6. ASSUME S # {} PROVE \E c \in S : g[S] = f[c] + g[S \ {c}]
  <2> DEFINE c == CHOOSE x \in S : TRUE
  <2>1. c \in S
    BY <1>6
  <2>2. g[S] = f[c] + g[S \ {c}]
    BY <1>2, <1>6 DEF IsWalk
  <2> HIDE DEF c
  <2> QED
    BY <2>1, <2>2
<1>7. \A c \in S : S \ {c} \in SUBSET S
  OBVIOUS
<1> QED
  BY <1>3, <1>4, <1>5, <1>6, <1>7

\* In whatever order it is walked: any element may come first.
LEMMA SumRemove ==
  ASSUME NEW S, IsFiniteSet(S), NEW f, \A x \in S : f[x] \in Int, NEW x \in S
  PROVE  SumFunctionOnSet(f, S) = f[x] + SumFunctionOnSet(f, S \ {x})
<1> DEFINE Sum(T) == SumFunctionOnSet(f, T)
           G == {T \in SUBSET S : \A y \in T : Sum(T) = f[y] + Sum(T \ {y})}
<1>1. ASSUME NEW T \in SUBSET S
      PROVE  Sum(T) \in Int /\ (T # {} => \E c \in T : Sum(T) = f[c] + Sum(T \ {c}))
  BY SumStep, FS_Subset
<1> HIDE DEF Sum
<1>2. ASSUME NEW T \in SUBSET S, \A y \in T : T \ {y} \in G PROVE T \in G
  <2> SUFFICES ASSUME NEW y \in T PROVE Sum(T) = f[y] + Sum(T \ {y})
    OBVIOUS
  <2>1. PICK c \in T : Sum(T) = f[c] + Sum(T \ {c})
    BY <1>1
  <2>2. CASE c = y
    BY <2>1, <2>2
  <2>3. CASE c # y
    <3>1. T \ {c} \in G /\ T \ {y} \in G
      BY <1>2
    <3> DEFINE D == (T \ {c}) \ {y}
    <3>2. D = (T \ {y}) \ {c}
      OBVIOUS
    <3>3. Sum(T \ {c}) = f[y] + Sum(D)
      BY <3>1, <2>3
    <3> HIDE DEF D
    <3>4. Sum(T \ {y}) = f[c] + Sum(D)
      BY <3>1, <3>2, <2>3
    <3>5. f[c] \in Int /\ f[y] \in Int /\ Sum(D) \in Int
      BY <1>1, <3>2
    <3> QED
      BY <2>1, <3>3, <3>4, <3>5
  <2> QED
    BY <2>2, <2>3
<1>3. S \in G
  <2> HIDE DEF G
  <2>1. \A T \in SUBSET S : T \in G
    BY <1>2, ByElements
  <2> QED
    BY <2>1
<1> QED
  BY <1>3 DEF Sum

\* The sums over the parts of a set, an element at a time.
LEMMA SumParts ==
  ASSUME NEW S, IsFiniteSet(S), NEW f, \A x \in S : f[x] \in Int
  PROVE  \A T \in SUBSET S :
           /\ SumFunctionOnSet(f, T) \in Int
           /\ T = {} => SumFunctionOnSet(f, T) = 0
           /\ \A x \in T : SumFunctionOnSet(f, T) = f[x] + SumFunctionOnSet(f, T \ {x})
<1> SUFFICES ASSUME NEW T \in SUBSET S
             PROVE  /\ SumFunctionOnSet(f, T) \in Int
                    /\ T = {} => SumFunctionOnSet(f, T) = 0
                    /\ \A x \in T : SumFunctionOnSet(f, T) = f[x] + SumFunctionOnSet(f, T \ {x})
  OBVIOUS
<1>1. IsFiniteSet(T) /\ \A x \in T : f[x] \in Int
  BY FS_Subset
<1> QED
  BY <1>1, SumStep, SumRemove

\* A sum of naturals is one.
LEMMA SumNat ==
  ASSUME NEW S, IsFiniteSet(S), NEW f, \A x \in S : f[x] \in Nat
  PROVE  SumFunctionOnSet(f, S) \in Nat
<1> DEFINE F(T) == SumFunctionOnSet(f, T)
           G == {T \in SUBSET S : F(T) \in Nat}
<1>1. ASSUME NEW T \in SUBSET S
      PROVE  F(T) \in Int /\ (T = {} => F(T) = 0) /\ \A x \in T : F(T) = f[x] + F(T \ {x})
  BY SumParts
<1> HIDE DEF F
<1>2. ASSUME NEW T \in SUBSET S, \A x \in T : T \ {x} \in G PROVE T \in G
  <2>1. CASE T = {}
    BY <1>1, <2>1
  <2>2. ASSUME NEW x \in T PROVE T \in G
    <3>1. F(T) = f[x] + F(T \ {x}) /\ F(T \ {x}) \in Nat /\ f[x] \in Nat
      BY <1>1, <1>2
    <3> QED
      BY <3>1
  <2> QED
    BY <2>1, <2>2
<1>3. \A T \in SUBSET S : T \in G
  <2> HIDE DEF G
  <2> QED
    BY <1>2, ByElements
<1> QED
  BY <1>3 DEF F

\* What adds up element by element adds up.
LEMMA SumAdds ==
  ASSUME NEW S, IsFiniteSet(S), NEW f, NEW g, NEW h,
         \A x \in S : f[x] \in Int /\ g[x] \in Int /\ h[x] = f[x] + g[x]
  PROVE  SumFunctionOnSet(h, S) = SumFunctionOnSet(f, S) + SumFunctionOnSet(g, S)
<1> DEFINE F(T) == SumFunctionOnSet(f, T)
           K(T) == SumFunctionOnSet(g, T)
           H(T) == SumFunctionOnSet(h, T)
           G == {T \in SUBSET S : H(T) = F(T) + K(T)}
<1>1. ASSUME NEW T \in SUBSET S
      PROVE  /\ F(T) \in Int /\ (T = {} => F(T) = 0) /\ \A x \in T : F(T) = f[x] + F(T \ {x})
             /\ K(T) \in Int /\ (T = {} => K(T) = 0) /\ \A x \in T : K(T) = g[x] + K(T \ {x})
             /\ H(T) \in Int /\ (T = {} => H(T) = 0) /\ \A x \in T : H(T) = h[x] + H(T \ {x})
  <2>1. (\A x \in S : f[x] \in Int) /\ (\A x \in S : g[x] \in Int) /\ (\A x \in S : h[x] \in Int)
    OBVIOUS
  <2>2. F(T) \in Int /\ (T = {} => F(T) = 0) /\ \A x \in T : F(T) = f[x] + F(T \ {x})
    BY <2>1, SumParts
  <2>3. K(T) \in Int /\ (T = {} => K(T) = 0) /\ \A x \in T : K(T) = g[x] + K(T \ {x})
    BY <2>1, SumParts
  <2>4. H(T) \in Int /\ (T = {} => H(T) = 0) /\ \A x \in T : H(T) = h[x] + H(T \ {x})
    BY <2>1, SumParts
  <2> QED
    BY <2>2, <2>3, <2>4
<1> HIDE DEF F, K, H
<1>2. ASSUME NEW T \in SUBSET S, \A x \in T : T \ {x} \in G PROVE T \in G
  <2>1. CASE T = {}
    BY <1>1, <2>1
  <2>2. CASE T # {}
    <3>1. PICK x \in T : TRUE
      BY <2>2
    <3> DEFINE U == T \ {x}
    <3>2. U \in SUBSET S /\ H(U) = F(U) + K(U)
      BY <1>2, <3>1
    <3>3. F(T) = f[x] + F(U) /\ K(T) = g[x] + K(U) /\ H(T) = h[x] + H(U)
      BY <1>1, <3>1
    <3> HIDE DEF U
    <3>4. H(T) = F(T) + K(T)
      BY <1>1, <3>1, <3>2, <3>3
    <3> QED
      BY <3>4
  <2> QED
    BY <2>1, <2>2
<1>3. \A T \in SUBSET S : T \in G
  <2> HIDE DEF G
  <2> QED
    BY <1>2, ByElements
<1> QED
  BY <1>3 DEF F, K, H

\* A sum is of values, not of the function they come from.
LEMMA SumSame ==
  ASSUME NEW S, IsFiniteSet(S), NEW f, NEW g, \A x \in S : f[x] \in Int /\ g[x] = f[x]
  PROVE  SumFunctionOnSet(g, S) = SumFunctionOnSet(f, S)
<1> DEFINE F(T) == SumFunctionOnSet(f, T)
           K(T) == SumFunctionOnSet(g, T)
           G == {T \in SUBSET S : K(T) = F(T)}
<1>1. ASSUME NEW T \in SUBSET S
      PROVE  /\ F(T) \in Int /\ (T = {} => F(T) = 0) /\ \A x \in T : F(T) = f[x] + F(T \ {x})
             /\ K(T) \in Int /\ (T = {} => K(T) = 0) /\ \A x \in T : K(T) = g[x] + K(T \ {x})
  BY SumParts
<1> HIDE DEF F, K
<1>2. ASSUME NEW T \in SUBSET S, \A x \in T : T \ {x} \in G PROVE T \in G
  <2>1. CASE T = {}
    BY <1>1, <2>1
  <2>2. ASSUME NEW x \in T PROVE T \in G
    BY <1>1, <1>2
  <2> QED
    BY <2>1, <2>2
<1>3. \A T \in SUBSET S : T \in G
  <2> HIDE DEF G
  <2> QED
    BY <1>2, ByElements
<1> QED
  BY <1>3 DEF F, K

\* Nothing adds up to nothing.
LEMMA SumOfZeros ==
  ASSUME NEW S, IsFiniteSet(S), NEW f, \A x \in S : f[x] = 0
  PROVE  SumFunctionOnSet(f, S) = 0
<1> DEFINE F(T) == SumFunctionOnSet(f, T)
           G == {T \in SUBSET S : F(T) = 0}
<1>1. ASSUME NEW T \in SUBSET S
      PROVE  F(T) \in Int /\ (T = {} => F(T) = 0) /\ \A x \in T : F(T) = f[x] + F(T \ {x})
  BY SumParts
<1> HIDE DEF F
<1>2. ASSUME NEW T \in SUBSET S, \A x \in T : T \ {x} \in G PROVE T \in G
  <2>1. CASE T = {}
    BY <1>1, <2>1
  <2>2. ASSUME NEW x \in T PROVE T \in G
    <3>1. F(T) = f[x] + F(T \ {x}) /\ f[x] = 0 /\ F(T \ {x}) = 0
      BY <1>1, <1>2
    <3> QED
      BY <3>1
  <2> QED
    BY <2>1, <2>2
<1>3. \A T \in SUBSET S : T \in G
  <2> HIDE DEF G
  <2> QED
    BY <1>2, ByElements
<1> QED
  BY <1>3 DEF F

\* A larger share each, a larger sum.
LEMMA SumAtMost ==
  ASSUME NEW S, IsFiniteSet(S), NEW f, NEW g,
         \A x \in S : f[x] \in Int /\ g[x] \in Int /\ f[x] <= g[x]
  PROVE  SumFunctionOnSet(f, S) <= SumFunctionOnSet(g, S)
<1> DEFINE h == [x \in S |-> g[x] - f[x]]
<1>1. \A x \in S : h[x] \in Nat /\ g[x] = f[x] + h[x]
  OBVIOUS
<1> HIDE DEF h
<1>2. SumFunctionOnSet(g, S) = SumFunctionOnSet(f, S) + SumFunctionOnSet(h, S)
  BY <1>1, SumAdds
<1>3. SumFunctionOnSet(h, S) \in Nat
  BY <1>1, SumNat
<1>4. SumFunctionOnSet(f, S) \in Int
  BY SumStep
<1> QED
  BY <1>2, <1>3, <1>4

\* The part of a set that is counted: nothing elsewhere.
LEMMA SumOfPart ==
  ASSUME NEW S, IsFiniteSet(S), NEW f, \A x \in S : f[x] \in Int,
         NEW T \in SUBSET S, \A x \in S \ T : f[x] = 0
  PROVE  SumFunctionOnSet(f, S) = SumFunctionOnSet(f, T)
<1> DEFINE F(U) == SumFunctionOnSet(f, U)
           G == {U \in SUBSET S : F(U) = F(U \cap T)}
<1>1. ASSUME NEW U \in SUBSET S
      PROVE  F(U) \in Int /\ \A x \in U : F(U) = f[x] + F(U \ {x})
  BY SumParts
<1> HIDE DEF F
<1>2. ASSUME NEW U \in SUBSET S, \A x \in U : U \ {x} \in G PROVE U \in G
  <2>1. CASE U = {}
    <3>1. U \cap T = U
      BY <2>1
    <3> QED
      BY <3>1
  <2>2. ASSUME NEW x \in U PROVE U \in G
    <3>1. F(U) = f[x] + F(U \ {x}) /\ F(U \ {x}) = F((U \ {x}) \cap T)
      BY <1>1, <1>2
    <3>2. CASE x \in T
      <4> DEFINE V == U \cap T
      <4>1. V \in SUBSET S /\ x \in V /\ V \ {x} = (U \ {x}) \cap T
        BY <3>2
      <4>2. F(V) = f[x] + F(V \ {x})
        BY <1>1, <4>1
      <4> QED
        BY <3>1, <4>1, <4>2
    <3>3. CASE x \notin T
      <4> DEFINE V == U \cap T
      <4>1. V \in SUBSET S /\ V = (U \ {x}) \cap T /\ f[x] = 0
        BY <3>3
      <4> HIDE DEF V
      <4>2. F(U) = 0 + F(V) /\ F(V) \in Int
        BY <1>1, <3>1, <4>1
      <4>3. F(U) = F(V)
        BY <4>2
      <4> QED
        BY <4>3 DEF V
    <3> QED
      BY <3>2, <3>3
  <2> QED
    BY <2>1, <2>2
<1>3. \A U \in SUBSET S : U \in G
  <2> HIDE DEF G
  <2> QED
    BY <1>2, ByElements
<1>4. S \cap T = T
  OBVIOUS
<1> QED
  BY <1>3, <1>4 DEF F

\* A sum does not depend on the names of what is summed.
LEMMA SumRenamed ==
  ASSUME NEW S, IsFiniteSet(S), NEW f, \A x \in S : f[x] \in Int,
         NEW T, IsFiniteSet(T), NEW name \in [T -> S], NEW g,
         \A t \in T : g[t] = f[name[t]],
         \A t, u \in T : name[t] = name[u] => t = u,
         \A x \in S : \E t \in T : name[t] = x
  PROVE  SumFunctionOnSet(g, T) = SumFunctionOnSet(f, S)
<1> DEFINE F(U) == SumFunctionOnSet(f, U)
           K(U) == SumFunctionOnSet(g, U)
           Named(U) == {t \in T : name[t] \in U}
           G == {U \in SUBSET S : F(U) = K(Named(U))}
<1>1. ASSUME NEW U \in SUBSET S
      PROVE  F(U) \in Int /\ (U = {} => F(U) = 0) /\ \A x \in U : F(U) = f[x] + F(U \ {x})
  BY SumParts
<1>2. ASSUME NEW U \in SUBSET T
      PROVE  K(U) \in Int /\ (U = {} => K(U) = 0) /\ \A t \in U : K(U) = g[t] + K(U \ {t})
  BY SumParts
<1> HIDE DEF F, K
<1>3. ASSUME NEW U \in SUBSET S, \A x \in U : U \ {x} \in G PROVE U \in G
  <2>1. CASE U = {}
    <3>1. Named(U) = {}
      BY <2>1
    <3>2. {} \in SUBSET T
      OBVIOUS
    <3> QED
      BY <1>1, <1>2, <2>1, <3>1, <3>2
  <2>2. ASSUME NEW x \in U PROVE U \in G
    <3>1. F(U) = f[x] + F(U \ {x}) /\ F(U \ {x}) = K(Named(U \ {x}))
      BY <1>1, <1>3
    <3>2. PICK t \in T : name[t] = x
      OBVIOUS
    <3> DEFINE V == Named(U)
               W == Named(U \ {x})
    <3>3. V \in SUBSET T /\ t \in V /\ V \ {t} = W
      BY <3>2
    <3> HIDE DEF V, W
    <3>4. K(V) = g[t] + K(W) /\ g[t] = f[x]
      BY <1>2, <3>2, <3>3
    <3>5. F(U) = K(V)
      BY <3>1, <3>4 DEF W
    <3> QED
      BY <3>5 DEF V
  <2> QED
    BY <2>1, <2>2
<1>4. \A U \in SUBSET S : U \in G
  <2> HIDE DEF G
  <2> QED
    BY <1>3, ByElements
<1>5. Named(S) = T
  OBVIOUS
<1> QED
  BY <1>4, <1>5 DEF F, K

\* The sum over a set is the sum over one part of it and over the other.
LEMMA SumSplit ==
  ASSUME NEW S, IsFiniteSet(S), NEW f, \A x \in S : f[x] \in Int, NEW T \in SUBSET S
  PROVE  SumFunctionOnSet(f, S) = SumFunctionOnSet(f, T) + SumFunctionOnSet(f, S \ T)
<1> DEFINE g == [x \in S |-> IF x \in T THEN f[x] ELSE 0]
           h == [x \in S |-> IF x \in T THEN 0 ELSE f[x]]
           U == S \ T
<1>1. /\ \A x \in S : f[x] \in Int /\ g[x] \in Int /\ h[x] \in Int /\ f[x] = g[x] + h[x]
      /\ \A x \in T : f[x] \in Int /\ g[x] = f[x]
      /\ \A x \in U : f[x] \in Int /\ h[x] = f[x]
      /\ \A x \in S \ T : g[x] = 0
      /\ \A x \in S \ U : h[x] = 0
  OBVIOUS
<1>2. IsFiniteSet(T) /\ IsFiniteSet(U) /\ U \in SUBSET S
  BY FS_Subset
<1> HIDE DEF g, h, U
<1>3. SumFunctionOnSet(f, S) = SumFunctionOnSet(g, S) + SumFunctionOnSet(h, S)
  BY ZenonT(30), <1>1, SumAdds
<1>4. SumFunctionOnSet(g, S) = SumFunctionOnSet(g, T)
  <2>1. \A x \in S : g[x] \in Int
    BY <1>1
  <2>2. \A x \in S \ T : g[x] = 0
    BY <1>1
  <2> QED
    BY <2>1, <2>2, SumOfPart
<1>5. SumFunctionOnSet(h, S) = SumFunctionOnSet(h, U)
  <2>1. \A x \in S : h[x] \in Int
    BY <1>1
  <2>2. \A x \in S \ U : h[x] = 0
    BY <1>1
  <2> QED
    BY <1>2, <2>1, <2>2, SumOfPart
<1>6. SumFunctionOnSet(g, T) = SumFunctionOnSet(f, T)
  BY <1>1, <1>2, SumSame
<1>7. SumFunctionOnSet(h, U) = SumFunctionOnSet(f, U)
  BY <1>1, <1>2, SumSame
<1>8. SumFunctionOnSet(f, S) = SumFunctionOnSet(f, T) + SumFunctionOnSet(f, U)
  BY <1>3, <1>4, <1>5, <1>6, <1>7
<1> QED
  BY <1>8 DEF U

\* A part of a set has no larger sum, where nothing is negative.
LEMMA SumOfSubset ==
  ASSUME NEW S, IsFiniteSet(S), NEW f, \A x \in S : f[x] \in Nat, NEW T \in SUBSET S
  PROVE  SumFunctionOnSet(f, T) <= SumFunctionOnSet(f, S)
<1> DEFINE U == S \ T
<1>1. IsFiniteSet(T) /\ IsFiniteSet(U) /\ (\A x \in T : f[x] \in Nat) /\ (\A x \in U : f[x] \in Nat)
  BY FS_Subset
<1>2. SumFunctionOnSet(f, S) = SumFunctionOnSet(f, T) + SumFunctionOnSet(f, U)
  BY SumSplit
<1> HIDE DEF U
<1>3. SumFunctionOnSet(f, T) \in Nat /\ SumFunctionOnSet(f, U) \in Nat
  BY <1>1, SumNat
<1> QED
  BY <1>2, <1>3

\* Shares none of which is larger and that add up to the same are the same.
LEMMA SumEqual ==
  ASSUME NEW S, IsFiniteSet(S), NEW f, NEW g,
         \A x \in S : f[x] \in Int /\ g[x] \in Int /\ f[x] <= g[x],
         SumFunctionOnSet(f, S) = SumFunctionOnSet(g, S)
  PROVE  \A x \in S : f[x] = g[x]
<1> SUFFICES ASSUME NEW x \in S PROVE f[x] = g[x]
  OBVIOUS
<1> DEFINE U == S \ {x}
           F(T) == SumFunctionOnSet(f, T)
           K(T) == SumFunctionOnSet(g, T)
<1>1. F(S) = f[x] + F(U) /\ K(S) = g[x] + K(U)
  <2>1. (\A y \in S : f[y] \in Int) /\ (\A y \in S : g[y] \in Int)
    OBVIOUS
  <2> QED
    BY <2>1, SumRemove
<1>2. IsFiniteSet(U) /\ \A y \in U : f[y] \in Int /\ g[y] \in Int /\ f[y] <= g[y]
  BY FS_Subset
<1> HIDE DEF U
<1>3. F(U) <= K(U) /\ F(U) \in Int /\ K(U) \in Int
  BY <1>2, SumAtMost, SumStep
<1>4. F(S) = K(S)
  OBVIOUS
<1> HIDE DEF F, K
<1> QED
  BY <1>1, <1>3, <1>4

\* One by one is a count: as many as there are.
LEMMA SumOfOnes ==
  ASSUME NEW S, IsFiniteSet(S), NEW f, \A x \in S : f[x] = 1
  PROVE  SumFunctionOnSet(f, S) = Cardinality(S)
<1> DEFINE F(T) == SumFunctionOnSet(f, T)
           G == {T \in SUBSET S : F(T) = Cardinality(T)}
<1>1. ASSUME NEW T \in SUBSET S
      PROVE  F(T) \in Int /\ (T = {} => F(T) = 0) /\ \A x \in T : F(T) = f[x] + F(T \ {x})
  BY SumParts
<1> HIDE DEF F
<1>2. ASSUME NEW T \in SUBSET S, \A x \in T : T \ {x} \in G PROVE T \in G
  <2>1. CASE T = {}
    BY <1>1, <2>1, FS_EmptySet
  <2>2. ASSUME NEW x \in T PROVE T \in G
    <3> DEFINE U == T \ {x}
    <3>1. IsFiniteSet(T) /\ IsFiniteSet(U) /\ Cardinality(U) = Cardinality(T) - 1
      BY FS_Subset, FS_RemoveElement
    <3>2. Cardinality(T) \in Nat /\ Cardinality(U) \in Nat
      BY <3>1, FS_CardinalityType
    <3>3. F(T) = f[x] + F(U) /\ f[x] = 1 /\ F(U) = Cardinality(U)
      BY <1>1, <1>2
    <3> HIDE DEF U
    <3> QED
      BY <3>1, <3>2, <3>3
  <2> QED
    BY <2>1, <2>2
<1>3. \A T \in SUBSET S : T \in G
  <2> HIDE DEF G
  <2> QED
    BY <1>2, ByElements
<1> QED
  BY <1>3 DEF F

\* g adds up f in groups: every element of S is in the group of I its key names.
IsGrouping(g, I, key, f, S) ==
  /\ \A x \in S : key[x] \in I
  /\ \A i \in I : g[i] = SumFunctionOnSet(f, {x \in S : key[x] = i})

\* A sum taken in groups is the sum.
LEMMA SumByKey ==
  ASSUME NEW S, IsFiniteSet(S), NEW f, \A x \in S : f[x] \in Int,
         NEW I, IsFiniteSet(I), NEW key, NEW g, IsGrouping(g, I, key, f, S)
  PROVE  SumFunctionOnSet(g, I) = SumFunctionOnSet(f, S)
<1> DEFINE F(T) == SumFunctionOnSet(f, T)
           K(U) == SumFunctionOnSet(g, U)
           Keyed(U) == {x \in S : key[x] \in U}
           G == {U \in SUBSET I : K(U) = F(Keyed(U))}
<1> USE DEF IsGrouping
<1>1. \A T \in SUBSET S : F(T) \in Int /\ (T = {} => F(T) = 0)
  BY SumParts
<1>2. ASSUME NEW U \in SUBSET I
      PROVE  (U = {} => K(U) = 0) /\ \A i \in U : K(U) = g[i] + K(U \ {i})
  <2>1. \A i \in I : g[i] \in Int
    BY <1>1
  <2> QED
    BY <2>1, SumParts
<1>3. ASSUME NEW U \in SUBSET I, NEW i \in U
      PROVE  F(Keyed(U)) = g[i] + F(Keyed(U \ {i}))
  <2> DEFINE T == Keyed(U)
             P == {x \in S : key[x] = i}
             R == Keyed(U \ {i})
  <2>1. T \in SUBSET S /\ IsFiniteSet(T) /\ P \in SUBSET T /\ T \ P = R
    BY FS_Subset
  <2>2. g[i] = F(P)
    OBVIOUS
  <2> HIDE DEF T, P, R
  <2>3. SumFunctionOnSet(f, T) = SumFunctionOnSet(f, P) + SumFunctionOnSet(f, R)
    BY <2>1, SumSplit
  <2> QED
    BY <2>2, <2>3 DEF T, R
<1> HIDE DEF F, K
<1>4. ASSUME NEW U \in SUBSET I, \A i \in U : U \ {i} \in G PROVE U \in G
  <2>1. CASE U = {}
    <3>1. Keyed(U) = {} /\ {} \in SUBSET S
      BY <2>1
    <3> QED
      BY <1>1, <1>2, <2>1, <3>1
  <2>2. ASSUME NEW i \in U PROVE U \in G
    <3>1. K(U) = g[i] + K(U \ {i}) /\ K(U \ {i}) = F(Keyed(U \ {i}))
      BY <1>2, <1>4
    <3> QED
      BY <1>3, <3>1
  <2> QED
    BY <2>1, <2>2
<1>5. \A U \in SUBSET I : U \in G
  <2> HIDE DEF G
  <2> QED
    BY <1>4, ByElements
<1>6. Keyed(I) = S
  OBVIOUS
<1> QED
  BY <1>5, <1>6 DEF F, K

\* What is taken step by step is, in all, what there was less what is left.
LEMMA Telescope ==
  ASSUME NEW n \in Nat, NEW left, \A i \in 0 .. n : left[i] \in Int,
         NEW f, \A i \in 1 .. n : f[i] = left[i-1] - left[i]
  PROVE  SumFunctionOnSet(f, 1 .. n) = left[0] - left[n]
<1> DEFINE F(i) == SumFunctionOnSet(f, 1 .. i)
           G == {i \in 0 .. n : F(i) = left[0] - left[i]}
<1>1. \A i \in 1 .. n : f[i] \in Int
  OBVIOUS
<1>2. F(0) = 0
  <2>1. 1 .. 0 = {}
    OBVIOUS
  <2> QED
    BY <2>1, FS_EmptySet, SumStep
<1>3. ASSUME NEW i \in 0 .. n - 1 PROVE F(i + 1) = f[i+1] + F(i)
  <2>1. IsFiniteSet(1 .. i + 1) /\ \A j \in 1 .. i + 1 : f[j] \in Int
    BY <1>1, FS_Interval
  <2>2. i + 1 \in 1 .. i + 1 /\ (1 .. i + 1) \ {i + 1} = 1 .. i
    OBVIOUS
  <2> DEFINE T == 1 .. i + 1
  <2> HIDE DEF T
  <2>3. SumFunctionOnSet(f, T) = f[i+1] + SumFunctionOnSet(f, T \ {i + 1})
    BY <2>1, <2>2, SumRemove DEF T
  <2> QED
    BY <2>2, <2>3 DEF T
<1> HIDE DEF F
<1>4. 0 \in G /\ \A i \in 0 .. n - 1 : i \in G => i + 1 \in G
  <2>1. 0 \in G
    BY <1>2
  <2>2. ASSUME NEW i \in 0 .. n - 1, i \in G PROVE i + 1 \in G
    <3>1. F(i + 1) = f[i+1] + F(i) /\ f[i+1] = left[i] - left[i+1] /\ F(i) = left[0] - left[i]
      BY <1>3, <2>2
    <3> QED
      BY <3>1
  <2> QED
    BY <2>1, <2>2
<1>5. \A i \in 0 .. n : i \in G
  <2> HIDE DEF G
  <2> QED
    BY <1>4, UpTo
<1> QED
  BY <1>5 DEF F

\* What never grows from one index to the next is smallest at the last.
LEMMA Descending ==
  ASSUME NEW n \in Nat, NEW left, \A i \in 0 .. n : left[i] \in Int,
         \A i \in 1 .. n : left[i] <= left[i-1]
  PROVE  \A i \in 0 .. n : left[n] <= left[i]
<1> DEFINE G == {i \in 0 .. n : left[n] <= left[n - i]}
<1>1. 0 \in G
  OBVIOUS
<1>2. ASSUME NEW i \in 0 .. n - 1, i \in G PROVE i + 1 \in G
  <2>1. i + 1 \in 0 .. n /\ n - i \in 1 .. n /\ (n - i) - 1 = n - (i + 1)
    OBVIOUS
  <2>2. left[n - i] <= left[n - (i + 1)]
    BY <2>1
  <2>3. left[n] \in Int /\ left[n - i] \in Int /\ left[n - (i + 1)] \in Int
    BY <2>1
  <2> QED
    BY <1>2, <2>1, <2>2, <2>3
<1>3. \A i \in 0 .. n : i \in G
  <2> HIDE DEF G
  <2> QED
    BY <1>1, <1>2, UpTo
<1> SUFFICES ASSUME NEW i \in 0 .. n PROVE left[n] <= left[i]
  OBVIOUS
<1>4. n - i \in 0 .. n /\ n - (n - i) = i
  OBVIOUS
<1> QED
  BY <1>3, <1>4

\* A sum of multiples is the multiple of the sum.
IsMultiple(g, c, f, S) == \A x \in S : g[x] = c * f[x]

LEMMA SumScaled ==
  ASSUME NEW S, IsFiniteSet(S), NEW f, \A x \in S : f[x] \in Int, NEW c \in Int,
         NEW g, IsMultiple(g, c, f, S)
  PROVE  SumFunctionOnSet(g, S) = c * SumFunctionOnSet(f, S)
<1> DEFINE F(T) == SumFunctionOnSet(f, T)
           K(T) == SumFunctionOnSet(g, T)
           G == {T \in SUBSET S : K(T) = c * F(T)}
<1>1. \A x \in S : g[x] \in Int
  BY DEF IsMultiple
<1>2. ASSUME NEW T \in SUBSET S
      PROVE  F(T) \in Int /\ (T = {} => F(T) = 0) /\ \A x \in T : F(T) = f[x] + F(T \ {x})
  BY SumParts
<1>3. ASSUME NEW T \in SUBSET S
      PROVE  K(T) \in Int /\ (T = {} => K(T) = 0) /\ \A x \in T : K(T) = g[x] + K(T \ {x})
  BY <1>1, SumParts
<1> HIDE DEF F, K
<1>4. ASSUME NEW T \in SUBSET S, \A x \in T : T \ {x} \in G PROVE T \in G
  <2>1. CASE T = {}
    BY <1>2, <1>3, <2>1
  <2>2. CASE T # {}
    <3>1. PICK x \in T : TRUE
      BY <2>2
    <3>2. /\ K(T \ {x}) = c * F(T \ {x}) /\ F(T \ {x}) \in Int
          /\ F(T) = f[x] + F(T \ {x}) /\ K(T) = g[x] + K(T \ {x})
      BY <1>2, <1>3, <1>4
    <3>3. g[x] = c * f[x]
      BY DEF IsMultiple
    <3>4. c * F(T) = c * f[x] + c * F(T \ {x})
      BY <3>2
    <3> QED
      BY <3>2, <3>3, <3>4
  <2> QED
    BY <2>1, <2>2
<1>5. S \in G
  <2> HIDE DEF G
  <2>1. \A T \in SUBSET S : T \in G
    BY <1>4, ByElements
  <2> QED
    BY <2>1
<1> QED
  BY <1>5 DEF F, K

-------------------------------------------------------------------------------
(* Sets in order *)

IsOrder(R, S) ==
  /\ \A x \in S : <<x, x>> \notin R
  /\ \A x, y \in S : x = y \/ <<x, y>> \in R \/ <<y, x>> \in R
  /\ \A x, y, z \in S : <<x, y>> \in R /\ <<y, z>> \in R => <<x, z>> \in R

\* s lists the elements of S in the order R.
InOrder(s, S, R) ==
  /\ s \in Seq(S)
  /\ \A i, j \in 1 .. Len(s) : i < j => <<s[i], s[j]>> \in R
  /\ \A x \in S : \E i \in 1 .. Len(s) : x = s[i]

LEMMA InOrderFacts ==
  ASSUME NEW S, NEW R, NEW s, InOrder(s, S, R)
  PROVE  /\ Len(s) \in Nat
         /\ \A i \in 1 .. Len(s) : s[i] \in S
         /\ s = [i \in 1 .. Len(s) |-> s[i]]
<1>1. s \in Seq(S)
  BY DEF InOrder
<1> QED
  BY <1>1

LEMMA SameSoFar ==
  ASSUME NEW S, NEW R, IsOrder(R, S), NEW s, NEW t, InOrder(s, S, R), InOrder(t, S, R)
  PROVE  Len(s) <= Len(t) /\ \A i \in 1 .. Len(s) : s[i] = t[i]
<1>1. /\ Len(s) \in Nat /\ Len(t) \in Nat
      /\ \A i \in 1 .. Len(s) : s[i] \in S
      /\ \A i \in 1 .. Len(t) : t[i] \in S
  BY InOrderFacts
<1>2. \A i, j \in 1 .. Len(s) : i < j => <<s[i], s[j]>> \in R
  BY DEF InOrder
<1>3. \A i, j \in 1 .. Len(t) : i < j => <<t[i], t[j]>> \in R
  BY DEF InOrder
<1>4. \A x \in S : (\E i \in 1 .. Len(s) : x = s[i]) /\ (\E i \in 1 .. Len(t) : x = t[i])
  BY DEF InOrder
<1>5. \A x, y \in S : <<x, y>> \in R => x # y /\ <<y, x>> \notin R
  BY DEF IsOrder
<1> DEFINE G == {m \in 0 .. Len(s) : m <= Len(t) /\ \A i \in 1 .. m : s[i] = t[i]}
<1>6. 0 \in G
  BY <1>1
<1>7. ASSUME NEW m \in 0 .. Len(s) - 1, m \in G PROVE m + 1 \in G
  <2>1. m + 1 \in 1 .. Len(s) /\ m \in Nat /\ m <= Len(t)
    BY <1>1, <1>7
  <2>2. PICK j \in 1 .. Len(t) : s[m+1] = t[j]
    BY <1>1, <1>4, <2>1
  <2>3. ~(j <= m)
    <3> SUFFICES ASSUME j <= m PROVE FALSE
      OBVIOUS
    <3>1. j \in 1 .. Len(s) /\ s[j] = t[j] /\ j < m + 1
      BY <1>7, <2>1, <1>1
    <3>2. <<s[j], s[m+1]>> \in R /\ s[j] \in S /\ s[m+1] \in S
      BY <1>1, <1>2, <2>1, <3>1
    <3> QED
      BY <1>5, <2>2, <3>1, <3>2
  <2>4. m + 1 \in 1 .. Len(t)
    BY <1>1, <2>1, <2>2, <2>3
  <2>5. PICK k \in 1 .. Len(s) : t[m+1] = s[k]
    BY <1>1, <1>4, <2>4
  <2>6. ~(k <= m)
    <3> SUFFICES ASSUME k <= m PROVE FALSE
      OBVIOUS
    <3>1. k \in 1 .. Len(t) /\ s[k] = t[k] /\ k < m + 1
      BY <1>7, <2>1, <2>4, <1>1
    <3>2. <<t[k], t[m+1]>> \in R /\ t[k] \in S /\ t[m+1] \in S
      BY <1>1, <1>3, <2>4, <3>1
    <3> QED
      BY <1>5, <2>5, <3>1, <3>2
  <2>7. s[m+1] = t[m+1]
    <3> SUFFICES ASSUME j # m + 1, k # m + 1 PROVE FALSE
      BY <2>2, <2>5
    <3>1. m + 1 < j /\ m + 1 < k
      BY <2>1, <2>2, <2>3, <2>5, <2>6
    <3>2. <<t[m+1], t[j]>> \in R /\ <<s[m+1], s[k]>> \in R
      BY <1>2, <1>3, <2>1, <2>4, <3>1
    <3>3. t[m+1] \in S /\ t[j] \in S
      BY <1>1, <2>4
    <3> QED
      BY <1>5, <2>2, <2>5, <3>2, <3>3
  <2>8. ASSUME NEW i \in 1 .. m + 1 PROVE s[i] = t[i]
    <3>1. i = m + 1 \/ i \in 1 .. m
      BY <2>1
    <3> QED
      BY <1>7, <2>7, <3>1
  <2> QED
    BY <2>1, <2>4, <2>8
<1>8. \A m \in 0 .. Len(s) : m \in G
  <2> HIDE DEF G
  <2> QED
    BY <1>1, <1>6, <1>7, UpTo
<1>9. Len(s) \in 0 .. Len(s)
  BY <1>1
<1> QED
  BY <1>8, <1>9

\* There is one way to list a set in order.
LEMMA OneOrder ==
  ASSUME NEW S, NEW R, IsOrder(R, S), NEW s, NEW t, InOrder(s, S, R), InOrder(t, S, R)
  PROVE  s = t
<1>1. Len(s) <= Len(t) /\ Len(t) <= Len(s) /\ \A i \in 1 .. Len(s) : s[i] = t[i]
  BY SameSoFar
<1>2. s \in Seq(S) /\ t \in Seq(S) /\ Len(s) = Len(t)
  <2>1. Len(s) \in Nat /\ Len(t) \in Nat
    BY InOrderFacts
  <2> QED
    BY <1>1, <2>1 DEF InOrder
<1> QED
  BY <1>1, <1>2, SeqEqual

\* Whoever comes after all the others goes to the back.
LEMMA JoinsInOrder ==
  ASSUME NEW S, NEW R, NEW s, InOrder(s, S, R), NEW last, \A x \in S : <<x, last>> \in R
  PROVE  InOrder(Append(s, last), S \union {last}, R)
<1>1. /\ Len(s) \in Nat
      /\ \A i \in 1 .. Len(s) : s[i] \in S
      /\ s = [i \in 1 .. Len(s) |-> s[i]]
  BY InOrderFacts
<1> DEFINE U == S \union {last}
           t == Append(s, last)
<1>2. s \in Seq(U)
  BY <1>1
<1>3. /\ t \in Seq(U) /\ Len(t) = Len(s) + 1
      /\ t[Len(s) + 1] = last /\ \A i \in 1 .. Len(s) : t[i] = s[i]
  BY <1>1, <1>2, AppendProperties
<1> HIDE DEF t
<1>4. \A i, j \in 1 .. Len(s) : i < j => <<s[i], s[j]>> \in R
  BY DEF InOrder
<1>5. ASSUME NEW i \in 1 .. Len(t), NEW j \in 1 .. Len(t), i < j PROVE <<t[i], t[j]>> \in R
  <2>1. i \in 1 .. Len(s)
    BY <1>1, <1>3, <1>5
  <2>2. CASE j = Len(s) + 1
    BY <2>1, <2>2, <1>1, <1>3
  <2>3. CASE j \in 1 .. Len(s)
    BY <2>1, <2>3, <1>3, <1>4, <1>5
  <2> QED
    BY <2>2, <2>3, <1>1, <1>3
<1>6. ASSUME NEW x \in U PROVE \E i \in 1 .. Len(t) : x = t[i]
  <2>1. CASE x \in S
    <3>1. PICK i \in 1 .. Len(s) : x = s[i]
      BY <2>1 DEF InOrder
    <3>2. i \in 1 .. Len(t) /\ t[i] = x
      BY <1>1, <1>3, <3>1
    <3> QED
      BY <3>2
  <2>2. CASE x = last
    <3>1. Len(s) + 1 \in 1 .. Len(t)
      BY <1>1, <1>3
    <3> QED
      BY <2>2, <1>3, <3>1
  <2> QED
    BY <2>1, <2>2
<1> QED
  BY <1>3, <1>5, <1>6 DEF InOrder, t

\* Whoever leaves, the others keep their order.
LEMMA LeavesInOrder ==
  ASSUME NEW S, NEW R, IsOrder(R, S), NEW s, InOrder(s, S, R), NEW i \in 1 .. Len(s)
  PROVE  InOrder(RemoveAt(s, i), S \ {s[i]}, R)
<1>1. /\ s \in Seq(S) /\ Len(s) \in Nat /\ \A j \in 1 .. Len(s) : s[j] \in S
  BY InOrderFacts DEF InOrder
<1>2. \A j, k \in 1 .. Len(s) : j < k => <<s[j], s[k]>> \in R
  BY DEF InOrder
<1> DEFINE U == S \ {s[i]}
           t == RemoveAt(s, i)
           at(j) == IF j < i THEN j ELSE j + 1
<1>3. /\ t \in Seq(S) /\ Len(t) = Len(s) - 1
      /\ \A j \in 1 .. Len(t) : t[j] = IF j < i THEN s[j] ELSE s[j+1]
  BY <1>1, RemoveAtElements
<1>4. \A j \in 1 .. Len(t) : at(j) \in 1 .. Len(s) /\ at(j) # i /\ t[j] = s[at(j)]
  BY <1>1, <1>3
<1>5. \A j, k \in 1 .. Len(t) : j < k => at(j) < at(k)
  BY <1>1, <1>3
<1> HIDE DEF t, at
<1>6. \A j, k \in 1 .. Len(s) : j # k => s[j] # s[k]
  <2> SUFFICES ASSUME NEW j \in 1 .. Len(s), NEW k \in 1 .. Len(s), j # k PROVE s[j] # s[k]
    OBVIOUS
  <2>1. j < k \/ k < j
    OBVIOUS
  <2>2. <<s[j], s[k]>> \in R \/ <<s[k], s[j]>> \in R
    BY <1>2, <2>1
  <2> QED
    BY <1>1, <2>2 DEF IsOrder
<1>7. t \in Seq(U)
  <2>1. \A j \in 1 .. Len(t) : t[j] \in U
    BY <1>1, <1>4, <1>6
  <2> QED
    BY <1>3, <2>1
<1>8. \A j, k \in 1 .. Len(t) : j < k => <<t[j], t[k]>> \in R
  BY <1>2, <1>4, <1>5
<1>9. ASSUME NEW x \in U PROVE \E j \in 1 .. Len(t) : x = t[j]
  <2>1. PICK k \in 1 .. Len(s) : x = s[k] /\ k # i
    BY DEF InOrder
  <2>2. CASE k < i
    <3>1. k \in 1 .. Len(t) /\ t[k] = s[k]
      BY <2>2, <1>1, <1>3
    <3> QED
      BY <2>1, <3>1
  <2>3. CASE i < k
    <3> DEFINE j == k - 1
    <3>1. j \in 1 .. Len(t) /\ ~(j < i) /\ j + 1 = k
      BY <2>3, <1>1, <1>3
    <3> HIDE DEF j
    <3>2. t[j] = s[j+1]
      BY <1>3, <3>1
    <3> QED
      BY <2>1, <3>1, <3>2
  <2> QED
    BY <2>1, <2>2, <2>3
<1> QED
  BY <1>7, <1>8, <1>9 DEF InOrder, t

\* Of an element nothing is ahead but others.
LEMMA RanksApart ==
  ASSUME NEW S, IsFiniteSet(S), NEW R, IsOrder(R, S), NEW x \in S, NEW y \in S, <<x, y>> \in R
  PROVE  Cardinality({z \in S : <<z, x>> \in R}) < Cardinality({z \in S : <<z, y>> \in R})
<1> DEFINE X == {z \in S : <<z, x>> \in R}
           Y == {z \in S : <<z, y>> \in R}
<1>1. x \notin X /\ X \union {x} \in SUBSET Y /\ X \in SUBSET S /\ Y \in SUBSET S
  BY DEF IsOrder
<1> HIDE DEF X, Y
<1>2. IsFiniteSet(X) /\ IsFiniteSet(Y)
  BY <1>1, FS_Subset
<1>3. Cardinality(X \union {x}) = Cardinality(X) + 1
  BY <1>1, <1>2, FS_AddElement
<1>4. Cardinality(X \union {x}) <= Cardinality(Y)
  BY <1>1, <1>2, FS_Subset
<1>5. Cardinality(X) \in Nat /\ Cardinality(Y) \in Nat
  BY <1>2, FS_CardinalityType
<1>6. Cardinality(X) < Cardinality(Y)
  BY <1>3, <1>4, <1>5
<1> QED
  BY <1>6 DEF X, Y

LEMMA RankIsBelow ==
  ASSUME NEW S, IsFiniteSet(S), NEW R, IsOrder(R, S), NEW x \in S
  PROVE  Cardinality({z \in S : <<z, x>> \in R}) \in 0 .. Cardinality(S) - 1
<1> DEFINE X == {z \in S : <<z, x>> \in R}
           size == Cardinality(S)
<1>1. X \in SUBSET (S \ {x})
  BY DEF IsOrder
<1> HIDE DEF X
<1>2. IsFiniteSet(S \ {x}) /\ Cardinality(S \ {x}) = size - 1
  BY FS_RemoveElement
<1>3. IsFiniteSet(X) /\ Cardinality(X) <= size - 1
  BY <1>1, <1>2, FS_Subset
<1>4. Cardinality(X) \in Nat /\ size \in Nat
  BY <1>3, FS_CardinalityType
<1>5. Cardinality(X) \in 0 .. size - 1
  BY <1>3, <1>4
<1> QED
  BY <1>5 DEF X

\* For every n up to their number there is an element with n - 1 ahead of it.
LEMMA RankExists ==
  ASSUME NEW S, IsFiniteSet(S), NEW R, IsOrder(R, S), NEW n \in 1 .. Cardinality(S)
  PROVE  \E x \in S : Cardinality({z \in S : <<z, x>> \in R}) = n - 1
<1> DEFINE rank == [x \in S |-> Cardinality({z \in S : <<z, x>> \in R})]
           size == Cardinality(S)
<1>1. size \in Nat
  BY FS_CardinalityType
<1>2. ASSUME NEW x \in S PROVE rank[x] \in 0 .. size - 1
  BY RankIsBelow
<1>3. ASSUME NEW x \in S, NEW y \in S, rank[x] = rank[y] PROVE x = y
  <2> SUFFICES ASSUME x # y PROVE FALSE
    OBVIOUS
  <2>1. <<x, y>> \in R \/ <<y, x>> \in R
    BY DEF IsOrder
  <2>2. rank[x] < rank[y] \/ rank[y] < rank[x]
    BY <2>1, RanksApart
  <2>3. rank[x] \in Int /\ rank[y] \in Int
    BY <1>2
  <2> HIDE DEF rank
  <2> QED
    BY <1>3, <2>2, <2>3
<1>4. rank \in Injection(S, 0 .. size - 1)
  BY <1>2, <1>3 DEF Injection, IsInjective
<1>5. Cardinality(S) = Cardinality(0 .. size - 1) /\ IsFiniteSet(0 .. size - 1)
  <2>1. 0 \in Int /\ size - 1 \in Int
    BY <1>1
  <2>2. /\ IsFiniteSet(0 .. size - 1)
        /\ Cardinality(0 .. size - 1) = IF 0 > size - 1 THEN 0 ELSE (size - 1) - 0 + 1
    BY <2>1, FS_Interval
  <2> QED
    BY <1>1, <2>2
<1> HIDE DEF rank
<1>6. rank \in Surjection(S, 0 .. size - 1)
  BY <1>4, <1>5, FS_Injection
<1>7. n - 1 \in 0 .. size - 1
  BY <1>1
<1>8. PICK x \in S : rank[x] = n - 1
  BY <1>6, <1>7 DEF Surjection
<1> QED
  BY <1>8 DEF rank

\* Elements by the number of those ahead of them are in order.
LEMMA RanksInOrder ==
  ASSUME NEW S, IsFiniteSet(S), NEW R, IsOrder(R, S), NEW s,
         s = [n \in 1 .. Cardinality(S) |-> s[n]],
         \A n \in 1 .. Cardinality(S) :
           (\E x \in S : Cardinality({z \in S : <<z, x>> \in R}) = n - 1)
             => s[n] \in S /\ Cardinality({z \in S : <<z, s[n]>> \in R}) = n - 1
  PROVE  InOrder(s, S, R) /\ Len(s) = Cardinality(S)
<1> DEFINE size == Cardinality(S)
           Rank(x) == Cardinality({z \in S : <<z, x>> \in R})
<1>1. size \in Nat
  BY FS_CardinalityType
<1>2. \A n \in 1 .. size : s[n] \in S /\ Rank(s[n]) = n - 1
  <2> SUFFICES ASSUME NEW n \in 1 .. Cardinality(S)
               PROVE  s[n] \in S /\ Rank(s[n]) = n - 1
    OBVIOUS
  <2>1. \E x \in S : Cardinality({z \in S : <<z, x>> \in R}) = n - 1
    BY RankExists
  <2> QED
    BY <2>1
<1>3. \A x, y \in S : <<x, y>> \in R => Rank(x) < Rank(y)
  BY RanksApart
<1>4. \A x, y \in S : x = y \/ <<x, y>> \in R \/ <<y, x>> \in R
  BY DEF IsOrder
<1>5. \A x \in S : Rank(x) \in 0 .. size - 1
  BY RankIsBelow
<1> HIDE DEF Rank
<1>6. s \in Seq(S) /\ Len(s) = size
  BY <1>1, <1>2
<1>7. ASSUME NEW i \in 1 .. size, NEW j \in 1 .. size, i < j PROVE <<s[i], s[j]>> \in R
  <2>1. Rank(s[i]) = i - 1 /\ Rank(s[j]) = j - 1 /\ s[i] \in S /\ s[j] \in S
    BY <1>2
  <2>2. s[i] # s[j] /\ ~(Rank(s[j]) < Rank(s[i]))
    BY <1>7, <2>1
  <2> QED
    BY <1>3, <1>4, <2>1, <2>2
<1>8. ASSUME NEW x \in S PROVE \E i \in 1 .. size : x = s[i]
  <2> DEFINE i == Rank(x) + 1
  <2>1. i \in 1 .. size /\ Rank(x) = i - 1
    BY <1>1, <1>5
  <2> HIDE DEF i
  <2>2. s[i] \in S /\ Rank(s[i]) = Rank(x)
    BY <1>2, <2>1
  <2>3. Rank(x) \in Int
    BY <1>5
  <2>4. ~(Rank(s[i]) < Rank(x)) /\ ~(Rank(x) < Rank(s[i]))
    BY <2>2, <2>3
  <2>5. s[i] = x
    BY <1>3, <1>4, <2>2, <2>4
  <2> QED
    BY <2>1, <2>5
<1> QED
  BY <1>6, <1>7, <1>8 DEF InOrder

\* In order, the n-th of a set is the one with n - 1 ahead of it.
IsRanked(s, S, R) ==
  s = [n \in 1 .. Cardinality(S) |->
         CHOOSE x \in S : Cardinality({z \in S : <<z, x>> \in R}) = n - 1]

LEMMA RankedInOrder ==
  ASSUME NEW S, IsFiniteSet(S), NEW R, IsOrder(R, S), NEW s, IsRanked(s, S, R)
  PROVE  InOrder(s, S, R) /\ Len(s) = Cardinality(S)
<1> DEFINE Rank(x) == Cardinality({z \in S : <<z, x>> \in R})
           Nth(n) == CHOOSE x \in S : Rank(x) = n - 1
<1>1. s = [n \in 1 .. Cardinality(S) |-> Nth(n)]
  BY DEF IsRanked
<1> HIDE DEF Nth
<1>2. s = [n \in 1 .. Cardinality(S) |-> s[n]]
  BY <1>1
<1>3. ASSUME NEW n \in 1 .. Cardinality(S), \E x \in S : Rank(x) = n - 1
      PROVE  s[n] \in S /\ Rank(s[n]) = n - 1
  <2> HIDE DEF Rank
  <2>1. Nth(n) \in S /\ Rank(Nth(n)) = n - 1
    BY <1>3 DEF Nth
  <2> QED
    BY <1>1, <2>1
<1> QED
  BY <1>2, <1>3, RanksInOrder

\* Numbers that include every smaller one from 1 are 1 .. n.
LEMMA InitialSegment ==
  ASSUME NEW n \in Nat, NEW D \in SUBSET (1 .. n), \A i \in D : i = 1 \/ i - 1 \in D
  PROVE  /\ Cardinality(D) \in 0 .. n /\ D = 1 .. Cardinality(D)
<1>1. IsFiniteSet(1 .. n) /\ Cardinality(1 .. n) = n
  BY FS_Interval
<1>2. IsFiniteSet(D)
  BY <1>1, FS_Subset
<1>3. CASE D = {}
  BY <1>3, FS_EmptySet
<1>4. CASE D # {}
  <2>1. D \in SUBSET Nat
    OBVIOUS
  <2>2. PICK m \in D : \A i \in D : i <= m
    BY <1>2, <1>4, <2>1, GreatestExists
  <2> DEFINE G == {i \in 0 .. m - 1 : m - i \in D}
  <2>3. 0 \in G /\ m - 1 \in Nat /\ m \in 1 .. n
    BY <2>2
  <2>4. ASSUME NEW i \in 0 .. (m - 1) - 1, i \in G PROVE i + 1 \in G
    <3>1. m - i \in D /\ m - i # 1 /\ (m - i) - 1 = m - (i + 1) /\ i + 1 \in 0 .. m - 1
      BY <2>4, <2>3
    <3> QED
      BY <3>1
  <2>5. \A i \in 0 .. m - 1 : i \in G
    <3> HIDE DEF G
    <3> QED
      BY <2>3, <2>4, UpTo
  <2>6. ASSUME NEW i \in 1 .. m PROVE i \in D
    <3> DEFINE x == m - i
    <3>1. x \in 0 .. m - 1 /\ i = m - x
      BY <2>3
    <3> HIDE DEF x
    <3>2. m - x \in D
      BY <2>5, <3>1
    <3> QED
      BY <3>1, <3>2, Zenon
  <2>7. D = 1 .. m
    <3>1. \A i \in D : i \in 1 .. m
      BY <2>2, <2>3
    <3> QED
      BY <2>6, <3>1, Zenon
  <2>8. Cardinality(D) = m
    BY <2>3, <2>7, FS_Interval
  <2> QED
    BY <2>3, <2>7, <2>8
<1> QED
  BY <1>3, <1>4

\* Increasing from each place to the next is increasing.
LEMMA Ascending ==
  ASSUME NEW n \in Nat, NEW s, \A i \in 1 .. n : s[i] \in Int,
         \A i \in 1 .. n - 1 : s[i] < s[i+1]
  PROVE  \A i, j \in 1 .. n : i < j => s[i] < s[j]
<1> SUFFICES ASSUME NEW i \in 1 .. n PROVE \A j \in 1 .. n : i < j => s[i] < s[j]
  OBVIOUS
<1> DEFINE G == {m \in 0 .. n - i : m # 0 => s[i] < s[i + m]}
<1>1. 0 \in G /\ n - i \in Nat
  OBVIOUS
<1>2. ASSUME NEW m \in 0 .. (n - i) - 1, m \in G PROVE m + 1 \in G
  <2>1. i + m \in 1 .. n - 1 /\ i + m \in 1 .. n /\ (i + m) + 1 = i + (m + 1) /\ i + (m + 1) \in 1 .. n
    OBVIOUS
  <2>2. s[i + m] < s[i + (m + 1)] /\ s[i + m] \in Int /\ s[i + (m + 1)] \in Int /\ s[i] \in Int
    BY <2>1
  <2>3. CASE m = 0
    <3>1. i + m = i
      BY <2>3
    <3> QED
      BY <2>2, <2>3, <3>1
  <2>4. CASE m # 0
    BY <1>2, <2>2, <2>4
  <2> QED
    BY <2>3, <2>4
<1>3. \A m \in 0 .. n - i : m \in G
  <2> HIDE DEF G
  <2> QED
    BY <1>1, <1>2, UpTo
<1> SUFFICES ASSUME NEW j \in 1 .. n, i < j PROVE s[i] < s[j]
  OBVIOUS
<1>4. j - i \in 0 .. n - i /\ j - i # 0 /\ i + (j - i) = j
  OBVIOUS
<1> QED
  BY <1>3, <1>4
===============================================================================
