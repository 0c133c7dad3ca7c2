----------------------------- MODULE BackendProofs -----------------------------
(***************************************************************************)
(* The linked lists and the level stores of Backend, for any band, tick,   *)
(* arena and clients: the ladder's cached best slot and the hash map's     *)
(* heap are those of the ordered map, a level is there exactly while       *)
(* orders rest in it, both stores present their levels in the order of the *)
(* ordered map, and every linked list, walked along its links, is a queue  *)
(* that arrivals join at the back and leave without disturbing the rest.   *)
(***************************************************************************)
EXTENDS Backend, LevelQueueProofs, DataProofs

-------------------------------------------------------------------------------
(* Best prices *)

\* A set of prices has a best one for either side.
LEMMA BestExists ==
  ASSUME NEW side \in Sides, NEW S \in SUBSET Prices, S # {}
  PROVE  \E p \in S : \A q \in S : q = p \/ Better(side, p, q)
<1>1. S \in SUBSET Nat /\ IsFiniteSet(S)
  BY PricesAssumption, FS_Subset
<1>2. CASE side = "bid"
  <2>1. PICK m \in S : \A n \in S : n <= m
    BY <1>1, GreatestExists
  <2>2. \A q \in S : q = m \/ Better(side, m, q)
    BY <2>1, <1>1, <1>2 DEF Better
  <2> QED
    BY <2>2
<1>3. CASE side = "ask"
  <2>1. PICK m \in S : \A n \in S : m <= n
    BY <1>1, LeastExists
  <2>2. \A q \in S : q = m \/ Better(side, m, q)
    BY <2>1, <1>1, <1>3 DEF Better
  <2> QED
    BY <2>2
<1> QED
  BY <1>2, <1>3 DEF Sides

\* A side quotes one best price: prices of which neither is better are equal.
LEMMA BestIsUnique ==
  ASSUME NEW side \in Sides, NEW p \in Prices, NEW q \in Prices,
         q = p \/ Better(side, p, q), p = q \/ Better(side, q, p)
  PROVE  p = q
BY PricesAssumption DEF Better, Sides

-------------------------------------------------------------------------------
(* Slots *)

\* The band has a first and a last slot.
LEMMA SlotsFinite == Slots \subseteq Nat /\ IsFiniteSet(Slots)
<1>1. (MaxPrice - MinPrice) \div TickSize \in Nat
  <2>1. MaxPrice - MinPrice \in Nat /\ TickSize \in Nat \ {0}
    BY LadderAssumption
  <2> QED
    BY <2>1
<1> QED
  BY <1>1, FS_Interval DEF Slots

\* A price is its slot's number of ticks above the band's foot (the slot
\* arithmetic of index_of), so slots come in the order of their prices.
LEMMA SlotFacts ==
  ASSUME NEW p \in Prices, NEW q \in Prices, SlotOf(p) # Null, SlotOf(q) # Null
  PROVE  /\ SlotOf(p) \in Slots
         /\ SlotOf(p) = SlotOf(q) => p = q
         /\ \A side \in Sides : Ahead(side, SlotOf(p), SlotOf(q)) <=> Better(side, p, q)
<1>1. ASSUME NEW r \in Prices, SlotOf(r) # Null
      PROVE  SlotOf(r) \in Slots /\ SlotOf(r) \in Nat /\ r = MinPrice + TickSize * SlotOf(r)
  <2>1. /\ SlotOf(r) = (r - MinPrice) \div TickSize /\ SlotOf(r) \in Slots
        /\ r >= MinPrice /\ (r - MinPrice) % TickSize = 0
    BY <1>1 DEF SlotOf
  <2>2. r - MinPrice \in Nat /\ TickSize \in Nat \ {0} /\ MinPrice \in Nat /\ r \in Nat
    BY <2>1, LadderAssumption, PricesAssumption
  <2>3. r - MinPrice = TickSize * ((r - MinPrice) \div TickSize)
    <3>1. ASSUME NEW a \in Nat, NEW t \in Nat \ {0}, a % t = 0 PROVE a = t * (a \div t)
      BY <3>1
    <3> QED
      BY <2>1, <2>2, <3>1
  <2>4. SlotOf(r) \in Nat
    BY <2>1, SlotsFinite
  <2>5. r - MinPrice = TickSize * SlotOf(r)
    BY <2>1, <2>3
  <2> QED
    BY <2>1, <2>2, <2>4, <2>5
<1> DEFINE m == SlotOf(p)
           n == SlotOf(q)
<1>2. /\ m \in Slots /\ m \in Nat /\ n \in Nat /\ TickSize \in Nat \ {0} /\ MinPrice \in Nat
      /\ p = MinPrice + TickSize * m /\ q = MinPrice + TickSize * n /\ p \in Nat /\ q \in Nat
  BY <1>1, LadderAssumption, PricesAssumption
<1> HIDE DEF m, n
<1>3. m < n => p < q
  <2>1. ASSUME NEW i \in Nat, NEW j \in Nat, NEW t \in Nat \ {0}, i < j PROVE t * i < t * j
    BY <2>1
  <2>2. m < n => TickSize * m < TickSize * n
    BY <1>2, <2>1
  <2>3. TickSize * m \in Nat /\ TickSize * n \in Nat
    BY <1>2
  <2> QED
    BY <1>2, <2>2, <2>3
<1>4. n < m => q < p
  <2>1. ASSUME NEW i \in Nat, NEW j \in Nat, NEW t \in Nat \ {0}, i < j PROVE t * i < t * j
    BY <2>1
  <2>2. n < m => TickSize * n < TickSize * m
    BY <1>2, <2>1
  <2>3. TickSize * m \in Nat /\ TickSize * n \in Nat
    BY <1>2
  <2> QED
    BY <1>2, <2>2, <2>3
<1>5. m = n => p = q
  BY <1>2
<1>6. /\ (m < n <=> p < q) /\ (m > n <=> p > q)
  BY <1>2, <1>3, <1>4, <1>5
<1> QED
  BY <1>2, <1>5, <1>6 DEF Ahead, Better, Sides, m, n

\* Slots are in one order, front to back, on either side.
LEMMA AheadOrders ==
  ASSUME NEW side \in Sides, NEW m \in Slots, NEW n \in Slots
  PROVE  /\ m = n \/ Ahead(side, m, n) \/ Ahead(side, n, m)
         /\ ~Ahead(side, m, m)
         /\ \A k \in Slots : Ahead(side, m, n) /\ Ahead(side, n, k) => Ahead(side, m, k)
<1>1. \A k \in Slots : k \in Nat
  BY SlotsFinite
<1> QED
  BY <1>1 DEF Ahead, Sides

\* Among occupied slots one comes first.
LEMMA FirstSlotExists ==
  ASSUME NEW side \in Sides, NEW S \in SUBSET Slots, S # {}
  PROVE  \E m \in S : \A n \in S : n = m \/ Ahead(side, m, n)
<1>1. S \in SUBSET Nat /\ IsFiniteSet(S)
  BY SlotsFinite, FS_Subset
<1>2. CASE side = "bid"
  <2>1. PICK m \in S : \A n \in S : n <= m
    BY <1>1, GreatestExists
  <2>2. \A n \in S : n = m \/ Ahead(side, m, n)
    BY <2>1, <1>1, <1>2 DEF Ahead
  <2> QED
    BY <2>2
<1>3. CASE side = "ask"
  <2>1. PICK m \in S : \A n \in S : m <= n
    BY <1>1, LeastExists
  <2>2. \A n \in S : n = m \/ Ahead(side, m, n)
    BY <2>1, <1>1, <1>3 DEF Ahead
  <2> QED
    BY <2>2
<1> QED
  BY <1>2, <1>3 DEF Sides

-------------------------------------------------------------------------------
(* The ladder *)

\* A slot holds its own price or nothing, and the cache holds the first
\* occupied slot.
LadderInv ==
  /\ ladder \in [Sides -> [Slots -> Prices \union {Null}]]
  /\ best \in [Sides -> Slots \union {Null}]
  /\ \A side \in Sides, n \in Slots :
       ladder[side][n] # Null => SlotOf(ladder[side][n]) = n
  /\ \A side \in Sides :
       IF best[side] = Null THEN \A n \in Slots : ladder[side][n] = Null
       ELSE /\ ladder[side][best[side]] # Null
            /\ \A n \in Slots : ladder[side][n] # Null => n = best[side] \/ Ahead(side, best[side], n)

\* Null is neither a slot nor a price.
LEMMA NullApart == Null \notin Slots /\ Null \notin Prices
<1>1. \A n \in Nat : n \in Int
  OBVIOUS
<1>2. \A n \in Slots \union Prices : n \in Nat
  BY SlotsFinite, PricesAssumption
<1> QED
  BY <1>1, <1>2, LadderAssumption

\* A price is active exactly when its slot holds it.
LEMMA ActiveSlots ==
  ASSUME LadderInv, NEW side \in Sides
  PROVE  /\ LadderActive[side] \in SUBSET Prices
         /\ \A p \in Prices :
              p \in LadderActive[side] <=> SlotOf(p) # Null /\ ladder[side][SlotOf(p)] # Null
         /\ \A p \in LadderActive[side] : ladder[side][SlotOf(p)] = p
<1>1. LadderActive[side] = {ladder[side][n] : n \in {k \in Slots : ladder[side][k] # Null}}
  BY DEF LadderActive, Occupied
<1>2. \A n \in Slots : ladder[side][n] \in Prices \union {Null}
  BY DEF LadderInv
<1>3. \A n \in Slots : ladder[side][n] # Null => SlotOf(ladder[side][n]) = n
  BY DEF LadderInv
<1>4. LadderActive[side] \in SUBSET Prices
  BY <1>1, <1>2
<1>5. ASSUME NEW p \in LadderActive[side]
      PROVE  SlotOf(p) \in Slots /\ SlotOf(p) # Null /\ ladder[side][SlotOf(p)] = p /\ p # Null
  BY <1>1, <1>3, NullApart
<1>6. ASSUME NEW p \in Prices, SlotOf(p) # Null, ladder[side][SlotOf(p)] # Null
      PROVE  p \in LadderActive[side]
  <2>1. SlotOf(p) \in Slots
    BY <1>6, SlotFacts
  <2>2. PICK q \in Prices : q = ladder[side][SlotOf(p)]
    BY <1>2, <1>6, <2>1
  <2>3. SlotOf(q) = SlotOf(p)
    BY <1>3, <1>6, <2>1, <2>2
  <2>4. p = q
    BY <1>6, <2>3, SlotFacts
  <2> QED
    BY <1>1, <1>6, <2>1, <2>2, <2>4
<1> QED
  BY <1>4, <1>5, <1>6

\* ensure_level adds the price to its side and keeps the cache at the front.
LEMMA EnsureLadderStep ==
  ASSUME LadderInv, NEW side \in Sides, NEW price \in Prices, EnsureLadder(side, price)
  PROVE  /\ LadderInv'
         /\ \A s \in Sides :
              LadderActive'[s] = IF s = side THEN LadderActive[s] \union {price} ELSE LadderActive[s]
<1> DEFINE slot == SlotOf(price)
<1>1. /\ slot # Null
      /\ best' = [best EXCEPT ![side] =
                    IF @ = Null THEN slot ELSE IF Ahead(side, slot, @) THEN slot ELSE @]
      /\ ladder' = [ladder EXCEPT ![side][slot] = IF @ = Null THEN price ELSE @]
  BY DEF EnsureLadder
<1>2. slot \in Slots
  BY <1>1, SlotFacts
<1> HIDE DEF slot
<1>3. /\ ladder' \in [Sides -> [Slots -> Prices \union {Null}]]
      /\ \A s \in Sides, n \in Slots :
           ladder'[s][n] = IF s = side /\ n = slot /\ ladder[s][n] = Null THEN price
                           ELSE ladder[s][n]
  BY <1>1, <1>2 DEF LadderInv
<1>4. /\ best' \in [Sides -> Slots \union {Null}]
      /\ \A s \in Sides : s # side => best'[s] = best[s]
      /\ best'[side] = IF best[side] = Null THEN slot
                       ELSE IF Ahead(side, slot, best[side]) THEN slot ELSE best[side]
  BY <1>1, <1>2 DEF LadderInv
<1>5. \A s \in Sides, n \in Slots : ladder'[s][n] # Null => SlotOf(ladder'[s][n]) = n
  BY <1>3 DEF LadderInv, slot
<1>6. ASSUME NEW s \in Sides
      PROVE  IF best'[s] = Null THEN \A n \in Slots : ladder'[s][n] = Null
             ELSE /\ ladder'[s][best'[s]] # Null
                  /\ \A n \in Slots :
                       ladder'[s][n] # Null => n = best'[s] \/ Ahead(s, best'[s], n)
  <2>1. CASE s # side
    <3>1. best'[s] = best[s] /\ \A n \in Slots : ladder'[s][n] = ladder[s][n]
      BY <2>1, <1>3, <1>4
    <3> QED
      BY <3>1 DEF LadderInv
  <2>2. CASE s = side
    <3>1. ladder'[s][slot] # Null
      BY <2>2, <1>2, <1>3, NullApart
    <3>2. \A n \in Slots : ladder'[s][n] # Null => n = slot \/ ladder[s][n] # Null
      BY <2>2, <1>3
    <3>3. \A n \in Slots : ladder[s][n] # Null => ladder'[s][n] # Null
      BY <1>3
    <3>4. CASE best[side] = Null
      <4>1. \A n \in Slots : ladder[s][n] = Null
        BY <2>2, <3>4 DEF LadderInv
      <4> QED
        BY <2>2, <3>1, <3>2, <3>4, <4>1, <1>2, <1>4, NullApart
    <3>5. CASE best[side] # Null
      <4>1. /\ best[side] \in Slots /\ ladder[s][best[side]] # Null
            /\ \A n \in Slots : ladder[s][n] # Null => n = best[side] \/ Ahead(side, best[side], n)
        BY <2>2, <3>5 DEF LadderInv
      <4>2. CASE Ahead(side, slot, best[side])
        <5>1. best'[s] = slot
          BY <2>2, <3>5, <4>2, <1>4
        <5>2. \A n \in Slots : Ahead(side, best[side], n) => Ahead(side, slot, n)
          BY <4>1, <4>2, <1>2, AheadOrders
        <5> QED
          BY <5>1, <5>2, <4>1, <4>2, <3>1, <3>2, <2>2, <1>2, NullApart
      <4>3. CASE ~Ahead(side, slot, best[side])
        <5>1. best'[s] = best[side]
          BY <2>2, <3>5, <4>3, <1>4
        <5>2. slot = best[side] \/ Ahead(side, best[side], slot)
          BY <4>1, <4>3, <1>2, AheadOrders
        <5> QED
          BY <5>1, <5>2, <4>1, <3>2, <3>3, <3>5, <2>2
      <4> QED
        BY <4>2, <4>3
    <3> QED
      BY <3>4, <3>5
  <2> QED
    BY <2>1, <2>2
<1>7. LadderInv'
  BY <1>3, <1>4, <1>5, <1>6 DEF LadderInv
<1>8. ASSUME NEW s \in Sides
      PROVE  LadderActive'[s] = IF s = side THEN LadderActive[s] \union {price} ELSE LadderActive[s]
  <2>1. LadderActive[s] = {ladder[s][n] : n \in {k \in Slots : ladder[s][k] # Null}}
    BY DEF LadderActive, Occupied
  <2>2. LadderActive'[s] = {ladder'[s][n] : n \in {k \in Slots : ladder'[s][k] # Null}}
    BY DEF LadderActive, Occupied
  <2>3. CASE s # side
    BY <2>1, <2>2, <2>3, <1>3
  <2>4. CASE s = side
    <3>1. ladder'[s][slot] = price /\ ladder'[s][slot] # Null
      <4>1. CASE ladder[s][slot] = Null
        BY <4>1, <2>4, <1>2, <1>3, NullApart
      <4>2. CASE ladder[s][slot] # Null
        <5>1. price \in LadderActive[s]
          BY <4>2, <1>1, ActiveSlots DEF slot
        <5> QED
          BY <5>1, <4>2, <1>2, <1>3, ActiveSlots DEF slot
      <4> QED
        BY <4>1, <4>2
    <3>2. \A n \in Slots : n # slot => ladder'[s][n] = ladder[s][n]
      BY <1>3
    <3>3. ladder[s][slot] = Null \/ ladder[s][slot] = price
      BY <3>1, <1>2, <1>3
    <3> QED
      BY <3>1, <3>2, <3>3, <2>1, <2>2, <2>4, <1>2
  <2> QED
    BY <2>3, <2>4
<1> QED
  BY <1>7, <1>8

\* remove_level takes the price from its side; when it was the best, the scan
\* finds the next one.
LEMMA RemoveLadderStep ==
  ASSUME LadderInv, NEW side \in Sides, NEW price \in Prices, RemoveLadder(side, price)
  PROVE  /\ LadderInv'
         /\ \A s \in Sides :
              LadderActive'[s] = IF s = side THEN LadderActive[s] \ {price} ELSE LadderActive[s]
<1> DEFINE slot == SlotOf(price)
<1>1. CASE slot = Null
  <2>1. UNCHANGED <<ladder, best>>
    BY <1>1 DEF RemoveLadder, ladderVars
  <2>2. LadderInv' /\ LadderActive' = LadderActive
    BY <2>1 DEF LadderInv, LadderActive, Occupied
  <2>3. price \notin LadderActive[side]
    BY <1>1, ActiveSlots
  <2> QED
    BY <2>2, <2>3
<1>2. CASE slot # Null
  <2>1. /\ ladder' = [ladder EXCEPT ![side][slot] = Null]
        /\ best' = [best EXCEPT ![side] =
                      IF ladder[side][slot] # Null /\ @ = slot THEN Repaired(side, slot) ELSE @]
    BY <1>2 DEF RemoveLadder
  <2>2. slot \in Slots
    BY <1>2, SlotFacts
  <2>3. ladder[side][slot] # Null => ladder[side][slot] = price
    BY <1>2, ActiveSlots
  <2> HIDE DEF slot
  <2> DEFINE behind == {n \in Occupied(side) : Ahead(side, slot, n)}
  <2>4. /\ ladder' \in [Sides -> [Slots -> Prices \union {Null}]]
        /\ \A s \in Sides, n \in Slots :
             ladder'[s][n] = IF s = side /\ n = slot THEN Null ELSE ladder[s][n]
    BY <2>1, <2>2 DEF LadderInv
  <2>5. behind \in SUBSET Slots
    BY DEF Occupied
  <2>6. IF behind = {} THEN Repaired(side, slot) = Null
        ELSE /\ Repaired(side, slot) \in behind
             /\ \A m \in behind : m = Repaired(side, slot) \/ Ahead(side, Repaired(side, slot), m)
    <3>1. Repaired(side, slot) =
            IF behind = {} THEN Null
            ELSE CHOOSE n \in behind : \A m \in behind : m = n \/ Ahead(side, n, m)
      BY DEF Repaired
    <3> HIDE DEF behind
    <3> QED
      BY <3>1, <2>5, FirstSlotExists
  <2>7. Repaired(side, slot) \in Slots \union {Null}
    BY <2>5, <2>6
  <2>8. /\ best' \in [Sides -> Slots \union {Null}]
        /\ \A s \in Sides : s # side => best'[s] = best[s]
        /\ best'[side] = IF ladder[side][slot] # Null /\ best[side] = slot
                         THEN Repaired(side, slot) ELSE best[side]
    BY <2>1, <2>7 DEF LadderInv
  <2>9. ASSUME NEW s \in Sides
        PROVE  IF best'[s] = Null THEN \A n \in Slots : ladder'[s][n] = Null
               ELSE /\ ladder'[s][best'[s]] # Null
                    /\ \A n \in Slots :
                         ladder'[s][n] # Null => n = best'[s] \/ Ahead(s, best'[s], n)
    <3>1. CASE s # side
      <4>1. best'[s] = best[s] /\ \A n \in Slots : ladder'[s][n] = ladder[s][n]
        BY <3>1, <2>4, <2>8
      <4> QED
        BY <4>1 DEF LadderInv
    <3>2. CASE s = side /\ best[side] = Null
      <4>1. best'[s] = Null /\ \A n \in Slots : ladder[s][n] = Null
        BY <3>2, <2>2, <2>8, NullApart DEF LadderInv
      <4> QED
        BY <4>1, <2>4
    <3>3. CASE s = side /\ best[side] # Null /\ best[side] # slot
      <4>1. /\ best'[s] = best[side] /\ best[side] \in Slots
            /\ ladder[s][best[side]] # Null
            /\ \A n \in Slots : ladder[s][n] # Null => n = best[side] \/ Ahead(side, best[side], n)
        BY <3>3, <2>8 DEF LadderInv
      <4> QED
        BY <4>1, <3>3, <2>4
    <3>4. CASE s = side /\ best[side] = slot
      <4>1. /\ ladder[s][slot] # Null
            /\ \A n \in Slots : ladder[s][n] # Null => n = slot \/ Ahead(side, slot, n)
        BY <3>4, <2>2, NullApart DEF LadderInv
      <4>2. best'[s] = Repaired(side, slot)
        BY <3>4, <4>1, <2>8
      <4>3. \A n \in Slots : ladder'[s][n] # Null <=> n \in behind
        BY <3>4, <4>1, <2>2, <2>4, AheadOrders DEF Occupied
      <4> HIDE DEF behind
      <4>4. CASE behind = {}
        BY <4>2, <4>3, <4>4, <2>6
      <4>5. CASE behind # {}
        <5>1. /\ best'[s] \in behind
              /\ \A m \in behind : m = best'[s] \/ Ahead(side, best'[s], m)
          BY <4>2, <4>5, <2>6
        <5>2. best'[s] \in Slots /\ best'[s] # Null
          BY <5>1, <2>5, NullApart
        <5> QED
          BY <5>1, <5>2, <4>3, <3>4
      <4> QED
        BY <4>4, <4>5
    <3> QED
      BY <3>1, <3>2, <3>3, <3>4
  <2>10. \A s \in Sides, n \in Slots : ladder'[s][n] # Null => SlotOf(ladder'[s][n]) = n
    BY <2>4 DEF LadderInv
  <2>11. LadderInv'
    BY <2>4, <2>8, <2>9, <2>10 DEF LadderInv
  <2>12. ASSUME NEW s \in Sides
         PROVE  LadderActive'[s] = IF s = side THEN LadderActive[s] \ {price} ELSE LadderActive[s]
    <3>1. LadderActive[s] = {ladder[s][n] : n \in {k \in Slots : ladder[s][k] # Null}}
      BY DEF LadderActive, Occupied
    <3>2. LadderActive'[s] = {ladder'[s][n] : n \in {k \in Slots : ladder'[s][k] # Null}}
      BY DEF LadderActive, Occupied
    <3>3. CASE s # side
      BY <3>1, <3>2, <3>3, <2>4
    <3>4. CASE s = side
      <4>1. \A n \in Slots : ladder[s][n] # Null /\ n # slot => ladder[s][n] # price
        BY <3>4 DEF LadderInv, slot
      <4>2. \A n \in Slots : n # slot => ladder'[s][n] = ladder[s][n]
        BY <2>4
      <4>3. ladder'[s][slot] = Null
        BY <3>4, <2>2, <2>4
      <4> QED
        BY <3>1, <3>2, <3>4, <4>1, <4>2, <4>3, <2>2, <2>3
    <3> QED
      BY <3>3, <3>4
  <2> QED
    BY <2>11, <2>12
<1> QED
  BY <1>1, <1>2

\* The cached slot holds the first key of the ordered map.
LadderShowsBest ==
  \A side \in Sides : LadderTouch(side) = LadderStore!TouchOf(side, LadderActive[side])

LEMMA LadderTouchIsBest == LadderInv => LadderShowsBest
<1> SUFFICES ASSUME LadderInv, NEW side \in Sides
             PROVE  LadderTouch(side) = LadderStore!TouchOf(side, LadderActive[side])
  BY DEF LadderShowsBest
<1> DEFINE A == LadderActive[side]
<1>1. LadderStore!TouchOf(side, A) =
        IF A = {} THEN Null ELSE CHOOSE p \in A : \A q \in A : q = p \/ Better(side, p, q)
  BY DEF LadderStore!TouchOf, LadderStore!Better, Better
<1>2. /\ A \in SUBSET Prices
      /\ \A p \in Prices : p \in A <=> SlotOf(p) # Null /\ ladder[side][SlotOf(p)] # Null
      /\ \A p \in A : ladder[side][SlotOf(p)] = p
  BY ActiveSlots
<1>3. \A n \in Slots : ladder[side][n] # Null =>
        /\ ladder[side][n] \in Prices /\ SlotOf(ladder[side][n]) = n
  BY DEF LadderInv
<1>4. CASE best[side] = Null
  <2>1. \A n \in Slots : ladder[side][n] = Null
    BY <1>4 DEF LadderInv
  <2>2. A = {}
    BY <1>2, <2>1, SlotFacts
  <2> QED
    BY <1>1, <1>4, <2>2 DEF LadderTouch
<1>5. CASE best[side] # Null
  <2> DEFINE b == ladder[side][best[side]]
  <2>1. /\ best[side] \in Slots /\ b # Null
        /\ \A n \in Slots : ladder[side][n] # Null => n = best[side] \/ Ahead(side, best[side], n)
    BY <1>5 DEF LadderInv
  <2>2. b \in Prices /\ SlotOf(b) = best[side] /\ SlotOf(b) # Null
    BY <1>3, <1>5, <2>1
  <2>3. b \in A
    BY <1>2, <2>1, <2>2
  <2>4. LadderTouch(side) = b
    BY <1>5 DEF LadderTouch
  <2> HIDE DEF A, b
  <2>5. \A q \in A : q = b \/ Better(side, b, q)
    <3>1. SUFFICES ASSUME NEW q \in A PROVE q = b \/ Better(side, b, q)
      OBVIOUS
    <3>2. q \in Prices /\ SlotOf(q) # Null /\ ladder[side][SlotOf(q)] # Null
      BY <1>2
    <3>3. SlotOf(q) \in Slots
      BY <3>2, SlotFacts
    <3>4. SlotOf(q) = SlotOf(b) \/ Ahead(side, SlotOf(b), SlotOf(q))
      BY <2>1, <2>2, <3>2, <3>3
    <3> QED
      BY <2>2, <3>2, <3>4, SlotFacts
  <2>6. \A p \in A : (\A q \in A : q = p \/ Better(side, p, q)) => p = b
    BY <1>2, <2>3, <2>5, BestIsUnique
  <2>7. (CHOOSE p \in A : \A q \in A : q = p \/ Better(side, p, q)) = b
    BY <2>3, <2>5, <2>6
  <2>8. LadderStore!TouchOf(side, A) = b
    BY <1>1, <2>3, <2>7
  <2> QED
    BY <2>4, <2>8 DEF A
<1> QED
  BY <1>4, <1>5

\* The same, of the next state.
LEMMA LadderTouchIsBestNext == LadderInv' => LadderShowsBest'
BY LadderTouchIsBest, PTL

\* A call that adds or removes a price is that call of the store.
LEMMA LadderCall ==
  ASSUME LadderInv, LadderInv', NEW side \in Sides, NEW price \in Prices
  PROVE  /\ (\A s \in Sides :
               LadderActive'[s] = IF s = side THEN LadderActive[s] \union {price} ELSE LadderActive[s])
              => LadderStore!EnsureLevel(side, price)
         /\ (\A s \in Sides :
               LadderActive'[s] = IF s = side THEN LadderActive[s] \ {price} ELSE LadderActive[s])
              => LadderStore!RemoveLevel(side, price)
<1>1. \A s \in Sides :
        /\ LadderTouch(s) = LadderStore!TouchOf(s, LadderActive[s])
        /\ LadderTouch(s)' = LadderStore!TouchOf(s, LadderActive'[s])
  BY LadderTouchIsBest, LadderTouchIsBestNext DEF LadderShowsBest
<1>2. /\ LadderActive = [s \in Sides |-> LadderActive[s]]
      /\ LadderActive' = [s \in Sides |-> LadderActive'[s]]
  BY DEF LadderActive
<1>3. ASSUME NEW prices, \A s \in Sides : LadderActive'[s] = IF s = side THEN prices ELSE LadderActive[s]
      PROVE  LadderStore!Replace(side, prices)
  <2>1. LadderActive' = [LadderActive EXCEPT ![side] = prices]
    BY <1>2, <1>3
  <2>2. [s \in Sides |-> LadderTouch(s)'] =
          [[s \in Sides |-> LadderTouch(s)] EXCEPT ![side] = LadderStore!TouchOf(side, prices)]
    BY <1>1, <1>3
  <2> QED
    BY <2>1, <2>2 DEF LadderStore!Replace
<1>4. (\A s \in Sides :
         LadderActive'[s] = IF s = side THEN LadderActive[s] \union {price} ELSE LadderActive[s])
        => LadderStore!Replace(side, LadderActive[side] \union {price})
  BY <1>3
<1>5. (\A s \in Sides :
         LadderActive'[s] = IF s = side THEN LadderActive[s] \ {price} ELSE LadderActive[s])
        => LadderStore!Replace(side, LadderActive[side] \ {price})
  BY <1>3
<1> QED
  BY <1>4, <1>5 DEF LadderStore!EnsureLevel, LadderStore!RemoveLevel

-------------------------------------------------------------------------------
(* The hash map *)

\* A price is in the heap exactly while its level is in the map.
HashInv ==
  /\ hashed \in [Sides -> SUBSET Prices]
  /\ heap \in [Sides -> [Prices -> Nat]]
  /\ \A side \in Sides, p \in Prices : heap[side][p] > 0 <=> p \in hashed[side]

LEMMA EnsureHashStep ==
  ASSUME HashInv, NEW side \in Sides, NEW price \in Prices, EnsureHash(side, price)
  PROVE  /\ HashInv'
         /\ \A s \in Sides :
              hashed'[s] = IF s = side THEN hashed[s] \union {price} ELSE hashed[s]
<1>1. /\ hashed' = [hashed EXCEPT ![side] = @ \union {price}]
      /\ heap' = [heap EXCEPT ![side][price] = IF price \in hashed[side] THEN @ ELSE @ + 1]
  BY DEF EnsureHash
<1>2. /\ hashed' \in [Sides -> SUBSET Prices]
      /\ \A s \in Sides : hashed'[s] = IF s = side THEN hashed[s] \union {price} ELSE hashed[s]
  BY <1>1 DEF HashInv
<1>3. /\ heap' \in [Sides -> [Prices -> Nat]]
      /\ \A s \in Sides, p \in Prices :
           heap'[s][p] = IF s = side /\ p = price /\ price \notin hashed[side]
                         THEN heap[s][p] + 1 ELSE heap[s][p]
  BY <1>1 DEF HashInv
<1>4. \A s \in Sides, p \in Prices : heap'[s][p] > 0 <=> p \in hashed'[s]
  BY <1>2, <1>3 DEF HashInv
<1> QED
  BY <1>2, <1>3, <1>4 DEF HashInv

LEMMA RemoveHashStep ==
  ASSUME HashInv, NEW side \in Sides, NEW price \in Prices, RemoveHash(side, price)
  PROVE  /\ HashInv'
         /\ \A s \in Sides :
              hashed'[s] = IF s = side THEN hashed[s] \ {price} ELSE hashed[s]
<1>1. /\ hashed' = [hashed EXCEPT ![side] = @ \ {price}]
      /\ heap' = [heap EXCEPT ![side][price] = 0]
  BY DEF RemoveHash
<1>2. /\ hashed' \in [Sides -> SUBSET Prices]
      /\ \A s \in Sides : hashed'[s] = IF s = side THEN hashed[s] \ {price} ELSE hashed[s]
  BY <1>1 DEF HashInv
<1>3. /\ heap' \in [Sides -> [Prices -> Nat]]
      /\ \A s \in Sides, p \in Prices :
           heap'[s][p] = IF s = side /\ p = price THEN 0 ELSE heap[s][p]
  BY <1>1 DEF HashInv
<1>4. \A s \in Sides, p \in Prices : heap'[s][p] > 0 <=> p \in hashed'[s]
  BY <1>2, <1>3 DEF HashInv
<1> QED
  BY <1>2, <1>3, <1>4 DEF HashInv

\* The top of the heap is the first key of the ordered map.
HashShowsBest ==
  \A side \in Sides : HashTouch(side) = HashStore!TouchOf(side, hashed[side])

LEMMA HashTouchIsBest == HashInv => HashShowsBest
<1> SUFFICES ASSUME HashInv, NEW side \in Sides
             PROVE  HashTouch(side) = HashStore!TouchOf(side, hashed[side])
  BY DEF HashShowsBest
<1>1. hashed[side] \in SUBSET Prices /\ Heaped(side) = hashed[side]
  BY DEF HashInv, Heaped
<1>2. HashStore!TouchOf(side, hashed[side]) =
        IF hashed[side] = {} THEN Null
        ELSE CHOOSE p \in hashed[side] : \A q \in hashed[side] : q = p \/ Better(side, p, q)
  BY DEF HashStore!TouchOf, HashStore!Better, Better
<1>3. Top(side) =
        CHOOSE p \in hashed[side] : \A q \in hashed[side] : q = p \/ Better(side, p, q)
  BY <1>1 DEF Top
<1>4. hashed[side] # {} => Top(side) \in hashed[side]
  BY <1>1, <1>3, BestExists
<1> QED
  BY <1>1, <1>2, <1>3, <1>4 DEF HashTouch

\* The same, of the next state.
LEMMA HashTouchIsBestNext == HashInv' => HashShowsBest'
BY HashTouchIsBest, PTL

LEMMA HashCall ==
  ASSUME HashInv, HashInv', NEW side \in Sides, NEW price \in Prices
  PROVE  /\ (\A s \in Sides :
               hashed'[s] = IF s = side THEN hashed[s] \union {price} ELSE hashed[s])
              => HashStore!EnsureLevel(side, price)
         /\ (\A s \in Sides :
               hashed'[s] = IF s = side THEN hashed[s] \ {price} ELSE hashed[s])
              => HashStore!RemoveLevel(side, price)
<1>1. \A s \in Sides :
        /\ HashTouch(s) = HashStore!TouchOf(s, hashed[s])
        /\ HashTouch(s)' = HashStore!TouchOf(s, hashed'[s])
  BY HashTouchIsBest, HashTouchIsBestNext DEF HashShowsBest
<1>2. hashed \in [Sides -> SUBSET Prices] /\ hashed' \in [Sides -> SUBSET Prices]
  BY DEF HashInv
<1>3. ASSUME NEW prices, \A s \in Sides : hashed'[s] = IF s = side THEN prices ELSE hashed[s]
      PROVE  HashStore!Replace(side, prices)
  <2>1. hashed' = [hashed EXCEPT ![side] = prices]
    BY <1>2, <1>3
  <2>2. [s \in Sides |-> HashTouch(s)'] =
          [[s \in Sides |-> HashTouch(s)] EXCEPT ![side] = HashStore!TouchOf(side, prices)]
    BY <1>1, <1>3
  <2> QED
    BY <2>1, <2>2 DEF HashStore!Replace
<1>4. (\A s \in Sides : hashed'[s] = IF s = side THEN hashed[s] \union {price} ELSE hashed[s])
        => HashStore!Replace(side, hashed[side] \union {price})
  BY <1>3
<1>5. (\A s \in Sides : hashed'[s] = IF s = side THEN hashed[s] \ {price} ELSE hashed[s])
        => HashStore!Replace(side, hashed[side] \ {price})
  BY <1>3
<1> QED
  BY <1>4, <1>5 DEF HashStore!EnsureLevel, HashStore!RemoveLevel

-------------------------------------------------------------------------------
(* Lists and levels together *)

\* Both layouts hold the same levels.
SameLevels == \A side \in Sides : hashed[side] = LadderActive[side]

BackendInv == QueueInv /\ LadderInv /\ HashInv /\ SameLevels /\ LevelsHoldOrders

\* What a call of the engine is to the two stores.
StoreCall ==
  \/ UNCHANGED <<ladderVars, hashVars>>
  \/ \E side \in Sides, price \in Prices : EnsureLadder(side, price) /\ EnsureHash(side, price)
  \/ \E side \in Sides, price \in Prices : RemoveLadder(side, price) /\ RemoveHash(side, price)

\* Whatever the call, each store makes it as the ordered map would, and the two
\* go on agreeing.
LEMMA StoreCallKeeps ==
  ASSUME LadderInv, HashInv, SameLevels, StoreCall
  PROVE  /\ LadderInv' /\ HashInv' /\ SameLevels'
         /\ [LadderStore!StoreNext]_(LadderStore!storeVars)
         /\ [HashStore!StoreNext]_(HashStore!storeVars)
<1>1. CASE UNCHANGED <<ladderVars, hashVars>>
  <2>1. LadderInv' /\ HashInv' /\ SameLevels'
    BY <1>1 DEF ladderVars, hashVars, LadderInv, HashInv, SameLevels, LadderActive, Occupied
  <2>2. LadderStore!storeVars' = LadderStore!storeVars
    BY <1>1 DEF ladderVars, LadderStore!storeVars, LadderActive, Occupied, LadderTouch
  <2>3. HashStore!storeVars' = HashStore!storeVars
    BY <1>1 DEF hashVars, HashStore!storeVars, HashTouch, Heaped, Top
  <2> QED
    BY <2>1, <2>2, <2>3
<1>2. ASSUME NEW side \in Sides, NEW price \in Prices,
             EnsureLadder(side, price), EnsureHash(side, price)
      PROVE  /\ LadderInv' /\ HashInv' /\ SameLevels'
             /\ LadderStore!StoreNext /\ HashStore!StoreNext
  <2>1. /\ LadderInv'
        /\ \A s \in Sides :
             LadderActive'[s] = IF s = side THEN LadderActive[s] \union {price} ELSE LadderActive[s]
    BY <1>2, EnsureLadderStep
  <2>2. /\ HashInv'
        /\ \A s \in Sides :
             hashed'[s] = IF s = side THEN hashed[s] \union {price} ELSE hashed[s]
    BY <1>2, EnsureHashStep
  <2>3. LadderStore!EnsureLevel(side, price)
    BY <2>1, LadderCall
  <2>4. HashStore!EnsureLevel(side, price)
    BY <2>2, HashCall
  <2>5. SameLevels'
    BY <2>1, <2>2 DEF SameLevels
  <2> QED
    BY <2>1, <2>2, <2>3, <2>4, <2>5
       DEF LadderStore!StoreNext, HashStore!StoreNext, Sides, LadderStore!Sides, HashStore!Sides
<1>3. ASSUME NEW side \in Sides, NEW price \in Prices,
             RemoveLadder(side, price), RemoveHash(side, price)
      PROVE  /\ LadderInv' /\ HashInv' /\ SameLevels'
             /\ LadderStore!StoreNext /\ HashStore!StoreNext
  <2>1. /\ LadderInv'
        /\ \A s \in Sides :
             LadderActive'[s] = IF s = side THEN LadderActive[s] \ {price} ELSE LadderActive[s]
    BY <1>3, RemoveLadderStep
  <2>2. /\ HashInv'
        /\ \A s \in Sides :
             hashed'[s] = IF s = side THEN hashed[s] \ {price} ELSE hashed[s]
    BY <1>3, RemoveHashStep
  <2>3. LadderStore!RemoveLevel(side, price)
    BY <2>1, LadderCall
  <2>4. HashStore!RemoveLevel(side, price)
    BY <2>2, HashCall
  <2>5. SameLevels'
    BY <2>1, <2>2 DEF SameLevels
  <2> QED
    BY <2>1, <2>2, <2>3, <2>4, <2>5
       DEF LadderStore!StoreNext, HashStore!StoreNext, Sides, LadderStore!Sides, HashStore!Sides
<1> QED
  BY <1>1, <1>2, <1>3 DEF StoreCall

\* A level's key among the queues.
LEMMA LevelKeyFacts ==
  /\ \A side \in Sides, price \in Prices :
       /\ LevelKey(side, price) \in Queues /\ LevelKey(side, price) # Null
       /\ LevelKey(side, price).side = side /\ LevelKey(side, price).price = price
       /\ \A s \in Sides, p \in Prices :
            LevelKey(s, p) = LevelKey(side, price) => s = side /\ p = price
  /\ \A q \in Queues : q.side \in Sides /\ q.price \in Prices /\ LevelKey(q.side, q.price) = q
BY QueueAssumption DEF LevelKey, Queues

\* remove_key shortens at most the list it is called on, by one.
LEMMA RemoveKeyLengths ==
  ASSUME QueueTypeOK, QueueTypeOK', NEW q \in Queues, NEW key \in Keys, RemoveKey(q, key)
  PROVE  /\ \A r \in Queues : r # q => list'[r] = list[r]
         /\ list[q].len \in Nat /\ list'[q].len \in Nat /\ list'[q].len <= list[q].len
<1>1. list[q] \in Lists /\ list'[q] \in Lists
  BY DEF QueueTypeOK
<1>2. list[q].len \in Nat /\ list'[q].len \in Nat
  BY <1>1 DEF Lists
<1>3. CASE ~Live(key)
  BY <1>2, <1>3 DEF RemoveKey
<1>4. CASE Live(key)
  <2>1. list' = [list EXCEPT ![q] =
                   [head |-> IF node[key.cell].previous = Null THEN node[key.cell].next ELSE list[q].head,
                    tail |-> IF node[key.cell].next = Null THEN node[key.cell].previous ELSE list[q].tail,
                    len  |-> list[q].len - 1]]
    BY <1>4 DEF RemoveKey
  <2>2. list'[q].len = list[q].len - 1 /\ \A r \in Queues : r # q => list'[r] = list[r]
    BY <2>1 DEF QueueTypeOK
  <2> QED
    BY <1>2, <2>2
<1> QED
  BY <1>3, <1>4

LEMMA BackendInvInit == BackendInit => BackendInv
<1> SUFFICES ASSUME BackendInit PROVE BackendInv
  OBVIOUS
<1>1. QueueInv
  BY QueueInvInit DEF BackendInit
<1>2. LadderInv
  BY DEF BackendInit, LadderInit, LadderInv
<1>3. \A side \in Sides : LadderActive[side] = {}
  BY DEF BackendInit, LadderInit, LadderActive, Occupied
<1>4. HashInv /\ SameLevels
  BY <1>3 DEF BackendInit, HashInit, HashInv, SameLevels
<1>5. LevelsHoldOrders
  BY <1>3, LevelKeyFacts DEF BackendInit, QueueInit, LevelsHoldOrders
<1> QED
  BY <1>1, <1>2, <1>4, <1>5 DEF BackendInv

\* The touch a sweep goes for is a level that may exist.
LEMMA TouchIsPrice ==
  ASSUME LadderInv, NEW side \in Sides, best[side] # Null
  PROVE  LadderTouch(side) \in Prices
<1>1. best[side] \in Slots /\ ladder[side][best[side]] # Null
  BY DEF LadderInv
<1> QED
  BY <1>1 DEF LadderInv, LadderTouch

\* A step of the storage is a step of the lists and a call of the stores.
LEMMA NextIsQueueAndStore ==
  ASSUME BackendInv, [BackendNext]_backendVars
  PROVE  [QueueNext]_queueVars /\ StoreCall
<1>1. ASSUME NEW side \in Sides, NEW price \in Prices, NEW client \in Clients,
             AddOrder(side, price, client)
      PROVE  QueueNext /\ StoreCall
  BY <1>1, LevelKeyFacts DEF AddOrder, QueueNext, StoreCall
<1>2. ASSUME NEW q \in Queues, RemoveIfDrained(q)
      PROVE  StoreCall
  BY <1>2, LevelKeyFacts DEF RemoveIfDrained, RemoveLevels, StoreCall
<1>3. ASSUME NEW order \in Arrivals, CancelOrder(order)
      PROVE  QueueNext /\ StoreCall
  <2>1. index[order].queue \in Queues
    BY <1>3 DEF CancelOrder, Cancel, BackendInv, QueueInv, QueueTypeOK, Entries
  <2> QED
    BY <2>1, <1>2, <1>3 DEF CancelOrder, QueueNext
<1>4. ASSUME NEW side \in Sides, NEW client \in Clients, SweepBest(side, client)
      PROVE  QueueNext /\ StoreCall
  <2>1. LevelKey(side, LadderTouch(side)) \in Queues
    BY <1>4, TouchIsPrice, LevelKeyFacts DEF SweepBest, BackendInv
  <2> QED
    BY <2>1, <1>4 DEF SweepBest, QueueNext, StoreCall
<1>5. CASE Sweep
  <2>1. CASE (Purge \/ Unindex \/ Project \/ Allocate \/ SpareMaker \/ ExhaustMaker)
               /\ UNCHANGED <<ladderVars, hashVars>>
    BY <2>1 DEF QueueNext, SweepStep, StoreCall
  <2>2. CASE LeaveLevel /\ RemoveIfDrained(at)
    <3>1. at \in Queues
      BY <2>2 DEF LeaveLevel, BackendInv, QueueInv, SweepState
    <3> QED
      BY <2>2, <3>1, <1>2 DEF QueueNext, SweepStep
  <2> QED
    BY <1>5, <2>1, <2>2 DEF Sweep
<1>6. CASE AwaitCall \/ UNCHANGED backendVars
  BY <1>6 DEF AwaitCall, backendVars, StoreCall
<1> QED
  BY <1>1, <1>3, <1>4, <1>5, <1>6 DEF BackendNext

\* A level that loses its last order, or the sweep that drained it, goes.
LEMMA DrainedGoes ==
  ASSUME LadderInv, LevelsHoldOrders, QueueTypeOK', NEW q \in Queues, RemoveIfDrained(q),
         \A r \in Queues : r # q => list'[r] = list[r],
         list'[q].len # 0 => list[q].len # 0, at \in {q, Null}, at' = Null
  PROVE  LevelsHoldOrders'
<1> SUFFICES ASSUME NEW side \in Sides, NEW price \in Prices
             PROVE  list'[LevelKey(side, price)].len # 0 <=> price \in LadderActive'[side]
  BY DEF LevelsHoldOrders, LevelKey
<1> DEFINE r == LevelKey(side, price)
<1>1. /\ list[r].len # 0 => price \in LadderActive[side]
      /\ price \in LadderActive[side] => list[r].len # 0 \/ r = at
      /\ r \in Queues /\ r # Null
  BY LevelKeyFacts DEF LevelsHoldOrders
<1>2. CASE list'[q].len = 0
  <2>1. RemoveLadder(q.side, q.price) /\ q.side \in Sides /\ q.price \in Prices
    BY <1>2, LevelKeyFacts DEF RemoveIfDrained, RemoveLevels
  <2>2. \A s \in Sides :
          LadderActive'[s] = IF s = q.side THEN LadderActive[s] \ {q.price} ELSE LadderActive[s]
    BY <2>1, RemoveLadderStep
  <2>3. r = q <=> side = q.side /\ price = q.price
    BY <2>1, LevelKeyFacts
  <2> HIDE DEF r
  <2>4. CASE r = q
    BY <2>2, <2>3, <2>4, <1>2 DEF r
  <2>5. CASE r # q
    <3>1. price \in LadderActive'[side] <=> price \in LadderActive[side]
      BY <2>2, <2>3, <2>5
    <3>2. list'[r] = list[r] /\ r # at
      BY <2>5, <1>1
    <3> QED
      BY <3>1, <3>2, <1>1 DEF r
  <2> QED
    BY <2>4, <2>5
<1>3. CASE list'[q].len # 0
  <2>1. LadderActive' = LadderActive
    BY <1>3 DEF RemoveIfDrained, ladderVars, LadderActive, Occupied
  <2> HIDE DEF r
  <2>2. CASE r = q
    BY <2>1, <2>2, <1>1, <1>3 DEF r
  <2>3. CASE r # q
    <3>1. list'[r] = list[r] /\ r # at
      BY <2>3, <1>1
    <3> QED
      BY <2>1, <3>1, <1>1 DEF r
  <2> QED
    BY <2>2, <2>3
<1> QED
  BY <1>2, <1>3

\* Within a sweep only the level being drained gets shorter.
LEMMA SweepShortens ==
  ASSUME QueueInv, QueueInv',
         Purge \/ Unindex \/ Project \/ Allocate \/ SpareMaker \/ ExhaustMaker
  PROVE  /\ at \in Queues /\ at' = at
         /\ \A r \in Queues : r # at => list'[r] = list[r]
         /\ list'[at].len # 0 => list[at].len # 0
<1>1. /\ QueueTypeOK /\ QueueTypeOK' /\ SweepState
  BY DEF QueueInv
<1>2. at \in Queues /\ at' = at
  BY <1>1 DEF SweepState, Purge, Unindex, Project, Allocate, SpareMaker, ExhaustMaker
<1>3. ASSUME NEW key \in Keys, RemoveKey(at, key)
      PROVE  /\ \A r \in Queues : r # at => list'[r] = list[r]
             /\ list'[at].len # 0 => list[at].len # 0
  BY <1>1, <1>2, <1>3, RemoveKeyLengths
<1>4. CASE list' = list
  BY <1>2, <1>4
<1>5. CASE Purge /\ list' # list
  <2>1. RemoveKey(at, cursor) /\ cursor \in Keys
    BY <1>1, <1>5 DEF Purge, QueueTypeOK
  <2> QED
    BY <2>1, <1>2, <1>3
<1>6. CASE ExhaustMaker
  <2>1. RemoveKey(at, Head(makers)) /\ Head(makers) \in Keys
    BY <1>1, <1>6 DEF ExhaustMaker, QueueTypeOK
  <2> QED
    BY <2>1, <1>2, <1>3
<1>7. CASE Unindex \/ Project \/ Allocate \/ SpareMaker
  BY <1>4, <1>7 DEF Unindex, Project, Allocate, SpareMaker
<1> QED
  BY <1>4, <1>5, <1>6, <1>7

LEMMA BackendInvStep == BackendInv /\ [BackendNext]_backendVars => BackendInv'
<1> SUFFICES ASSUME BackendInv, [BackendNext]_backendVars PROVE BackendInv'
  OBVIOUS
<1>1. [QueueNext]_queueVars /\ StoreCall
  BY NextIsQueueAndStore
<1>2. QueueInv /\ QueueInv' /\ QueueTypeOK /\ QueueTypeOK' /\ SweepState
  BY <1>1, QueueInvStep DEF BackendInv, QueueInv
<1>3. LadderInv /\ LadderInv' /\ HashInv' /\ SameLevels' /\ LevelsHoldOrders
  BY <1>1, StoreCallKeeps DEF BackendInv
<1>4. LevelsHoldOrders'
  <2>1. ASSUME NEW side \in Sides, NEW price \in Prices, NEW client \in Clients,
               AddOrder(side, price, client)
        PROVE  LevelsHoldOrders'
    <3> DEFINE q == LevelKey(side, price)
    <3>1. /\ EnsureLadder(side, price) /\ pc = "idle" /\ at' = at /\ at = Null /\ q \in Queues
          /\ \E cell \in Cells : PushBack(q, cell, client)
      BY <2>1, <1>2, LevelKeyFacts DEF AddOrder, Rest, sweepVars, SweepState
    <3>2. \A s \in Sides :
            LadderActive'[s] = IF s = side THEN LadderActive[s] \union {price} ELSE LadderActive[s]
      BY <3>1, <1>3, EnsureLadderStep
    <3>3. list'[q].len # 0 /\ \A r \in Queues : r # q => list'[r] = list[r]
      <4>1. PICK cell \in Cells : PushBack(q, cell, client)
        BY <3>1
      <4>2. list' = [list EXCEPT ![q] =
                       [head |-> IF list[q].tail = Null THEN KeyOf(cell) ELSE list[q].head,
                        tail |-> KeyOf(cell), len |-> list[q].len + 1]]
        BY <4>1 DEF PushBack
      <4>3. list[q].len \in Nat
        BY <1>2, <3>1 DEF QueueTypeOK, Lists
      <4>4. list'[q].len = list[q].len + 1 /\ \A r \in Queues : r # q => list'[r] = list[r]
        BY <4>2, <3>1, <1>2 DEF QueueTypeOK
      <4> QED
        BY <4>3, <4>4
    <3> HIDE DEF q
    <3>4. ASSUME NEW s \in Sides, NEW p \in Prices
          PROVE  list'[LevelKey(s, p)].len # 0 <=> p \in LadderActive'[s]
      <4>1. /\ list[LevelKey(s, p)].len # 0 => p \in LadderActive[s]
            /\ p \in LadderActive[s] => list[LevelKey(s, p)].len # 0 \/ LevelKey(s, p) = at
            /\ LevelKey(s, p) \in Queues /\ LevelKey(s, p) # at
        BY <1>3, <3>1, LevelKeyFacts DEF LevelsHoldOrders
      <4>2. LevelKey(s, p) = q <=> s = side /\ p = price
        BY LevelKeyFacts DEF q
      <4>3. CASE LevelKey(s, p) = q
        BY <4>2, <4>3, <3>2, <3>3
      <4>4. CASE LevelKey(s, p) # q
        <5>1. list'[LevelKey(s, p)] = list[LevelKey(s, p)]
          BY <4>1, <4>4, <3>3
        <5>2. p \in LadderActive'[s] <=> p \in LadderActive[s]
          BY <4>2, <4>4, <3>2
        <5> QED
          BY <5>1, <5>2, <4>1
      <4> QED
        BY <4>3, <4>4
    <3> QED
      BY <3>4 DEF LevelsHoldOrders, LevelKey
  <2>2. ASSUME NEW order \in Arrivals, CancelOrder(order)
        PROVE  LevelsHoldOrders'
    <3> DEFINE q == index[order].queue
    <3>1. /\ pc = "idle" /\ at' = Null /\ at = Null /\ q \in Queues /\ index[order].key \in Keys
          /\ RemoveKey(q, index[order].key) /\ RemoveIfDrained(q)
      BY <2>2, <1>2 DEF CancelOrder, Cancel, sweepVars, SweepState, QueueTypeOK, Entries
    <3> HIDE DEF q
    <3>2. /\ \A r \in Queues : r # q => list'[r] = list[r]
          /\ list'[q].len # 0 => list[q].len # 0
      BY <3>1, <1>2, RemoveKeyLengths
    <3> QED
      BY <3>1, <3>2, <1>2, <1>3, DrainedGoes
  <2>3. ASSUME NEW side \in Sides, NEW client \in Clients, SweepBest(side, client)
        PROVE  LevelsHoldOrders'
    <3>1. list' = list /\ LadderActive' = LadderActive /\ at = Null
      BY <2>3, <1>2 DEF SweepBest, BeginSweep, ladderVars, LadderActive, Occupied, SweepState
    <3>2. ASSUME NEW s \in Sides, NEW p \in Prices
          PROVE  /\ list'[LevelKey(s, p)].len # 0 => p \in LadderActive'[s]
                 /\ p \in LadderActive'[s] => list'[LevelKey(s, p)].len # 0
      <4>1. /\ list[LevelKey(s, p)].len # 0 => p \in LadderActive[s]
            /\ p \in LadderActive[s] => list[LevelKey(s, p)].len # 0 \/ LevelKey(s, p) = at
        BY <1>3 DEF LevelsHoldOrders
      <4>2. LevelKey(s, p) # at
        BY <3>1, LevelKeyFacts
      <4> QED
        BY <4>1, <4>2, <3>1
    <3> QED
      BY <3>2 DEF LevelsHoldOrders, LevelKey
  <2>4. CASE Sweep
    <3>1. CASE (Purge \/ Unindex \/ Project \/ Allocate \/ SpareMaker \/ ExhaustMaker)
                 /\ UNCHANGED <<ladderVars, hashVars>>
      <4>1. LadderActive' = LadderActive
        BY <3>1 DEF ladderVars, LadderActive, Occupied
      <4>2. /\ at \in Queues /\ at' = at
            /\ \A r \in Queues : r # at => list'[r] = list[r]
            /\ list'[at].len # 0 => list[at].len # 0
        BY <3>1, <1>2, SweepShortens
      <4>3. ASSUME NEW s \in Sides, NEW p \in Prices
            PROVE  /\ list'[LevelKey(s, p)].len # 0 => p \in LadderActive'[s]
                   /\ p \in LadderActive'[s] => list'[LevelKey(s, p)].len # 0 \/ LevelKey(s, p) = at'
        <5>1. /\ list[LevelKey(s, p)].len # 0 => p \in LadderActive[s]
              /\ p \in LadderActive[s] => list[LevelKey(s, p)].len # 0 \/ LevelKey(s, p) = at
              /\ LevelKey(s, p) \in Queues
          BY <1>3, LevelKeyFacts DEF LevelsHoldOrders
        <5> QED
          BY <5>1, <4>1, <4>2
      <4> QED
        BY <4>3 DEF LevelsHoldOrders, LevelKey
    <3>2. CASE LeaveLevel /\ RemoveIfDrained(at)
      <4>1. at \in Queues /\ at' = Null /\ list' = list
        BY <3>2, <1>2 DEF LeaveLevel, SweepState
      <4> QED
        BY <4>1, <3>2, <1>2, <1>3, DrainedGoes
    <3> QED
      BY <2>4, <3>1, <3>2 DEF Sweep
  <2>5. CASE AwaitCall \/ UNCHANGED backendVars
    <3>1. list' = list /\ LadderActive' = LadderActive /\ at' = at
      BY <2>5 DEF AwaitCall, backendVars, queueVars, ladderVars, LadderActive, Occupied
    <3> QED
      BY <3>1, <1>3 DEF LevelsHoldOrders, LevelKey
  <2> QED
    BY <2>1, <2>2, <2>3, <2>4, <2>5 DEF BackendNext
<1> QED
  BY <1>2, <1>3, <1>4 DEF BackendInv

-------------------------------------------------------------------------------
(* The theorems *)

\* The invariant holds throughout.
THEOREM BackendInvariant == BackendSpec => []BackendInv
  BY BackendInvInit, BackendInvStep, PTL DEF BackendSpec

\* ensure_level and remove_level, called as the engine calls them, leave a
\* level in the store exactly while orders rest in it.
THEOREM LevelsAlwaysHoldOrders == BackendSpec => []LevelsHoldOrders
<1>1. BackendInv => LevelsHoldOrders
  BY DEF BackendInv
<1> QED
  BY <1>1, BackendInvariant, PTL

\* The lists under the stores behave as LevelQueue says, so all that is proved
\* of it holds here.
THEOREM BackendRunsQueues == BackendSpec => QueueSpec
<1>1. BackendInit => QueueInit
  BY DEF BackendInit
<1>2. BackendInv /\ [BackendNext]_backendVars => [QueueNext]_queueVars
  BY NextIsQueueAndStore
<1> QED
  BY <1>1, <1>2, BackendInvariant, PTL DEF BackendSpec, QueueSpec

\* TickLadderStore is a level store: slot arithmetic, the cached best slot and
\* its repair after a removal give what the ordered map gives.
THEOREM LadderIsStore == BackendSpec => LadderImplementsStore
<1>1. BackendInit => LadderStore!StoreInit
  BY DEF BackendInit, LadderInit, LadderStore!StoreInit, LadderActive, Occupied, LadderTouch,
         Sides, LadderStore!Sides
<1>2. BackendInv /\ [BackendNext]_backendVars => [LadderStore!StoreNext]_(LadderStore!storeVars)
  BY NextIsQueueAndStore, StoreCallKeeps DEF BackendInv
<1> QED
  BY <1>1, <1>2, BackendInvariant, PTL DEF BackendSpec, LadderImplementsStore, LadderStore!StoreSpec

\* HashMapStore is a level store: no price of a removed level stays in the heap
\* to hide the true best.
THEOREM HashIsStore == BackendSpec => HashImplementsStore
<1>1. BackendInit => HashStore!StoreInit
  BY DEF BackendInit, HashInit, HashStore!StoreInit, HashTouch, Heaped, Sides, HashStore!Sides
<1>2. BackendInv /\ [BackendNext]_backendVars => [HashStore!StoreNext]_(HashStore!storeVars)
  BY NextIsQueueAndStore, StoreCallKeeps DEF BackendInv
<1> QED
  BY <1>1, <1>2, BackendInvariant, PTL DEF BackendSpec, HashImplementsStore, HashStore!StoreSpec

-------------------------------------------------------------------------------
(* A level's list is a queue *)

\* Orders are in the order of their stamps.
Earlier == {stamps \in Nat \X Nat : stamps[1] < stamps[2]}

LEMMA EarlierOrders ==
  ASSUME NEW S \in SUBSET Nat
  PROVE  IsOrder(Earlier, S)
BY DEF IsOrder, Earlier

Resting(q) == {node[c].arrival : c \in Members(q)}

\* From the head, link by link; with Null past the end.
WalkKey(q) ==
  CHOOSE key : key = [n \in 1 .. Cardinality(Cells) |->
                        IF n = 1 THEN list[q].head
                        ELSE IF key[n-1] # Null /\ Live(key[n-1]) THEN node[key[n-1].cell].next
                        ELSE Null]

Visited(q) == {n \in 1 .. Cardinality(Cells) : WalkKey(q)[n] # Null}

LEMMA WalkIsWalk ==
  ASSUME NEW q \in Queues
  PROVE  Walk(q) = [n \in 1 .. Cardinality(Visited(q)) |-> WalkKey(q)[n]]
BY DEF Walk, WalkKey, Visited

LEMMA WalkKeySteps ==
  ASSUME QueueTypeOK, NEW q \in Queues
  PROVE  /\ Cardinality(Cells) \in Nat
         /\ DOMAIN WalkKey(q) = 1 .. Cardinality(Cells)
         /\ 1 <= Cardinality(Cells) => WalkKey(q)[1] = list[q].head
         /\ \A i \in 1 .. Cardinality(Cells) - 1 :
              WalkKey(q)[i+1] = IF WalkKey(q)[i] # Null /\ Live(WalkKey(q)[i])
                                THEN node[WalkKey(q)[i].cell].next ELSE Null
<1> DEFINE n == Cardinality(Cells)
           V == Keys \union {Null}
           onwards == [k \in V |-> IF k # Null /\ Live(k) THEN node[k.cell].next ELSE Null]
           step == [i \in 1 .. n |-> onwards]
           Steps(key) == key = [i \in 1 .. n |->
                                  IF i = 1 THEN list[q].head
                                  ELSE IF key[i-1] # Null /\ Live(key[i-1])
                                       THEN node[key[i-1].cell].next
                                  ELSE Null]
<1>1. n \in Nat
  BY QueueAssumption, FS_CardinalityType
<1>2. list[q].head \in V
  BY DEF QueueTypeOK, Lists
<1>3. \A k \in V : onwards[k] \in V
  <2> SUFFICES ASSUME NEW k \in V, k # Null, Live(k) PROVE node[k.cell].next \in V
    BY DEF V
  <2>1. k \in Keys /\ k.cell \in Cells /\ node[k.cell] # Null
    BY LiveFacts
  <2>2. node[k.cell] \in Nodes
    BY <2>1 DEF QueueTypeOK
  <2> QED
    BY <2>2, NodeParts
<1>4. onwards \in [V -> V]
  BY <1>3
<1> HIDE DEF onwards, V
<1>5. IsStepwise(n, V, list[q].head, step)
  BY <1>1, <1>2, <1>4 DEF IsStepwise
<1>6. \E key : Steps(key)
  <2>1. PICK g \in Recursions(n, V, list[q].head, step) : TRUE
    <3> HIDE DEF n, step
    <3> QED
      BY <1>5, RecursionExists
  <2>2. /\ g \in [0 .. n -> V] /\ g[0] = list[q].head
        /\ \A i \in 1 .. n : g[i] = onwards[g[i-1]]
    <3> HIDE DEF n
    <3> QED
      BY <2>1 DEF Recursions
  <2> DEFINE key == [i \in 1 .. n |-> g[i-1]]
  <2>3. ASSUME NEW i \in 1 .. n
        PROVE  key[i] = IF i = 1 THEN list[q].head
                        ELSE IF key[i-1] # Null /\ Live(key[i-1]) THEN node[key[i-1].cell].next
                        ELSE Null
    <3>1. CASE i = 1
      BY <3>1, <2>2
    <3>2. CASE i # 1
      <4>1. /\ i - 1 \in 1 .. n /\ (i - 1) - 1 \in 0 .. n
        BY <3>2, <1>1
      <4>2. key[i] = onwards[g[(i-1)-1]] /\ key[i-1] = g[(i-1)-1] /\ g[(i-1)-1] \in V
        BY <4>1, <2>2
      <4> QED
        BY <3>2, <4>2 DEF onwards
    <3> QED
      BY <3>1, <3>2
  <2>4. Steps(key)
    BY <2>3
  <2> QED
    BY <2>4
<1>7. Steps(WalkKey(q))
  <2> HIDE DEF Steps
  <2>1. WalkKey(q) = CHOOSE key : Steps(key)
    BY DEF WalkKey, Steps
  <2> QED
    BY <1>6, <2>1
<1> DEFINE key == WalkKey(q)
<1>8. key = [i \in 1 .. n |-> IF i = 1 THEN list[q].head
                             ELSE IF key[i-1] # Null /\ Live(key[i-1]) THEN node[key[i-1].cell].next
                             ELSE Null]
  BY <1>7
<1> HIDE DEF key, n
<1>9. DOMAIN key = 1 .. n
  BY <1>8
<1>10. \A i \in 1 .. n : key[i] = IF i = 1 THEN list[q].head
                             ELSE IF key[i-1] # Null /\ Live(key[i-1]) THEN node[key[i-1].cell].next
                             ELSE Null
  BY <1>8
<1>11. 1 <= n => key[1] = list[q].head
  BY <1>1, <1>10
<1>12. ASSUME NEW i \in 1 .. n - 1
       PROVE  key[i+1] = IF key[i] # Null /\ Live(key[i]) THEN node[key[i].cell].next ELSE Null
  <2>1. i + 1 \in 1 .. n /\ i + 1 # 1 /\ (i + 1) - 1 = i
    BY <1>1
  <2> QED
    BY <2>1, <1>10
<1> QED
  BY <1>1, <1>9, <1>11, <1>12 DEF key, n

\* The walk visits the orders of the level, all of them, in order of arrival.
LEMMA WalkInOrder ==
  ASSUME QueueInv, NEW q \in Queues
  PROVE  InOrder(Stamps(Walk(q)), Resting(q), Earlier)
<1> DEFINE n == Cardinality(Cells)
           key == WalkKey(q)
           k == Cardinality(Visited(q))
<1>1. QueueTypeOK /\ LinkedAt(q) /\ DistinctStamps
  BY LinksPointwise, IndexTellsApart DEF QueueInv, Linked
<1>2. /\ n \in Nat
      /\ 1 <= n => key[1] = list[q].head
      /\ \A i \in 1 .. n - 1 :
           key[i+1] = IF key[i] # Null /\ Live(key[i]) THEN node[key[i].cell].next ELSE Null
  BY <1>1, WalkKeySteps
<1>3. ASSUME NEW c \in Members(q)
      PROVE  /\ c \in Cells /\ node[c] # Null /\ node[c].arrival \in Nat
             /\ KeyOf(c) \in Keys /\ KeyOf(c) # Null /\ KeyOf(c).cell = c /\ Live(KeyOf(c))
  <2>1. c \in Cells /\ node[c] # Null /\ node[c] \in Nodes
    BY <1>1 DEF Members, QueueTypeOK
  <2>2. node[c].arrival \in Arrivals
    BY <2>1, NodeParts
  <2>3. Arrivals \subseteq Nat
    BY QueueAssumption DEF Arrivals
  <2> QED
    BY <2>1, <2>2, <2>3, <1>1, KeyFacts, LiveFacts
<1>4. /\ \A c, d \in Members(q) : Before(c, d) => ~Before(d, c)
      /\ \A c, d \in Members(q) : c = d \/ Before(c, d) \/ Before(d, c)
      /\ \A c, d, e \in Members(q) : Before(c, d) /\ Before(d, e) => Before(c, e)
  BY <1>1, ArrivalOrders
<1>5. \A c \in Members(q) :
        \/ node[c].next = Null /\ \A d \in Members(q) : ~Before(c, d)
        \/ \E d \in Members(q) :
             /\ node[c].next = KeyOf(d) /\ Before(c, d)
             /\ \A e \in Members(q) : Before(c, e) => e = d \/ Before(d, e)
  BY <1>1 DEF LinkedAt, NextOK
<1> HIDE DEF n, key, k
<1>6. \A i \in 1 .. n : key[i] = Null \/ \E c \in Members(q) : key[i] = KeyOf(c)
  <2> DEFINE G == {i \in 0 .. n - 1 : key[i+1] = Null \/ \E c \in Members(q) : key[i+1] = KeyOf(c)}
  <2>1. CASE n = 0
    BY <2>1
  <2>2. CASE n # 0
    <3>1. 0 \in G
      <4>1. list[q].head = Null \/ \E c \in Members(q) : list[q].head = KeyOf(c)
        BY <1>1 DEF LinkedAt, HeadOK
      <4> QED
        BY <4>1, <2>2, <1>2
    <3>2. ASSUME NEW i \in 0 .. (n - 1) - 1, i \in G PROVE i + 1 \in G
      <4>1. i + 1 \in 1 .. n - 1 /\ i + 1 \in 0 .. n - 1
        BY <1>2
      <4>2. CASE key[i+1] = Null
        BY <4>1, <4>2, <1>2
      <4>3. CASE key[i+1] # Null
        <5>1. PICK c \in Members(q) : key[i+1] = KeyOf(c)
          BY <3>2, <4>3
        <5>2. key[(i+1)+1] = node[c].next
          BY <4>1, <5>1, <1>2, <1>3
        <5> QED
          BY <4>1, <5>2, <1>5
      <4> QED
        BY <4>2, <4>3
    <3>3. n - 1 \in Nat
      BY <2>2, <1>2
    <3>4. \A i \in 0 .. n - 1 : i \in G
      <4> HIDE DEF G
      <4> QED
        BY <3>1, <3>2, <3>3, UpTo
    <3> SUFFICES ASSUME NEW i \in 1 .. n
                 PROVE  key[i] = Null \/ \E c \in Members(q) : key[i] = KeyOf(c)
      OBVIOUS
    <3> DEFINE j == i - 1
    <3>5. j \in 0 .. n - 1 /\ j + 1 = i
      BY <1>2
    <3> HIDE DEF j
    <3>6. key[j+1] = Null \/ \E c \in Members(q) : key[j+1] = KeyOf(c)
      BY <3>4, <3>5
    <3> QED
      BY <3>5, <3>6
  <2> QED
    BY <2>1, <2>2
<1>7. Visited(q) = {i \in 1 .. n : key[i] # Null}
  BY DEF Visited, n, key
<1>8. k \in 0 .. n /\ Visited(q) = 1 .. k
  <2>1. ASSUME NEW i \in Visited(q) PROVE i = 1 \/ i - 1 \in Visited(q)
    <3> SUFFICES ASSUME i # 1, i - 1 \notin Visited(q) PROVE FALSE
      OBVIOUS
    <3> DEFINE j == i - 1
    <3>1. j \in 1 .. n - 1 /\ j \in 1 .. n /\ j + 1 = i /\ key[i] # Null
      BY <1>2, <1>7
    <3>2. j \notin Visited(q)
      OBVIOUS
    <3> HIDE DEF j
    <3>3. key[j] = Null
      BY <1>7, <3>1, <3>2
    <3>4. key[j+1] = Null
      BY <1>2, <3>1, <3>3
    <3> QED
      BY <3>1, <3>4
  <2>2. Visited(q) \in SUBSET (1 .. n)
    BY <1>7
  <2> QED
    BY <1>2, <2>1, <2>2, InitialSegment DEF k
<1>9. k \in Nat /\ n \in Nat /\ k <= n /\ \A i \in 1 .. k : i \in 1 .. n /\ key[i] # Null
  BY <1>2, <1>7, <1>8
<1> DEFINE cell == [i \in 1 .. k |-> key[i].cell]
           s == [i \in 1 .. k |-> node[cell[i]].arrival]
<1>10. \A i \in 1 .. k : cell[i] \in Members(q) /\ key[i] = KeyOf(cell[i])
  BY <1>3, <1>6, <1>9
<1>11. Stamps(Walk(q)) = s
  BY WalkIsWalk DEF Stamps, k, key
<1>12. \A i \in 1 .. k : s[i] = node[cell[i]].arrival /\ s[i] \in Nat
  BY <1>3, <1>10
<1>13. cell \in [1 .. k -> Cells] /\ s \in [1 .. k -> Nat]
  BY <1>3, <1>10
<1> HIDE DEF cell, s
<1>14. \A i \in 1 .. n - 1 : i \in 1 .. k => key[i+1] = node[cell[i]].next
  BY <1>2, <1>3, <1>10
<1>15. ASSUME NEW i \in 1 .. k - 1
       PROVE  /\ Before(cell[i], cell[i+1])
              /\ \A e \in Members(q) : Before(cell[i], e) => e = cell[i+1] \/ Before(cell[i+1], e)
  <2>1. i \in 1 .. k /\ i + 1 \in 1 .. k /\ i \in 1 .. n - 1
    BY <1>8, <1>9
  <2>2. key[i+1] = node[cell[i]].next /\ key[i+1] = KeyOf(cell[i+1]) /\ key[i+1] # Null
    BY <1>9, <1>10, <1>14, <2>1
  <2>3. PICK d \in Members(q) :
          /\ node[cell[i]].next = KeyOf(d) /\ Before(cell[i], d)
          /\ \A e \in Members(q) : Before(cell[i], e) => e = d \/ Before(d, e)
    BY <1>5, <1>10, <2>1, <2>2
  <2>4. d = cell[i+1]
    BY <1>3, <1>10, <2>1, <2>2, <2>3
  <2> QED
    BY <2>3, <2>4
<1>16. \A i, j \in 1 .. k : i < j => s[i] < s[j]
  <2>1. ASSUME NEW i \in 1 .. k - 1 PROVE s[i] < s[i+1]
    <3>1. i \in 1 .. k /\ i + 1 \in 1 .. k
      BY <1>9
    <3> QED
      BY <1>12, <1>15, <3>1 DEF Before
  <2>2. \A i \in 1 .. k : s[i] \in Int
    BY <1>12
  <2> QED
    BY <1>9, <2>1, <2>2, Ascending
<1>17. ASSUME 1 <= k
       PROVE  \A c \in Members(q) : c = cell[1] \/ Before(cell[1], c)
  <2>1. key[1] = list[q].head /\ key[1] # Null /\ key[1] = KeyOf(cell[1]) /\ cell[1] \in Members(q)
    BY <1>2, <1>9, <1>10, <1>17
  <2>2. PICK c \in Members(q) : /\ list[q].head = KeyOf(c)
                                /\ \A d \in Members(q) : d = c \/ Before(c, d)
    BY <1>1, <2>1 DEF LinkedAt, HeadOK
  <2>3. c = cell[1]
    BY <1>3, <2>1, <2>2
  <2> QED
    BY <2>2, <2>3
<1>18. \A i \in 1 .. k : \A c \in Members(q) :
         ~Before(cell[i], c) => \E j \in 1 .. k : c = cell[j]
  <2> DEFINE Found(i) == \A c \in Members(q) : ~Before(cell[i], c) => \E j \in 1 .. k : c = cell[j]
             G == {i \in 0 .. k - 1 : Found(i + 1)}
  <2>1. CASE k = 0
    BY <2>1
  <2>2. CASE k # 0
    <3>1. 0 \in G /\ k - 1 \in Nat
      BY <2>2, <1>9, <1>17
    <3>2. ASSUME NEW i \in 0 .. (k - 1) - 1, i \in G PROVE i + 1 \in G
      <4>1. i + 1 \in 1 .. k - 1 /\ i + 1 \in 0 .. k - 1 /\ (i + 1) + 1 \in 1 .. k
        BY <1>9
      <4>2. ASSUME NEW c \in Members(q), ~Before(cell[(i+1)+1], c)
            PROVE  \E j \in 1 .. k : c = cell[j]
        <5>1. CASE Before(cell[i+1], c)
          BY <4>1, <4>2, <5>1, <1>15
        <5>2. CASE ~Before(cell[i+1], c)
          BY <3>2, <5>2
        <5> QED
          BY <5>1, <5>2
      <4> QED
        BY <4>1, <4>2
    <3>3. \A i \in 0 .. k - 1 : i \in G
      <4> HIDE DEF G
      <4> QED
        BY <3>1, <3>2, UpTo
    <3> SUFFICES ASSUME NEW i \in 1 .. k PROVE Found(i)
      OBVIOUS
    <3> DEFINE j == i - 1
    <3>4. j \in 0 .. k - 1 /\ j + 1 = i
      BY <1>9
    <3> HIDE DEF j, Found
    <3>5. Found(j + 1)
      BY <3>3, <3>4
    <3> QED
      BY <3>4, <3>5
  <2> QED
    BY <2>1, <2>2
<1>19. ASSUME NEW c \in Members(q) PROVE \E j \in 1 .. k : c = cell[j]
  <2>1. 1 <= n
    <3>1. Cells # {}
      BY <1>3
    <3>2. n # 0
      BY <3>1, QueueAssumption, FS_EmptySet DEF n
    <3> QED
      BY <3>2, <1>2
  <2>2. 1 <= k
    <3>1. key[1] # Null
      BY <1>1, <1>2, <1>3, <2>1 DEF LinkedAt, HeadOK
    <3>2. 1 \in Visited(q)
      BY <1>2, <1>7, <2>1, <3>1
    <3> QED
      BY <1>8, <3>2
  <2>3. k \in 1 .. k
    BY <1>9, <2>2
  <2>4. CASE k < n
    <3>1. k \in 1 .. n - 1 /\ k + 1 \in 1 .. n /\ k + 1 \notin 1 .. k
      BY <1>2, <1>9, <2>2, <2>4
    <3>2. key[k+1] = Null
      BY <1>7, <1>8, <3>1
    <3>3. node[cell[k]].next = Null
      BY <1>14, <2>3, <3>1, <3>2
    <3>4. ~Before(cell[k], c)
      BY <1>3, <1>5, <1>10, <2>3, <3>3
    <3> QED
      BY <1>18, <2>3, <3>4
  <2>5. CASE k = n
    <3>1. ASSUME NEW i \in 1 .. k, NEW j \in 1 .. k, cell[i] = cell[j] PROVE i = j
      <4>1. s[i] = s[j] /\ s[i] \in Nat /\ s[j] \in Nat
        BY <1>12, <3>1
      <4>2. ~(i < j) /\ ~(j < i)
        BY <1>16, <4>1
      <4> QED
        BY <4>2
    <3>2. cell \in Injection(1 .. k, Cells)
      BY <1>13, <3>1 DEF Injection, IsInjective
    <3>3. Cardinality(1 .. k) = Cardinality(Cells)
      BY <1>9, <2>5, FS_Interval DEF n
    <3>4. cell \in Surjection(1 .. k, Cells)
      BY <3>2, <3>3, QueueAssumption, FS_Injection
    <3> QED
      BY <1>3, <3>4 DEF Surjection
  <2> QED
    BY <1>2, <1>8, <2>4, <2>5
<1>20. Resting(q) = {s[i] : i \in 1 .. k}
  <2>1. ASSUME NEW i \in 1 .. k PROVE s[i] \in Resting(q)
    BY <1>10, <1>12 DEF Resting
  <2>2. ASSUME NEW a \in Resting(q) PROVE a \in {s[i] : i \in 1 .. k}
    <3>1. PICK c \in Members(q) : a = node[c].arrival
      BY <2>2 DEF Resting
    <3>2. PICK i \in 1 .. k : c = cell[i]
      BY <1>19
    <3> QED
      BY <3>1, <3>2, <1>12
  <2> QED
    BY <2>1, <2>2
<1>21. s \in Seq(Resting(q)) /\ Len(s) = k
  BY <1>9, <1>13, <1>20
<1>22. \A i, j \in 1 .. k : i < j => <<s[i], s[j]>> \in Earlier
  BY <1>12, <1>16 DEF Earlier
<1> QED
  BY <1>11, <1>20, <1>21, <1>22 DEF InOrder

LEMMA RestingIsOrdered ==
  ASSUME QueueTypeOK, NEW q \in Queues
  PROVE  Resting(q) \in SUBSET Nat /\ IsOrder(Earlier, Resting(q))
<1>1. \A c \in Members(q) : node[c].arrival \in Nat
  BY NodeParts DEF Members, QueueTypeOK, Arrivals
<1>2. Resting(q) \in SUBSET Nat
  BY <1>1 DEF Resting
<1> QED
  BY <1>2, EarlierOrders

\* The same, of the next state.
LEMMA RestingIsOrderedNext ==
  QueueTypeOK' => \A q \in Queues : IsOrder(Earlier, Resting(q)')
<1> DEFINE AllOrdered == \A q \in Queues : IsOrder(Earlier, Resting(q))
<1>1. QueueTypeOK => AllOrdered
  BY RestingIsOrdered
<1> HIDE DEF AllOrdered
<1>2. QueueTypeOK' => AllOrdered'
  BY <1>1, PTL
<1> QED
  BY <1>2 DEF AllOrdered

QueuesInOrder == \A q \in Queues : InOrder(Stamps(Walk(q)), Resting(q), Earlier)

\* The same, of the next state.
LEMMA WalkInOrderNext ==
  QueueInv' => \A q \in Queues : InOrder(Stamps(Walk(q))', Resting(q)', Earlier)
<1>1. QueueInv => QueuesInOrder
  BY WalkInOrder DEF QueuesInOrder
<1>2. QueueInv' => QueuesInOrder'
  BY <1>1, PTL
<1> QED
  BY <1>2 DEF QueuesInOrder

\* Where nobody joins and nobody leaves, the list reads as before.
LEMMA ListStays ==
  ASSUME QueueInv, QueueInv', NEW q \in Queues, Resting(q)' = Resting(q)
  PROVE  Stamps(Walk(q))' = Stamps(Walk(q))
BY WalkInOrder, WalkInOrderNext, RestingIsOrdered, OneOrder DEF QueueInv

\* push_back is a Join.
LEMMA RestJoins ==
  ASSUME QueueInv, QueueInv', NEW q \in Queues, NEW client \in Clients, Rest(q, client)
  PROVE  F!Join(q)
<1>1. /\ QueueTypeOK /\ Stamped /\ nextArrival < MaxArrival /\ nextArrival' = nextArrival + 1
      /\ nextArrival \in Arrivals /\ nextArrival \in Nat
      /\ \A r \in Queues : TailOK(r)
  BY QueueAssumption, LinksPointwise DEF Rest, QueueInv, QueueTypeOK, Arrivals, Linked, LinkedAt
<1>2. PICK cell \in Cells : PushBack(q, cell, client)
  BY DEF Rest
<1>3. /\ node[cell] = Null /\ node'[cell] # Null
      /\ node'[cell].arrival = nextArrival /\ node'[cell].queue = q
      /\ \A c \in Cells :
           c # cell =>
             /\ node'[c] = Null <=> node[c] = Null
             /\ node[c] # Null => /\ node'[c].arrival = node[c].arrival
                                  /\ node'[c].queue = node[c].queue
  BY <1>1, <1>2, PushBackEffect, NodeParts
<1>4. \A r \in Queues, c \in Cells : c \in Members(r)' <=> c \in Members(r) \/ (r = q /\ c = cell)
  BY <1>3 DEF Members
<1>5. \A r \in Queues : Members(r)' \subseteq Cells /\ Members(r) \subseteq Cells
  BY DEF Members
<1>6. \A r \in Queues : \A c \in Members(r) : c # cell /\ node'[c].arrival = node[c].arrival
  BY <1>3 DEF Members
<1>7. ASSUME NEW r \in Queues, r # q PROVE Resting(r)' = Resting(r)
  <2>1. Members(r)' = Members(r)
    BY <1>4, <1>5, <1>7
  <2> QED
    BY <1>6, <2>1 DEF Resting
<1>8. Resting(q)' = Resting(q) \union {nextArrival}
  <2>1. Members(q)' = Members(q) \union {cell}
    BY <1>4, <1>5
  <2> QED
    BY <1>3, <1>6, <2>1 DEF Resting
<1>9. \A a \in Resting(q) : <<a, nextArrival>> \in Earlier
  <2>1. \A a \in Resting(q) : a < nextArrival
    BY <1>1 DEF Resting, Members, Stamped
  <2> QED
    BY <1>1, <2>1, RestingIsOrdered DEF Earlier
<1>10. InOrder(Append(Stamps(Walk(q)), nextArrival), Resting(q)', Earlier)
  BY <1>1, <1>8, <1>9, WalkInOrder, JoinsInOrder
<1>11. Stamps(Walk(q))' = Append(Stamps(Walk(q)), nextArrival)
  BY <1>10, WalkInOrderNext, RestingIsOrderedNext, OneOrder DEF QueueInv
<1>12. \A r \in Queues : r # q => Stamps(Walk(r))' = Stamps(Walk(r))
  BY <1>7, ListStays
<1>13. [r \in Queues |-> Stamps(Walk(r))']
         = [[r \in Queues |-> Stamps(Walk(r))] EXCEPT ![q] = Append(@, nextArrival)]
  BY <1>11, <1>12
<1> QED
  BY <1>1, <1>13 DEF F!Join

\* remove_key of a live key is a Leave.
LEMMA RemovalLeaves ==
  ASSUME QueueInv, QueueInv', NEW key \in Keys, Live(key),
         NEW q \in Queues, node[key.cell].queue = q, RemoveKey(q, key),
         nextArrival' = nextArrival
  PROVE  F!Leave(q)
<1> DEFINE x == key.cell
           s == Stamps(Walk(q))
<1>1. /\ x \in Cells /\ node[x] # Null
      /\ \A c \in Cells : c # x /\ node[c] # Null => node'[c].arrival = node[c].arrival
      /\ \A r \in Queues, c \in Cells : c \in Members(r)' <=> c \in Members(r) /\ c # x
  BY Departure
<1>2. x \in Members(q) /\ \A r \in Queues : r # q => x \notin Members(r)
  BY <1>1 DEF Members
<1>3. DistinctStamps
  BY IndexTellsApart DEF QueueInv
<1>4. \A r \in Queues : \A c \in Members(r) : c \in Cells /\ node[c] # Null
  BY DEF Members
<1>5. \A r \in Queues : Members(r)' = Members(r) \ {x}
  BY <1>1 DEF Members
<1> HIDE DEF x
<1>6. ASSUME NEW r \in Queues, r # q PROVE Resting(r)' = Resting(r)
  <2>1. Members(r)' = Members(r) /\ \A c \in Members(r) : node'[c].arrival = node[c].arrival
    BY <1>1, <1>2, <1>4, <1>5, <1>6
  <2> QED
    BY <2>1 DEF Resting
<1>7. Resting(q)' = Resting(q) \ {node[x].arrival}
  <2>1. \A c \in Members(q) : c # x => /\ node'[c].arrival = node[c].arrival
                                       /\ node[c].arrival # node[x].arrival
    BY <1>1, <1>3, <1>4 DEF DistinctStamps
  <2> QED
    BY <1>5, <2>1 DEF Resting
<1> HIDE DEF s
<1>8. InOrder(s, Resting(q), Earlier)
  BY WalkInOrder DEF s
<1>9. PICK i \in 1 .. Len(s) : s[i] = node[x].arrival
  <2>1. node[x].arrival \in Resting(q)
    BY <1>2 DEF Resting
  <2> QED
    BY <1>8, <2>1 DEF InOrder
<1>10. InOrder(RemoveAt(s, i), Resting(q)', Earlier)
  BY <1>7, <1>8, <1>9, RestingIsOrdered, LeavesInOrder DEF QueueInv
<1>11. Stamps(Walk(q))' = RemoveAt(s, i)
  BY <1>10, WalkInOrderNext, RestingIsOrderedNext, OneOrder DEF QueueInv
<1>12. \A r \in Queues : r # q => Stamps(Walk(r))' = Stamps(Walk(r))
  BY <1>6, ListStays
<1>13. [r \in Queues |-> Stamps(Walk(r))']
         = [[r \in Queues |-> Stamps(Walk(r))] EXCEPT ![q] = RemoveAt(@, i)]
  BY <1>11, <1>12 DEF s
<1>14. i \in DOMAIN Stamps(Walk(q))
  BY <1>8 DEF InOrder, s
<1> QED
  BY <1>13, <1>14 DEF F!Leave, F!RemoveAt, RemoveAt

\* With the nodes as they were the queues are as they were.
LEMMA QueuesStay ==
  ASSUME QueueInv, QueueInv', node' = node
  PROVE  [q \in Queues |-> Stamps(Walk(q))]' = [q \in Queues |-> Stamps(Walk(q))]
<1>1. \A q \in Queues : Resting(q)' = Resting(q)
  BY DEF Resting, Members
<1>2. \A q \in Queues : Stamps(Walk(q))' = Stamps(Walk(q))
  BY <1>1, ListStays
<1> QED
  BY <1>2

LEMMA QueueStepIsFifoStep ==
  ASSUME QueueInv, QueueInv', [QueueNext]_queueVars
  PROVE  [F!FifoNext]_<<[q \in Queues |-> Stamps(Walk(q))], nextArrival>>
<1> DEFINE queues == [q \in Queues |-> Stamps(Walk(q))]
<1> SUFFICES F!FifoNext \/ (queues' = queues /\ nextArrival' = nextArrival)
  OBVIOUS
<1>1. node' = node => queues' = queues
  BY QueuesStay
<1> HIDE DEF queues
<1>2. ASSUME NEW q \in Queues, NEW client \in Clients, Rest(q, client) PROVE F!FifoNext
  BY <1>2, RestJoins DEF F!FifoNext
<1>3. ASSUME NEW key \in Keys, NEW q \in Queues, Live(key) => node[key.cell].queue = q,
             RemoveKey(q, key), nextArrival' = nextArrival
      PROVE  F!FifoNext \/ (queues' = queues /\ nextArrival' = nextArrival)
  <2>1. CASE Live(key)
    <3>1. F!Leave(q)
      BY <1>3, <2>1, RemovalLeaves
    <3> QED
      BY <3>1 DEF F!FifoNext
  <2>2. CASE ~Live(key)
    <3>1. node' = node
      BY <1>3, <2>2 DEF RemoveKey, arenaVars
    <3> QED
      BY <1>1, <1>3, <3>1
  <2> QED
    BY <2>1, <2>2
<1>4. ASSUME NEW order \in Arrivals, Cancel(order)
      PROVE  F!FifoNext \/ (queues' = queues /\ nextArrival' = nextArrival)
  <2>1. /\ index[order] # Null /\ RemoveKey(index[order].queue, index[order].key)
        /\ nextArrival' = nextArrival /\ pc = "idle"
    BY <1>4 DEF Cancel
  <2>2. index[order].queue \in Queues /\ index[order].key \in Keys
    BY <2>1 DEF QueueInv, QueueTypeOK, Entries
  <2>3. node[index[order].key.cell].queue = index[order].queue
    BY <2>1 DEF QueueInv, SweepState, IndexLive
  <2> QED
    BY <1>3, <2>1, <2>2, <2>3
<1>5. CASE Purge
  <2>1. pc = "purge" /\ cursor # Null /\ nextArrival' = nextArrival
    BY <1>5 DEF Purge
  <2>2. cursor \in Keys /\ node[cursor.cell].queue = at /\ at \in Queues
    BY <2>1 DEF QueueInv, QueueTypeOK, SweepState
  <2>3. CASE node[cursor.cell].client = taker
    <3>1. RemoveKey(at, cursor)
      BY <1>5, <2>3 DEF Purge
    <3> QED
      BY <1>3, <2>1, <2>2, <3>1
  <2>4. CASE node[cursor.cell].client # taker
    BY <1>1, <1>5, <2>1, <2>4 DEF Purge, arenaVars
  <2> QED
    BY <2>3, <2>4
<1>6. CASE ExhaustMaker
  <2>1. /\ pc = "fill" /\ makers # <<>> /\ Live(Head(makers)) /\ RemoveKey(at, Head(makers))
        /\ nextArrival' = nextArrival
    BY <1>6 DEF ExhaustMaker
  <2>2. /\ makers \in Seq(Keys) /\ at \in Queues
    BY <2>1 DEF QueueInv, QueueTypeOK, SweepState
  <2>3. Len(makers) \in Nat /\ 1 \in 1 .. Len(makers) /\ Head(makers) = makers[1] /\ makers[1] \in Keys
    BY <2>1, <2>2
  <2>4. node[makers[1].cell].queue = at
    BY <2>1, <2>3 DEF QueueInv, ProjectionLive
  <2> QED
    BY <1>3, <2>1, <2>2, <2>3, <2>4
<1>7. CASE \E q \in Queues, client \in Clients : BeginSweep(q, client)
  BY <1>1, <1>7 DEF BeginSweep, arenaVars
<1>8. CASE Unindex \/ Project \/ Allocate \/ SpareMaker \/ LeaveLevel
  BY <1>1, <1>8 DEF Unindex, Project, Allocate, SpareMaker, LeaveLevel, arenaVars
<1>9. CASE UNCHANGED queueVars
  BY <1>1, <1>9 DEF queueVars
<1> QED
  BY <1>2, <1>4, <1>5, <1>6, <1>7, <1>8, <1>9 DEF QueueNext, SweepStep

\* The doubly linked list over reused cells is a queue per level: push_back
\* joins the back, remove_key leaves from anywhere, and no other order loses
\* its place (order_queue.rs:37-78).
THEOREM ListIsQueue == QueueSpec => ImplementsFifo
<1>1. QueueInv /\ QueueInit => F!FifoInit
  <2> SUFFICES ASSUME QueueInv, QueueInit PROVE F!FifoInit
    OBVIOUS
  <2>1. ASSUME NEW q \in Queues PROVE Stamps(Walk(q)) = <<>>
    <3>1. Resting(q) = {}
      BY DEF Resting, Members, QueueInit
    <3>2. InOrder(<<>>, {}, Earlier) /\ IsOrder(Earlier, {})
      BY DEF InOrder, IsOrder
    <3> QED
      BY <3>1, <3>2, WalkInOrder, OneOrder
  <2> QED
    BY <2>1 DEF F!FifoInit, QueueInit
<1>2. QueueInv /\ QueueInv' /\ [QueueNext]_queueVars
        => [F!FifoNext]_<<[q \in Queues |-> Stamps(Walk(q))], nextArrival>>
  BY QueueStepIsFifoStep
<1> QED
  BY <1>1, <1>2, QueueInvariant, PTL DEF QueueSpec, ImplementsFifo, F!FifoSpec

-------------------------------------------------------------------------------
(* Levels in order *)

LEMMA PricesAreOrdered ==
  ASSUME NEW side \in Sides, NEW S \in SUBSET Prices
  PROVE  /\ IsOrder(BetterFirst(side), S) /\ IsFiniteSet(S)
         /\ \A p, q \in S : <<p, q>> \in BetterFirst(side) <=> Better(side, p, q)
<1>1. \A p, q \in S : <<p, q>> \in BetterFirst(side) <=> Better(side, p, q)
  BY DEF BetterFirst
<1>2. \A p \in S : p \in Nat
  BY PricesAssumption
<1>3. IsOrder(BetterFirst(side), S)
  BY <1>1, <1>2 DEF IsOrder, Better, Sides
<1> QED
  BY <1>1, <1>3, PricesAssumption, FS_Subset

LEMMA SlotsAreOrdered ==
  ASSUME NEW side \in Sides, NEW S \in SUBSET Slots
  PROVE  /\ IsOrder(AheadFirst(side), S) /\ IsFiniteSet(S)
         /\ \A m, n \in S : <<m, n>> \in AheadFirst(side) <=> Ahead(side, m, n)
<1>1. \A m, n \in S : <<m, n>> \in AheadFirst(side) <=> Ahead(side, m, n)
  BY DEF AheadFirst
<1>2. IsOrder(AheadFirst(side), S)
  BY <1>1, AheadOrders DEF IsOrder
<1> QED
  BY <1>1, <1>2, SlotsFinite, FS_Subset

\* The map's values, sorted, are its levels best first.
LEMMA HashLevelsInOrder ==
  ASSUME HashInv, NEW side \in Sides
  PROVE  InOrder(HashLevels(side), hashed[side], BetterFirst(side))
<1> DEFINE S == hashed[side]
           s == HashLevels(side)
           R == BetterFirst(side)
<1>1. S \in SUBSET Prices
  BY DEF HashInv
<1>2. IsRanked(s, S, R)
  BY DEF HashLevels, Ranked, IsRanked
<1> HIDE DEF S, s, R
<1>3. IsOrder(R, S) /\ IsFiniteSet(S)
  BY <1>1, PricesAreOrdered DEF R
<1>4. InOrder(s, S, R)
  BY <1>2, <1>3, RankedInOrder
<1> QED
  BY <1>4 DEF S, s, R

\* The occupied slots, scanned, are the ladder's levels best first.
LEMMA LadderLevelsInOrder ==
  ASSUME LadderInv, NEW side \in Sides
  PROVE  InOrder(LadderLevels(side), LadderActive[side], BetterFirst(side))
<1> DEFINE S == Occupied(side)
           s == Ranked(Occupied(side), AheadFirst(side))
           R == AheadFirst(side)
           t == LadderLevels(side)
           A == LadderActive[side]
<1>1. S \in SUBSET Slots /\ \A n \in S : ladder[side][n] # Null
  BY DEF Occupied
<1>2. IsRanked(s, S, R)
  BY DEF Ranked, IsRanked
<1>3. t = [i \in DOMAIN s |-> ladder[side][s[i]]]
  BY DEF LadderLevels
<1>4. A \in SUBSET Prices /\ A = {ladder[side][n] : n \in S}
  BY ActiveSlots DEF LadderActive
<1> HIDE DEF S, s, R, t, A
<1>5. IsOrder(R, S) /\ IsFiniteSet(S)
  BY <1>1, SlotsAreOrdered DEF R
<1>6. InOrder(s, S, R)
  BY <1>2, <1>5, RankedInOrder
<1>7. Len(s) \in Nat /\ DOMAIN s = 1 .. Len(s) /\ \A i \in 1 .. Len(s) : s[i] \in S
  BY <1>6, InOrderFacts DEF InOrder
<1>8. \A i \in 1 .. Len(s) : t[i] = ladder[side][s[i]] /\ t[i] \in A
  BY <1>3, <1>4, <1>7
<1>9. t \in Seq(A) /\ Len(t) = Len(s)
  BY <1>3, <1>7, <1>8
<1>10. ASSUME NEW i \in 1 .. Len(s), NEW j \in 1 .. Len(s), i < j
       PROVE  <<t[i], t[j]>> \in BetterFirst(side)
  <2>1. Ahead(side, s[i], s[j])
    <3>1. <<s[i], s[j]>> \in R
      BY <1>6, <1>10 DEF InOrder
    <3> QED
      BY <3>1 DEF R, AheadFirst
  <2>2. s[i] \in Slots /\ s[j] \in Slots /\ t[i] # Null /\ t[j] # Null
    BY <1>1, <1>7, <1>8
  <2>3. SlotOf(t[i]) = s[i] /\ SlotOf(t[j]) = s[j] /\ t[i] \in Prices /\ t[j] \in Prices
    BY <1>4, <1>8, <2>2 DEF LadderInv
  <2>4. Better(side, t[i], t[j])
    BY <2>1, <2>2, <2>3, SlotFacts, NullApart
  <2> QED
    BY <2>3, <2>4 DEF BetterFirst
<1>11. ASSUME NEW p \in A PROVE \E i \in 1 .. Len(s) : p = t[i]
  <2>1. PICK n \in S : p = ladder[side][n]
    BY <1>4
  <2>2. PICK i \in 1 .. Len(s) : n = s[i]
    BY <1>6 DEF InOrder
  <2> QED
    BY <1>8, <2>1, <2>2
<1>12. InOrder(t, A, BetterFirst(side))
  BY <1>9, <1>10, <1>11 DEF InOrder
<1> QED
  BY <1>12 DEF t, A

\* The ladder and the hash map show the same levels in the same order, and the
\* touch of either is the first of them (storage.rs:201-234, 265-277, 314-328,
\* 432-446).
THEOREM LayoutsAgree == BackendSpec => []StoresAgree
<1>1. BackendInv => StoresAgree
  <2> SUFFICES ASSUME BackendInv, NEW side \in Sides
               PROVE  /\ LadderLevels(side) = HashLevels(side)
                      /\ LadderTouch(side) = HashTouch(side)
                      /\ LadderTouch(side) = IF LadderLevels(side) = <<>> THEN Null
                                             ELSE LadderLevels(side)[1]
    BY DEF StoresAgree
  <2> DEFINE A == hashed[side]
             s == LadderLevels(side)
  <2>1. A \in SUBSET Prices /\ A = LadderActive[side] /\ LadderInv /\ HashInv
    BY DEF BackendInv, SameLevels, HashInv
  <2>2. InOrder(s, A, BetterFirst(side)) /\ InOrder(HashLevels(side), A, BetterFirst(side))
    BY <2>1, LadderLevelsInOrder, HashLevelsInOrder
  <2>3. IsOrder(BetterFirst(side), A)
    BY <2>1, PricesAreOrdered
  <2>4. s = HashLevels(side)
    <3> HIDE DEF A, s
    <3> QED
      BY <2>2, <2>3, OneOrder
  <2>5. /\ LadderTouch(side) = LadderStore!TouchOf(side, A)
        /\ HashTouch(side) = HashStore!TouchOf(side, A)
    BY <2>1, LadderTouchIsBest, HashTouchIsBest DEF LadderShowsBest, HashShowsBest
  <2>6. /\ LadderStore!TouchOf(side, A) =
             IF A = {} THEN Null ELSE CHOOSE p \in A : \A q \in A : q = p \/ Better(side, p, q)
        /\ HashStore!TouchOf(side, A) =
             IF A = {} THEN Null ELSE CHOOSE p \in A : \A q \in A : q = p \/ Better(side, p, q)
    BY DEF LadderStore!TouchOf, LadderStore!Better, HashStore!TouchOf, HashStore!Better, Better
  <2> HIDE DEF A, s
  <2>7. /\ Len(s) \in Nat /\ s \in Seq(A)
        /\ \A i \in 1 .. Len(s) : s[i] \in A
        /\ \A p \in A : \E i \in 1 .. Len(s) : p = s[i]
        /\ \A i, j \in 1 .. Len(s) : i < j => <<s[i], s[j]>> \in BetterFirst(side)
    BY <2>2, InOrderFacts DEF InOrder
  <2>8. CASE A = {}
    <3>1. Len(s) = 0
      BY <2>7, <2>8
    <3>2. s = <<>>
      BY <2>7, <3>1
    <3> QED
      BY <2>4, <2>5, <2>6, <2>8, <3>2 DEF s
  <2>9. CASE A # {}
    <3>1. 1 \in 1 .. Len(s) /\ s # <<>>
      BY <2>7, <2>9
    <3>2. s[1] \in A /\ \A q \in A : q = s[1] \/ Better(side, s[1], q)
      <4>1. ASSUME NEW q \in A PROVE q = s[1] \/ Better(side, s[1], q)
        <5>1. PICK i \in 1 .. Len(s) : q = s[i]
          BY <2>7
        <5>2. i = 1 \/ 1 < i
          OBVIOUS
        <5>3. 1 < i => <<s[1], s[i]>> \in BetterFirst(side)
          BY <2>7, <3>1
        <5> QED
          BY <5>1, <5>2, <5>3 DEF BetterFirst
      <4> QED
        BY <2>7, <3>1, <4>1
    <3>3. \A p \in A : (\A q \in A : q = p \/ Better(side, p, q)) => p = s[1]
      BY <2>1, <3>2, BestIsUnique DEF A
    <3>4. (CHOOSE p \in A : \A q \in A : q = p \/ Better(side, p, q)) = s[1]
      BY <3>2, <3>3
    <3>5. LadderTouch(side) = s[1] /\ HashTouch(side) = s[1]
      BY <2>5, <2>6, <2>9, <3>4
    <3> QED
      BY <2>4, <3>1, <3>5 DEF s
  <2> QED
    BY <2>8, <2>9
<1> QED
  BY <1>1, BackendInvariant, PTL
===============================================================================
