------------------------------ MODULE LedgerProofs ------------------------------
(***************************************************************************)
(* What a command tells its caller, and what it does with the quantities.  *)
(* A level offers what its orders have left, a dry run promises what the   *)
(* sweep then keeps, and no quantity is created or lost on the way of an   *)
(* order through the engine; the outcome, the last price, the lookups and  *)
(* the level snapshots agree with what happened; and under FIFO the oldest *)
(* order of a level trades first.  The proofs are about sums over the      *)
(* orders of the book; the lemmas on sums are those of DataProofs.         *)
(***************************************************************************)
EXTENDS MatchingProofs, Views

-------------------------------------------------------------------------------
(* An allocation, as quantities per order *)

LEMMA IdsAreFinite == IsFiniteSet(Ids)
<1>1. MaxSeq \in Nat /\ IsFiniteSet(CallerIds)
  BY OrderBookAssumption
<1>2. IsFiniteSet(1 .. MaxSeq)
  BY <1>1, FS_Interval
<1> QED
  BY <1>1, <1>2, FS_Union DEF Ids

\* What an allocation gives every order: something only to orders of other
\* clients at the level under sweep, none more than it has, and in total what
\* the taker gets.
LEMMA AllocateTotals ==
  ASSUME IInv, Allocate
  PROVE  \E given \in [Ids -> Nat] :
           /\ \A id \in Ids : given[id] # 0 =>
                /\ nodes[id] \in Orders
                /\ nodes[id].side = Opposite(taker.side)
                /\ nodes[id].type.price = level
                /\ nodes[id].client # taker.client
                /\ given[id] <= nodes[id].remaining
           /\ \A id \in Ids : given[id] = 0 => nodes'[id] = nodes[id]
           /\ \A id \in Ids : nodes[id] # Null =>
                nodes'[id] = [nodes[id] EXCEPT !.remaining = @ - given[id]]
           /\ taker' = [taker EXCEPT !.remaining = @ - SumFunctionOnSet(given, Ids)]
           /\ SumFunctionOnSet(given, Ids) \in 0 .. taker.remaining
           /\ filled' = {id \in Ids : given[id] > 0}
           /\ trades' = IF \A id \in Ids : given[id] = 0 THEN trades
                        ELSE Append(trades, [price |-> level, fills |-> given])
<1> DEFINE side == Opposite(taker.side)
           ids == queue[side][level]
           makers == MakersAt(side, level)
<1>1. TypeOK /\ RestingIsIndexed /\ InHand /\ AtLevel /\ pc = "stp"
  BY IInvParts DEF BookIndexed, Allocate
<1>2. taker \in Orders /\ side \in Sides /\ level \in Prices
  BY <1>1, HandAndLevel DEF Executing
<1>3. nodes \in [Ids -> Orders \union {Null}] /\ taker.remaining \in Nat
  BY <1>1, <1>2 DEF TypeOK, Orders
<1>4. ids \in Seq(Ids) /\ Len(ids) \in Nat /\ DOMAIN ids = 1 .. Len(ids)
  BY <1>1, <1>2, LenProperties DEF TypeOK
<1>5. \A i \in 1 .. Len(ids) :
        /\ ids[i] \in Ids /\ nodes[ids[i]] \in Orders /\ nodes[ids[i]].remaining \in Nat
        /\ nodes[ids[i]].side = side /\ nodes[ids[i]].type.price = level
  BY <1>2, QueuedOrder DEF Orders
<1>6. \A i, j \in 1 .. Len(ids) : ids[i] = ids[j] => i = j
  BY <1>1, <1>2 DEF RestingIsIndexed
<1>7. DOMAIN makers = 1 .. Len(ids) /\ \A i \in 1 .. Len(ids) : makers[i].remaining = nodes[ids[i]].remaining
  BY <1>4 DEF MakersAt
<1>8. \A i \in 1 .. Len(ids) : nodes[ids[i]].client # taker.client
  <2>1. OwnIds = {}
    BY DEF Allocate
  <2>2. \A i \in 1 .. Len(ids) : ids[i] \in ToSet(ids)
    BY <1>4 DEF ToSet
  <2> QED
    BY <2>1, <2>2 DEF OwnIds
<1> HIDE DEF makers
<1>9. PICK fills \in Allocations(taker.remaining, makers) :
        /\ filled' = {id \in Ids : ByOrder(fills, ids)[id] > 0}
        /\ nodes' = [id \in Ids |->
                       IF ByOrder(fills, ids)[id] > 0
                       THEN [nodes[id] EXCEPT !.remaining = @ - ByOrder(fills, ids)[id]]
                       ELSE nodes[id]]
        /\ taker' = [taker EXCEPT !.remaining = @ - Total(fills)]
        /\ trades' = IF \A id \in Ids : ByOrder(fills, ids)[id] = 0 THEN trades
                     ELSE Append(trades, [price |-> level, fills |-> ByOrder(fills, ids)])
  BY DEF Allocate, makers
<1> DEFINE given == ByOrder(fills, ids)
<1>10. /\ fills \in [1 .. Len(ids) -> 0 .. taker.remaining]
       /\ Total(fills) \in 0 .. taker.remaining
       /\ \A i \in 1 .. Len(ids) : fills[i] \in Nat /\ fills[i] <= nodes[ids[i]].remaining
  BY <1>3, <1>7 DEF Allocations, Contract
<1>11. \A id \in Ids :
        \/ given[id] = 0
        \/ \E i \in 1 .. Len(ids) : ids[i] = id /\ given[id] = fills[i]
  BY <1>4 DEF ByOrder
<1>12. \A i \in 1 .. Len(ids) : given[ids[i]] = fills[i]
  BY <1>4, <1>5, <1>6 DEF ByOrder
<1>13. given \in [Ids -> Nat]
  <2>1. given = [id \in Ids |-> given[id]]
    BY DEF ByOrder
  <2>2. \A id \in Ids : given[id] \in Nat
    BY <1>10, <1>11
  <2> HIDE DEF given
  <2> QED
    BY <2>1, <2>2
<1> HIDE DEF given, ids, side
<1>14. SumFunctionOnSet(given, Ids) = Total(fills)
  <2> DEFINE queued == {ids[i] : i \in 1 .. Len(ids)}
             name == [i \in 1 .. Len(ids) |-> ids[i]]
  <2>1. queued \in SUBSET Ids /\ IsFiniteSet(queued)
    BY <1>5, IdsAreFinite, FS_Subset
  <2>2. SumFunctionOnSet(given, Ids) = SumFunctionOnSet(given, queued)
    <3>1. \A id \in Ids \ queued : given[id] = 0
      BY <1>11
    <3>2. \A id \in Ids : given[id] \in Int
      BY <1>13
    <3> HIDE DEF queued
    <3> QED
      BY <2>1, <3>1, <3>2, IdsAreFinite, SumOfPart
  <2>3. SumFunctionOnSet(fills, 1 .. Len(ids)) = SumFunctionOnSet(given, queued)
    <3>1. name \in [1 .. Len(ids) -> queued] /\ \A id \in queued : \E i \in 1 .. Len(ids) : name[i] = id
      OBVIOUS
    <3>2. \A i, j \in 1 .. Len(ids) : name[i] = name[j] => i = j
      BY <1>6
    <3>3. \A i \in 1 .. Len(ids) : fills[i] = given[name[i]]
      BY <1>12
    <3>4. IsFiniteSet(1 .. Len(ids))
      BY <1>4, FS_Interval
    <3>5. \A id \in queued : given[id] \in Int
      BY <1>13, <2>1
    <3> HIDE DEF queued, name
    <3> QED
      BY <2>1, <3>1, <3>2, <3>3, <3>4, <3>5, SumRenamed
  <2>4. DOMAIN fills = 1 .. Len(ids)
    BY <1>10
  <2> QED
    BY <2>2, <2>3, <2>4 DEF Total, SumFunction
<1>15. \A id \in Ids : given[id] # 0 =>
         /\ nodes[id] \in Orders
         /\ nodes[id].side = side
         /\ nodes[id].type.price = level
         /\ nodes[id].client # taker.client
         /\ given[id] <= nodes[id].remaining
  BY <1>5, <1>8, <1>10, <1>11
<1>16. /\ \A id \in Ids : given[id] = 0 => nodes'[id] = nodes[id]
       /\ \A id \in Ids : given[id] # 0 => nodes'[id] = [nodes[id] EXCEPT !.remaining = @ - given[id]]
  BY <1>9, <1>13 DEF given
<1>17. ASSUME NEW id \in Ids, nodes[id] # Null
       PROVE  nodes'[id] = [nodes[id] EXCEPT !.remaining = @ - given[id]]
  <2>1. CASE given[id] = 0
    <3>1. nodes[id] \in Orders /\ nodes[id].remaining \in Nat
      BY <1>3, <1>17 DEF Orders
    <3>2. nodes[id] = [nodes[id] EXCEPT !.remaining = @ - 0]
      BY <3>1 DEF Orders
    <3> QED
      BY <2>1, <3>2, <1>16
  <2>2. CASE given[id] # 0
    BY <2>2, <1>16
  <2> QED
    BY <2>1, <2>2
<1>18. /\ taker' = [taker EXCEPT !.remaining = @ - SumFunctionOnSet(given, Ids)]
       /\ SumFunctionOnSet(given, Ids) \in 0 .. taker.remaining
  BY <1>9, <1>10, <1>14
<1>19. /\ filled' = {id \in Ids : given[id] > 0}
       /\ trades' = IF \A id \in Ids : given[id] = 0 THEN trades
                    ELSE Append(trades, [price |-> level, fills |-> given])
  BY <1>9 DEF given
<1> QED
  BY <1>13, <1>15, <1>16, <1>17, <1>18, <1>19 DEF side
-------------------------------------------------------------------------------
(* The dry run of a fill-or-kill *)

\* An order in the arena is in the queue of its side and price.
LEMMA RestingIsQueued ==
  ASSUME IInv, NEW id \in Ids, nodes[id] # Null
  PROVE  /\ nodes[id].side \in Sides /\ nodes[id].type.price \in Prices
         /\ index[id] = BookAddress(nodes[id].side, nodes[id].type.price)
         /\ \E i \in 1 .. Len(queue[nodes[id].side][nodes[id].type.price]) :
              queue[nodes[id].side][nodes[id].type.price][i] = id
<1>1. TypeOK /\ IndexedRests /\ NodesAreIndexed
  BY IInvParts DEF BookIndexed
<1>2. /\ index[id] # Null /\ index[id].kind = "book"
      /\ nodes[id].side = index[id].side
      /\ nodes[id].type.price = index[id].price
  BY <1>1 DEF NodesAreIndexed
<1>3. index[id] \in Addresses
  BY <1>1, <1>2 DEF TypeOK
<1> QED
  BY <1>1, <1>2, <1>3, AddressCases DEF IndexedRests

\* What `order' might trade with, order by order of the book.
Offer(order) ==
  [id \in Ids |-> IF /\ nodes[id] # Null
                     /\ nodes[id].side = Opposite(order.side)
                     /\ nodes[id].client # order.client
                     /\ Crosses(order, nodes[id].type.price)
                  THEN nodes[id].remaining
                  ELSE 0]

LEMMA LiquidityIsOffer ==
  ASSUME TypeOK, NEW order
  PROVE  /\ \A id \in Ids : Offer(order)[id] \in Nat
         /\ Liquidity(order) = SumFunctionOnSet(Offer(order), Ids)
<1> DEFINE tradable == {id \in Ids : /\ nodes[id] # Null
                                     /\ nodes[id].side = Opposite(order.side)
                                     /\ nodes[id].client # order.client
                                     /\ Crosses(order, nodes[id].type.price)}
           offered == [id \in tradable |-> nodes[id].remaining]
           all == Offer(order)
<1>1. \A id \in Ids : nodes[id] # Null => nodes[id].remaining \in Nat
  BY DEF TypeOK, Orders
<1>2. \A id \in Ids : all[id] \in Nat /\ all[id] \in Int
  BY <1>1 DEF Offer
<1>3. tradable \in SUBSET Ids /\ IsFiniteSet(tradable)
  BY IdsAreFinite, FS_Subset
<1>4. \A id \in tradable : offered[id] = all[id]
  BY DEF Offer
<1>5. \A id \in Ids \ tradable : all[id] = 0
  BY DEF Offer
<1>6. Liquidity(order) = SumFunctionOnSet(offered, tradable)
  BY DEF Liquidity, SumFunction
<1> HIDE DEF tradable, offered, all
<1>7. SumFunctionOnSet(offered, tradable) = SumFunctionOnSet(all, tradable)
  BY <1>2, <1>3, <1>4, SumSame
<1>8. SumFunctionOnSet(all, Ids) = SumFunctionOnSet(all, tradable)
  BY <1>2, <1>3, <1>5, IdsAreFinite, SumOfPart
<1> QED
  BY <1>2, <1>6, <1>7, <1>8 DEF all

\* The orders resting at one of some prices.
AtPrices(side, prices) ==
  {id \in Ids : nodes[id] # Null /\ nodes[id].side = side /\ nodes[id].type.price \in prices}

\* The counts of a dry run along the queue `ids', position by position.
DryRuns(order, ids, available) ==
  {after \in [0 .. Len(ids) -> Nat] :
     /\ after[0] = available
     /\ \A i \in 1 .. Len(ids) :
          after[i] = IF nodes[ids[i]].client = order.client \/ after[i-1] >= order.remaining
                     THEN after[i-1]
                     ELSE (after[i-1] + nodes[ids[i]].remaining) % QtyLimit}

LEMMA DryRunExists ==
  ASSUME IInv, NEW order \in Orders, NEW price \in Prices, NEW available \in Nat,
         NEW ids, ids = queue[Opposite(order.side)][price]
  PROVE  \E after \in DryRuns(order, ids, available) :
           DryRunLevel(order, price, available) = after[Len(ids)]
<1> DEFINE After(i, v) == IF nodes[ids[i]].client = order.client \/ v >= order.remaining
                         THEN v
                         ELSE (v + nodes[ids[i]].remaining) % QtyLimit
           Value(g, i) == IF i = 0 THEN available ELSE After(i, g[i-1])
           step == [i \in 1 .. Len(ids) |-> [v \in Nat |-> After(i, v)]]
           IsRun(g) == g = [i \in 0 .. Len(ids) |-> Value(g, i)]
           after == CHOOSE g : IsRun(g)
<1>1. Opposite(order.side) \in Sides
  BY OppositeSide DEF Orders
<1>2. /\ ids \in Seq(Ids) /\ Len(ids) \in Nat
      /\ \A i \in 1 .. Len(ids) : nodes[ids[i]].remaining \in Nat
  BY SMTT(30), <1>1, QueuedOrder, LenProperties, IInvParts DEF Orders, TypeOK
<1>3. \A i \in 1 .. Len(ids), v \in Nat : After(i, v) \in Nat
  BY <1>2, OrderBookAssumption
<1>4. DryRunLevel(order, price, available) = after[Len(ids)]
  BY DEF DryRunLevel
<1> HIDE DEF After
<1>5. step \in [1 .. Len(ids) -> [Nat -> Nat]]
  BY <1>3
<1>6. PICK g \in Recursions(Len(ids), Nat, available, step) : TRUE
  <2>1. IsStepwise(Len(ids), Nat, available, step)
    BY <1>2, <1>5 DEF IsStepwise
  <2> HIDE DEF step
  <2> QED
    BY <2>1, RecursionExists
<1>7. IsRun(g)
  <2>1. g \in [0 .. Len(ids) -> Nat] /\ g[0] = available
    BY <1>6 DEF Recursions
  <2>2. ASSUME NEW i \in 1 .. Len(ids) PROVE g[i] = After(i, g[i-1])
    <3>1. g[i] = step[i][g[i-1]]
      BY <1>6 DEF Recursions
    <3>2. i - 1 \in 0 .. Len(ids)
      BY <1>2
    <3>3. g[i-1] \in Nat
      BY <2>1, <3>2
    <3> QED
      BY <3>1, <3>3
  <2>3. \A i \in 0 .. Len(ids) : g[i] = Value(g, i)
    BY <1>2, <2>1, <2>2
  <2> HIDE DEF Value
  <2> QED
    BY <2>1, <2>3
<1>8. IsRun(after)
  <2> HIDE DEF IsRun
  <2> QED
    BY <1>7
<1>9. after[0] = available /\ \A i \in 1 .. Len(ids) : after[i] = After(i, after[i-1])
  <2> HIDE DEF after
  <2>1. \A i \in 0 .. Len(ids) : after[i] = Value(after, i)
    <3> HIDE DEF Value
    <3> QED
      BY <1>8
  <2> QED
    BY <1>2, <2>1
<1>10. \A i \in 0 .. Len(ids) : after[i] \in Nat
  <2> DEFINE G == {i \in 0 .. Len(ids) : after[i] \in Nat}
  <2> HIDE DEF after
  <2>1. 0 \in G
    BY <1>2, <1>9
  <2>2. ASSUME NEW i \in 0 .. Len(ids) - 1, i \in G PROVE i + 1 \in G
    <3>1. i + 1 \in 1 .. Len(ids) /\ i + 1 \in 0 .. Len(ids) /\ (i + 1) - 1 = i
      BY <1>2
    <3>2. after[i+1] = After(i + 1, after[i]) /\ after[i] \in Nat
      BY <1>9, <2>2, <3>1
    <3>3. after[i+1] \in Nat
      BY <1>3, <3>1, <3>2
    <3> QED
      BY <3>1, <3>3
  <2> HIDE DEF G
  <2>3. \A i \in 0 .. Len(ids) - 1 : i \in G => i + 1 \in G
    BY <2>2
  <2>4. \A i \in 0 .. Len(ids) : i \in G
    BY <1>2, <2>1, <2>3, UpTo
  <2> QED
    BY <2>4 DEF G
<1>11. after \in [0 .. Len(ids) -> Nat]
  <2> HIDE DEF after, Value
  <2> QED
    BY <1>8, <1>10
<1> HIDE DEF after
<1>12. after \in DryRuns(order, ids, available)
  BY <1>9, <1>11 DEF After, DryRuns
<1> QED
  BY <1>4, <1>12

\* A quantity in its word: as it is, unless it wraps.
LEMMA Wraps ==
  ASSUME NEW a \in Nat, NEW q \in Nat \ {0}
  PROVE  a % q \in Nat /\ a % q <= a /\ (a < q => a % q = a)
OBVIOUS

\* The dry run counts of a level at most what its orders offer, and all of it as
\* long as there is not enough and the count does not wrap.
LEMMA DryRunOfLevel ==
  ASSUME IInv, NEW order \in Orders, NEW price \in Prices, Crosses(order, price),
         NEW available \in Nat, NEW offered,
         offered = SumFunctionOnSet(Offer(order), AtPrices(Opposite(order.side), {price}))
  PROVE  /\ DryRunLevel(order, price, available) \in Nat
         /\ DryRunLevel(order, price, available) <= available + offered
         /\ available + offered < QtyLimit /\ DryRunLevel(order, price, available) < order.remaining
              => DryRunLevel(order, price, available) = available + offered
<1> DEFINE side == Opposite(order.side)
           ids == queue[side][price]
           n == Len(ids)
           F(T) == SumFunctionOnSet(Offer(order), T)
           Ahead(i) == {ids[j] : j \in 1 .. i}
<1>1. TypeOK /\ RestingIsIndexed /\ side \in Sides
  BY OppositeSide, IInvParts DEF Orders, BookIndexed
<1>2. /\ ids \in Seq(Ids) /\ n \in Nat
      /\ \A i \in 1 .. n : /\ ids[i] \in Ids /\ nodes[ids[i]] \in Orders
                           /\ nodes[ids[i]].remaining \in Nat
                           /\ nodes[ids[i]].side = side /\ nodes[ids[i]].type.price = price
  <2>1. ids \in Seq(Ids) /\ n \in Nat
    BY <1>1, LenProperties DEF TypeOK
  <2> QED
    BY <1>1, <2>1, QueuedOrder DEF Orders
<1>3. \A i, j \in 1 .. n : ids[i] = ids[j] => i = j
  BY <1>1 DEF RestingIsIndexed
<1>4. PICK after \in DryRuns(order, ids, available) : DryRunLevel(order, price, available) = after[n]
  <2>1. ids = queue[Opposite(order.side)][price]
    OBVIOUS
  <2> HIDE DEF ids
  <2> QED
    BY <2>1, DryRunExists
<1>4b. /\ after \in [0 .. n -> Nat]
       /\ after[0] = available
       /\ \A i \in 1 .. n :
            after[i] = IF nodes[ids[i]].client = order.client \/ after[i-1] >= order.remaining
                       THEN after[i-1]
                       ELSE (after[i-1] + nodes[ids[i]].remaining) % QtyLimit
  BY DEF DryRuns
<1>5. \A i \in 1 .. n :
        Offer(order)[ids[i]] = IF nodes[ids[i]].client = order.client THEN 0 ELSE nodes[ids[i]].remaining
  <2> SUFFICES ASSUME NEW i \in 1 .. n
               PROVE  Offer(order)[ids[i]] = IF nodes[ids[i]].client = order.client THEN 0
                                             ELSE nodes[ids[i]].remaining
    OBVIOUS
  <2>1. ids[i] \in Ids /\ nodes[ids[i]] # Null /\ nodes[ids[i]].side = side /\ Crosses(order, nodes[ids[i]].type.price)
    BY <1>2, NullAssumption
  <2> HIDE DEF ids
  <2> QED
    BY <2>1 DEF Offer
<1>6. \A T \in SUBSET Ids : /\ F(T) \in Nat
                            /\ T = {} => F(T) = 0
                            /\ \A x \in T : F(T) = Offer(order)[x] + F(T \ {x})
  <2> SUFFICES ASSUME NEW T \in SUBSET Ids
               PROVE  /\ F(T) \in Nat
                      /\ T = {} => F(T) = 0
                      /\ \A x \in T : F(T) = Offer(order)[x] + F(T \ {x})
    OBVIOUS
  <2> DEFINE f == Offer(order)
  <2>1. \A x \in Ids : f[x] \in Nat
    BY <1>1, LiquidityIsOffer
  <2> HIDE DEF f
  <2>2. IsFiniteSet(T) /\ (\A x \in T : f[x] \in Nat) /\ \A x \in Ids : f[x] \in Int
    BY <2>1, IdsAreFinite, FS_Subset
  <2>3. SumFunctionOnSet(f, T) \in Nat
    BY <2>2, SumNat
  <2>4. /\ T = {} => SumFunctionOnSet(f, T) = 0
        /\ \A x \in T : SumFunctionOnSet(f, T) = f[x] + SumFunctionOnSet(f, T \ {x})
    BY <2>2, IdsAreFinite, SumParts
  <2> QED
    BY <2>3, <2>4 DEF f
<1>7. /\ Ahead(0) = {}
      /\ \A i \in 0 .. n : Ahead(i) \in SUBSET Ids
      /\ \A i \in 0 .. n - 1 : ids[i+1] \in Ahead(i + 1) /\ Ahead(i + 1) \ {ids[i+1]} = Ahead(i)
  <2>1. Ahead(0) = {} /\ \A i \in 0 .. n : Ahead(i) \in SUBSET Ids
    BY <1>2
  <2>2. ASSUME NEW i \in 0 .. n - 1
        PROVE  ids[i+1] \in Ahead(i + 1) /\ Ahead(i + 1) \ {ids[i+1]} = Ahead(i)
    <3>1. 1 .. i + 1 = (1 .. i) \union {i + 1} /\ i + 1 \in 1 .. n /\ 1 .. i \subseteq 1 .. n
      BY <1>2
    <3>2. \A j \in 1 .. i : j # i + 1
      OBVIOUS
    <3>3. \A j \in 1 .. i : ids[j] # ids[i+1]
      BY <1>3, <3>1, <3>2
    <3> HIDE DEF ids
    <3> QED
      BY <3>1, <3>3
  <2> QED
    BY <2>1, <2>2
<1>8. Ahead(n) = AtPrices(side, {price})
  <2>1. \A id \in Ahead(n) : id \in AtPrices(side, {price})
    BY <1>2, NullAssumption DEF AtPrices
  <2>2. \A id \in AtPrices(side, {price}) : id \in Ahead(n)
    BY RestingIsQueued DEF AtPrices
  <2> QED
    BY <2>1, <2>2
<1> DEFINE Kept(i) == /\ after[i] <= available + F(Ahead(i))
                      /\ available + F(Ahead(i)) < QtyLimit /\ after[i] < order.remaining
                           => after[i] = available + F(Ahead(i))
           G == {i \in 0 .. n : Kept(i)}
<1> HIDE DEF ids, n, F, Front, side
<1>9. 0 \in G
  <2>1. 0 \in 0 .. n /\ F(Ahead(0)) = 0
    BY <1>2, <1>6, <1>7
  <2>2. Kept(0)
    BY <1>4b, <2>1
  <2> QED
    BY <2>1, <2>2
<1>10. ASSUME NEW i \in 0 .. n - 1, i \in G PROVE i + 1 \in G
  <2> DEFINE this == nodes[ids[i+1]]
             before == F(Ahead(i))
  <2>1. i + 1 \in 1 .. n /\ i + 1 \in 0 .. n /\ i \in 0 .. n /\ (i + 1) - 1 = i
    BY <1>2
  <2>2. /\ this.remaining \in Nat /\ order.remaining \in Nat /\ QtyLimit \in Nat \ {0}
        /\ before \in Nat /\ after[i] \in Nat
    BY <1>2, <1>4b, <1>6, <1>7, <2>1, OrderBookAssumption DEF Orders
  <2>3. F(Ahead(i + 1)) = before + (IF this.client = order.client THEN 0 ELSE this.remaining)
    <3>1. F(Ahead(i + 1)) = Offer(order)[ids[i+1]] + F(Ahead(i + 1) \ {ids[i+1]})
      BY <1>6, <1>7, <2>1
    <3>2. F(Ahead(i + 1) \ {ids[i+1]}) = before
      BY <1>7
    <3>3. Offer(order)[ids[i+1]] = IF this.client = order.client THEN 0 ELSE this.remaining
      BY <1>5, <2>1
    <3> HIDE DEF this, before
    <3> QED
      BY <2>2, <3>1, <3>2, <3>3
  <2>4. after[i+1] = IF this.client = order.client \/ after[i] >= order.remaining
                     THEN after[i]
                     ELSE (after[i] + this.remaining) % QtyLimit
    BY <1>4b, <2>1
  <2>5. /\ after[i] <= available + before
        /\ available + before < QtyLimit /\ after[i] < order.remaining => after[i] = available + before
    BY <1>10
  <2> HIDE DEF this, before
  <2>6. CASE this.client = order.client \/ after[i] >= order.remaining
    <3>1. Kept(i + 1)
      BY <2>2, <2>3, <2>4, <2>5, <2>6
    <3> QED
      BY <2>1, <3>1
  <2>7. CASE ~(this.client = order.client \/ after[i] >= order.remaining)
    <3>1. /\ after[i+1] <= after[i] + this.remaining
          /\ after[i] + this.remaining < QtyLimit => after[i+1] = after[i] + this.remaining
      <4> DEFINE sum == after[i] + this.remaining
      <4>1. sum \in Nat /\ QtyLimit \in Nat \ {0} /\ after[i+1] = sum % QtyLimit
        BY <2>2, <2>4, <2>7
      <4> HIDE DEF sum
      <4>2. sum % QtyLimit <= sum /\ (sum < QtyLimit => sum % QtyLimit = sum)
        BY <4>1, Wraps
      <4> QED
        BY <4>1, <4>2 DEF sum
    <3>2. F(Ahead(i + 1)) = before + this.remaining
      BY <2>3, <2>7
    <3>3. after[i+1] <= available + F(Ahead(i + 1))
      BY SMTT(30), <2>2, <2>5, <3>1, <3>2, <1>4b, <2>1
    <3>4. ASSUME available + F(Ahead(i + 1)) < QtyLimit
          PROVE  after[i+1] = available + F(Ahead(i + 1))
      <4>1. available + before < QtyLimit
        BY <2>2, <3>2, <3>4
      <4>2. after[i] = available + before
        BY <2>2, <2>5, <2>7, <4>1
      <4> QED
        BY <2>2, <3>1, <3>2, <3>4, <4>2
    <3> QED
      BY <2>1, <3>3, <3>4
  <2> QED
    BY <2>6, <2>7
<1>11. n \in G
  <2> HIDE DEF G
  <2>1. \A i \in 0 .. n - 1 : i \in G => i + 1 \in G
    BY <1>10
  <2>2. \A i \in 0 .. n : i \in G
    BY <1>2, <1>9, <2>1, UpTo
  <2> QED
    BY <1>2, <2>2
<1>12. offered = F(Ahead(n))
  BY <1>8 DEF side, F
<1>13. Kept(n) /\ after[n] \in Nat
  BY <1>2, <1>4b, <1>11
<1> HIDE DEF Front
<1> QED
  BY <1>4, <1>12, <1>13

\* A walk over the crossing levels ends at one of them.
LEMMA WorstIsLevel ==
  ASSUME NEW side \in Sides, NEW prices \in SUBSET Prices, prices # {}
  PROVE  Worst(side, prices) \in prices
<1> DEFINE other == Opposite(side)
<1>1. other \in Sides
  BY OppositeSide
<1>2. PICK p \in prices : \A q \in prices : q = p \/ Better(other, p, q)
  <2> HIDE DEF other
  <2> QED
    BY <1>1, BestExists
<1>3. \A q \in prices : q = p \/ Better(side, q, p)
  BY <1>2 DEF Better, Opposite, Sides
<1> QED
  BY <1>3 DEF Worst

\* The walk over the crossing levels, level by level.
FillableWalks(order, crossing) ==
  {walk \in [SUBSET crossing -> Nat] :
     /\ walk[{}] = 0
     /\ \A W \in SUBSET crossing : W # {} =>
          /\ Worst(Opposite(order.side), W) \in W
          /\ walk[W] = DryRunLevel(order, Worst(Opposite(order.side), W),
                                   walk[W \ {Worst(Opposite(order.side), W)}])}

LEMMA FillableWalkExists ==
  ASSUME IInv, NEW order \in Orders, NEW crossing,
         crossing = {p \in levels[Opposite(order.side)] : Crosses(order, p)}
  PROVE  /\ crossing \in SUBSET Prices
         /\ \E walk \in FillableWalks(order, crossing) : Fillable(order) = walk[crossing]
<1> DEFINE side == Opposite(order.side)
           pick == [W \in SUBSET crossing |-> Worst(side, W)]
           step == [p \in crossing |-> [v \in Nat |-> DryRunLevel(order, p, v)]]
           Value(g, W) == IF W = {} THEN 0
                          ELSE DryRunLevel(order, Worst(side, W), g[W \ {Worst(side, W)}])
           IsRun(g) == g = [W \in SUBSET crossing |-> Value(g, W)]
           walk == CHOOSE g : IsRun(g)
<1>1. side \in Sides /\ crossing \in SUBSET Prices /\ IsFiniteSet(crossing)
  <2>1. side \in Sides
    BY OppositeSide DEF Orders
  <2>2. levels[side] \in SUBSET Prices
    BY <2>1, IInvParts DEF TypeOK
  <2> QED
    BY <2>1, <2>2, PricesAssumption, FS_Subset
<1>2. \A p \in crossing, v \in Nat : DryRunLevel(order, p, v) \in Nat
  BY <1>1, DryRunOfLevel
<1>3. \A W \in SUBSET crossing : W # {} => Worst(side, W) \in W
  <2> HIDE DEF side
  <2> QED
    BY <1>1, WorstIsLevel
<1>4. Fillable(order) = walk[crossing]
  BY DEF Fillable
<1>5. PICK g \in Unwindings(crossing, Nat, 0, pick, step) : TRUE
  <2>1. \A W \in SUBSET crossing : W # {} => pick[W] \in W
    <3> HIDE DEF side
    <3> QED
      BY <1>3
  <2>2. step \in [crossing -> [Nat -> Nat]]
    BY <1>2
  <2> HIDE DEF pick, step
  <2>3. IsWalkable(crossing, Nat, 0, pick, step)
    BY <1>1, <2>1, <2>2 DEF IsWalkable
  <2> QED
    BY <2>3, UnwindingExists
<1>6. g \in [SUBSET crossing -> Nat]
  BY <1>5 DEF Unwindings
<1>7. ASSUME NEW W \in SUBSET crossing PROVE g[W] = Value(g, W)
  <2>1. CASE W = {}
    BY <2>1, <1>5 DEF Unwindings
  <2>2. CASE W # {}
    <3> DEFINE p == Worst(side, W)
               v == g[W \ {p}]
    <3>1. pick[W] = p /\ p \in crossing
      <4> HIDE DEF side
      <4> QED
        BY <1>3, <2>2
    <3>2. v \in Nat
      BY <1>6
    <3>3. g[W] = step[pick[W]][g[W \ {pick[W]}]]
      <4> HIDE DEF pick, step
      <4> QED
        BY <1>5, <2>2 DEF Unwindings
    <3>4. step[p][v] = DryRunLevel(order, p, v)
      <4> HIDE DEF p, v
      <4> QED
        BY <3>1, <3>2
    <3> QED
      BY <2>2, <3>1, <3>3, <3>4
  <2> QED
    BY <2>1, <2>2
<1>8. IsRun(walk)
  <2>1. IsRun(g)
    <3> HIDE DEF Value
    <3> QED
      BY <1>6, <1>7
  <2> HIDE DEF IsRun
  <2> QED
    BY <2>1
<1> HIDE DEF walk
<1>9. \A W \in SUBSET crossing : walk[W] = Value(walk, W)
  <2> HIDE DEF Value
  <2> QED
    BY <1>8
<1>10. /\ walk[{}] = 0
       /\ \A W \in SUBSET crossing : W # {} =>
            walk[W] = DryRunLevel(order, Worst(side, W), walk[W \ {Worst(side, W)}])
  <2>1. {} \in SUBSET crossing
    OBVIOUS
  <2> HIDE DEF side
  <2> QED
    BY <1>9, <2>1
<1> DEFINE G == {W \in SUBSET crossing : walk[W] \in Nat}
<1>11. ASSUME NEW W \in SUBSET crossing, \A p \in W : W \ {p} \in G PROVE W \in G
  <2>1. CASE W = {}
    BY <1>10, <2>1
  <2>2. CASE W # {}
    <3> DEFINE p == Worst(side, W)
               U == W \ {p}
    <3>1. p \in W /\ p \in crossing
      BY <1>3, <2>2
    <3>2. walk[W] = DryRunLevel(order, p, walk[U])
      BY <1>10, <2>2
    <3> HIDE DEF p
    <3>3. walk[U] \in Nat
      BY <1>11, <3>1
    <3>4. walk[W] \in Nat
      <4> HIDE DEF U
      <4> QED
        BY <1>2, <3>1, <3>2, <3>3
    <3> QED
      BY <3>4
  <2> QED
    BY <2>1, <2>2
<1>12. \A W \in SUBSET crossing : walk[W] \in Nat
  <2>1. \A W \in SUBSET crossing : W \in G
    <3> HIDE DEF G
    <3> QED
      BY ZenonT(30), <1>1, <1>11, ByElements
  <2> QED
    BY <2>1
<1>13. walk \in [SUBSET crossing -> Nat]
  <2> HIDE DEF Value
  <2> QED
    BY <1>8, <1>12
<1>14. walk \in FillableWalks(order, crossing)
  BY <1>3, <1>10, <1>13 DEF FillableWalks
<1> QED
  BY <1>1, <1>4, <1>14

\* The dry run promises at most what other clients offer within the limit; and if
\* it falls short without wrapping, it has counted all of it.
LEMMA FillableIsLiquidity ==
  ASSUME IInv, NEW order \in Orders
  PROVE  /\ Fillable(order) \in Nat /\ Liquidity(order) \in Nat
         /\ Fillable(order) <= Liquidity(order)
         /\ Liquidity(order) < QtyLimit /\ Fillable(order) < order.remaining
              => Fillable(order) = Liquidity(order)
<1> DEFINE side == Opposite(order.side)
           crossing == {p \in levels[side] : Crosses(order, p)}
           f == Offer(order)
           S(W) == SumFunctionOnSet(f, AtPrices(side, W))
<1>1. side \in Sides /\ crossing \in SUBSET Prices /\ IsFiniteSet(crossing)
  BY SMTT(30), FillableWalkExists, OppositeSide, PricesAssumption, FS_Subset DEF Orders
<1>2. PICK walk \in FillableWalks(order, crossing) : Fillable(order) = walk[crossing]
  BY FillableWalkExists
<1>3. /\ \A id \in Ids : f[id] \in Nat /\ f[id] \in Int
      /\ Liquidity(order) = SumFunctionOnSet(f, Ids)
  BY IInvParts, LiquidityIsOffer
<1>4. order.remaining \in Nat /\ QtyLimit \in Nat
  BY OrderBookAssumption DEF Orders
<1>5. \A W \in SUBSET crossing : AtPrices(side, W) \in SUBSET Ids /\ IsFiniteSet(AtPrices(side, W))
  BY IdsAreFinite, FS_Subset DEF AtPrices
<1>6. \A W \in SUBSET crossing : S(W) \in Nat
  <2> SUFFICES ASSUME NEW W \in SUBSET crossing PROVE S(W) \in Nat
    OBVIOUS
  <2> DEFINE here == AtPrices(side, W)
  <2>1. IsFiniteSet(here) /\ \A id \in here : f[id] \in Nat
    BY <1>3, <1>5
  <2> HIDE DEF here, f
  <2>2. SumFunctionOnSet(f, here) \in Nat
    BY <2>1, SumNat
  <2> QED
    BY <2>2 DEF here
<1>7. Liquidity(order) = S(crossing)
  <2> DEFINE here == AtPrices(side, crossing)
  <2>1. here \in SUBSET Ids
    BY <1>5
  <2>2. \A id \in Ids \ here : f[id] = 0
    BY RestingAtLevel DEF AtPrices, Offer
  <2> HIDE DEF here, f
  <2>3. SumFunctionOnSet(f, Ids) = SumFunctionOnSet(f, here)
    BY <1>3, <2>1, <2>2, IdsAreFinite, SumOfPart
  <2> QED
    BY <1>3, <2>3 DEF here
<1>8. ASSUME NEW W \in SUBSET crossing, NEW p \in W
      PROVE  S(W) = S(W \ {p}) + S({p})
  <2> DEFINE all == AtPrices(side, W)
             part == AtPrices(side, W \ {p})
             rest == AtPrices(side, {p})
  <2>1. part \in SUBSET all /\ all \ part = rest
    BY DEF AtPrices
  <2>2. IsFiniteSet(all) /\ \A id \in all : f[id] \in Int
    BY <1>3, <1>5
  <2> HIDE DEF all, part, rest, f
  <2>3. SumFunctionOnSet(f, all) = SumFunctionOnSet(f, part) + SumFunctionOnSet(f, rest)
    BY <2>1, <2>2, SumSplit
  <2> QED
    BY <2>3 DEF all, part, rest
<1> DEFINE Kept(W) == /\ walk[W] <= S(W)
                      /\ S(W) < QtyLimit /\ walk[W] < order.remaining => walk[W] = S(W)
           G == {W \in SUBSET crossing : Kept(W)}
<1>9. walk \in [SUBSET crossing -> Nat] /\ walk[{}] = 0
  BY <1>2 DEF FillableWalks
<1>10. ASSUME NEW W \in SUBSET crossing, \A p \in W : W \ {p} \in G PROVE W \in G
  <2>1. CASE W = {}
    <3>1. AtPrices(side, {}) = {}
      BY DEF AtPrices
    <3>2. S({}) = 0
      <4>1. IsFiniteSet({}) /\ \A x \in {} : f[x] \in Int
        BY FS_EmptySet
      <4> HIDE DEF f
      <4> QED
        BY <3>1, <4>1, SumStep
    <3> HIDE DEF S
    <3>3. Kept(W)
      BY <1>9, <2>1, <3>2
    <3> QED
      BY <3>3
  <2>2. CASE W # {}
    <3> DEFINE p == Worst(side, W)
               U == W \ {p}
               offered == S({p})
    <3>1. p \in W /\ walk[W] = DryRunLevel(order, p, walk[U])
      BY <1>2, <2>2 DEF FillableWalks
    <3>2. p \in Prices /\ Crosses(order, p) /\ U \in SUBSET crossing /\ {p} \in SUBSET crossing
      BY <1>1, <3>1
    <3> HIDE DEF p
    <3>3. Kept(U) /\ walk[U] \in Nat /\ walk[W] \in Nat /\ S(U) \in Nat /\ offered \in Nat
      BY <1>6, <1>9, <1>10, <3>1, <3>2
    <3>4. S(W) = S(U) + offered
      BY <1>8, <3>1
    <3>5. /\ walk[W] <= walk[U] + offered
          /\ walk[U] + offered < QtyLimit /\ walk[W] < order.remaining => walk[W] = walk[U] + offered
      <4>1. offered = SumFunctionOnSet(Offer(order), AtPrices(Opposite(order.side), {p}))
        OBVIOUS
      <4> DEFINE v == walk[U]
      <4>2. v \in Nat /\ walk[W] = DryRunLevel(order, p, v)
        BY <3>1, <3>3
      <4> HIDE DEF offered, U, v
      <4>3. /\ DryRunLevel(order, p, v) <= v + offered
            /\ v + offered < QtyLimit /\ DryRunLevel(order, p, v) < order.remaining
                 => DryRunLevel(order, p, v) = v + offered
        BY ZenonT(30), <3>2, <4>1, <4>2, DryRunOfLevel
      <4> QED
        BY <4>2, <4>3 DEF v
    <3> HIDE DEF U, offered, S
    <3>6. walk[W] <= S(W)
      BY <3>3, <3>4, <3>5
    <3>7. ASSUME S(W) < QtyLimit, walk[W] < order.remaining
          PROVE  walk[W] = S(W)
      <4>1. walk[U] + offered < QtyLimit /\ S(U) < QtyLimit
        BY <1>4, <3>3, <3>4, <3>7
      <4>2. walk[W] = walk[U] + offered
        BY <3>5, <3>7, <4>1
      <4>3. walk[U] < order.remaining
        BY <1>4, <3>3, <3>7, <4>2
      <4> QED
        BY <3>3, <3>4, <4>1, <4>2, <4>3
    <3> QED
      BY <3>6, <3>7
  <2> QED
    BY <2>1, <2>2
<1>11. \A W \in SUBSET crossing : W \in G
  <2> HIDE DEF G
  <2> QED
    BY <1>1, <1>10, ByElements
<1>12. crossing \in SUBSET crossing
  OBVIOUS
<1> HIDE DEF S, crossing
<1>13. Kept(crossing)
  BY <1>11, <1>12
<1> QED
  BY <1>2, <1>6, <1>7, <1>9, <1>12, <1>13

-------------------------------------------------------------------------------
(* Fill or kill *)

\* What is on offer to the order in hand, as a sum over the book.
TakerOffer ==
  /\ \A id \in Ids : Offer(taker)[id] \in Nat
  /\ Liquidity(taker) = SumFunctionOnSet(Offer(taker), Ids)

LEMMA TakerLiquidity == TypeOK => TakerOffer
BY LiquidityIsOffer DEF TakerOffer

\* While a fill-or-kill sweeps, the book offers as much as it still wants.
FokCovered ==
  pc \in {"sweep", "stp", "unlink", "settle"} /\ IsFok(taker)
    => taker.remaining <= Liquidity(taker)

\* What leaves the book during a sweep was not on offer.
LEMMA UnlinkKeepsOffer ==
  ASSUME IInv, TypeOK', TakerOffer', NEW side \in Sides, NEW price \in Prices, NEW id \in Ids,
         Unlink(side, price, id), taker' = taker, Offer(taker)[id] = 0
  PROVE  Liquidity(taker)' = Liquidity(taker)
<1> DEFINE old == Offer(taker)
           new == Offer(taker)'
<1>1. nodes'[id] = Null /\ \A other \in Ids : other # id => nodes'[other] = nodes[other]
  BY UnlinkKeepsOrder
<1>2. new[id] = 0
  BY <1>1 DEF Offer
<1>3. \A other \in Ids : other # id => new[other] = old[other]
  BY <1>1 DEF Offer, Crosses, LimitPrice, Opposite
<1>4. TakerOffer
  BY IInvParts, TakerLiquidity
<1>5. /\ \A other \in Ids : old[other] \in Int
      /\ Liquidity(taker) = SumFunctionOnSet(old, Ids)
      /\ Liquidity(taker)' = SumFunctionOnSet(new, Ids)
  BY <1>4 DEF TakerOffer
<1> HIDE DEF old, new
<1>6. \A other \in Ids : old[other] \in Int /\ new[other] = old[other]
  BY <1>2, <1>3, <1>5 DEF old
<1> QED
  BY <1>5, <1>6, IdsAreFinite, SumSame

\* What an allocation takes from the taker it takes from what is on offer.
LEMMA AllocateKeepsCover ==
  ASSUME IInv, AtTouch, TakerOffer', Allocate
  PROVE  taker.remaining - taker'.remaining = Liquidity(taker) - Liquidity(taker)'
<1> DEFINE old == Offer(taker)
           new == Offer(taker)'
<1>1. PICK given \in [Ids -> Nat] :
        /\ \A id \in Ids : given[id] # 0 =>
             /\ nodes[id] \in Orders
             /\ nodes[id].side = Opposite(taker.side)
             /\ nodes[id].type.price = level
             /\ nodes[id].client # taker.client
             /\ given[id] <= nodes[id].remaining
        /\ \A id \in Ids : given[id] = 0 => nodes'[id] = nodes[id]
        /\ \A id \in Ids : nodes[id] # Null =>
             nodes'[id] = [nodes[id] EXCEPT !.remaining = @ - given[id]]
        /\ taker' = [taker EXCEPT !.remaining = @ - SumFunctionOnSet(given, Ids)]
        /\ SumFunctionOnSet(given, Ids) \in 0 .. taker.remaining
  BY AllocateTotals
<1>2. TypeOK /\ InHand /\ AtLevel /\ pc = "stp"
  BY IInvParts DEF Allocate
<1>3. taker \in Orders /\ taker.remaining \in Nat
  BY <1>2, HandAndLevel DEF Executing, Orders
<1>4. Crosses(taker, level)
  BY <1>2 DEF AtTouch
<1>5. ASSUME NEW id \in Ids
      PROVE  old[id] = new[id] + given[id]
  <2>1. /\ taker'.side = taker.side /\ taker'.client = taker.client /\ taker'.type = taker.type
    BY <1>1, <1>3 DEF Orders
  <2>2. CASE given[id] = 0
    <3>1. nodes'[id] = nodes[id]
      BY <1>1, <2>2
    <3>2. new[id] = old[id]
      BY <2>1, <3>1 DEF Offer, Crosses
    <3>3. old[id] \in Nat
      BY <1>2, LiquidityIsOffer
    <3> QED
      BY <2>2, <3>2, <3>3
  <2>3. CASE given[id] # 0
    <3>1. /\ nodes[id] \in Orders /\ nodes[id].side = Opposite(taker.side)
          /\ nodes[id].type.price = level /\ nodes[id].client # taker.client
          /\ given[id] <= nodes[id].remaining
      BY <1>1, <2>3
    <3>2. nodes[id] # Null /\ nodes[id].remaining \in Nat /\ given[id] \in Nat
      BY <3>1, NullAssumption DEF Orders
    <3>3. nodes'[id] = [nodes[id] EXCEPT !.remaining = nodes[id].remaining - given[id]]
      BY <1>1, <3>2
    <3>4. /\ nodes'[id].side = nodes[id].side /\ nodes'[id].client = nodes[id].client
          /\ nodes'[id].type = nodes[id].type
          /\ nodes'[id].remaining = nodes[id].remaining - given[id]
          /\ nodes'[id] \in Orders
      BY <3>1, <3>2, <3>3 DEF Orders
    <3>5. old[id] = nodes[id].remaining
      BY <1>4, <3>1, <3>2 DEF Offer
    <3>6. new[id] = nodes'[id].remaining
      <4>1. nodes'[id] # Null
        BY <3>4, NullAssumption
      <4>2. Crosses(taker, level)'
        <5>1. level' = level
          BY DEF Allocate
        <5> QED
          BY <1>4, <2>1, <5>1 DEF Crosses
      <4>3. level' = level
        BY DEF Allocate
      <4> QED
        BY <2>1, <3>1, <3>4, <4>1, <4>2, <4>3 DEF Offer, Crosses
    <3> QED
      BY <3>2, <3>4, <3>5, <3>6
  <2> QED
    BY <2>2, <2>3
<1>6. TakerOffer
  BY <1>2, TakerLiquidity
<1>7. /\ \A id \in Ids : old[id] \in Int /\ new[id] \in Int /\ given[id] \in Int
      /\ Liquidity(taker) = SumFunctionOnSet(old, Ids)
      /\ Liquidity(taker)' = SumFunctionOnSet(new, Ids)
  BY <1>1, <1>6 DEF TakerOffer
<1> HIDE DEF old, new
<1>8. SumFunctionOnSet(old, Ids) = SumFunctionOnSet(new, Ids) + SumFunctionOnSet(given, Ids)
  BY <1>5, <1>7, IdsAreFinite, SumAdds
<1>9. SumFunctionOnSet(new, Ids) \in Int /\ SumFunctionOnSet(given, Ids) \in Int
  BY <1>7, IdsAreFinite, SumStep
<1>10. taker'.remaining = taker.remaining - SumFunctionOnSet(given, Ids)
  BY <1>1, <1>3 DEF Orders
<1> QED
  BY <1>3, <1>7, <1>8, <1>9, <1>10

\* Every step keeps a sweeping fill-or-kill covered.
LEMMA NextKeepsCovered ==
  ASSUME IInv, AtTouch, IInv', FokCovered, [Next]_vars
  PROVE  FokCovered'
<1> SUFFICES ASSUME pc' \in {"sweep", "stp", "unlink", "settle"}, IsFok(taker)'
             PROVE  taker'.remaining <= Liquidity(taker)'
  BY DEF FokCovered
<1>1. TypeOK /\ InHand /\ AtLevel
  BY IInvParts
<1>2. TypeOK' /\ TakerOffer'
  <2>1. TypeOK' => TakerOffer'
    BY TakerLiquidity, PTL
  <2>2. TypeOK'
    BY DEF IInv
  <2> QED
    BY <2>1, <2>2
<1>3. CASE StartSweep
  <2>1. nodes' = nodes /\ taker' = taker /\ pc = "execute"
    BY <1>3 DEF StartSweep, book
  <2>2. Liquidity(taker)' = Liquidity(taker)
    BY <2>1 DEF Liquidity, Crosses, LimitPrice, Opposite
  <2>3. taker \in Orders /\ taker.remaining \in Nat
    BY <1>1, <2>1, HandAndLevel DEF Executing, Orders
  <2>4. Fillable(taker) >= taker.remaining
    BY <1>3, <2>1 DEF StartSweep, IsFok
  <2>5. Fillable(taker) <= Liquidity(taker) /\ Fillable(taker) \in Nat /\ Liquidity(taker) \in Nat
    BY <2>3, FillableIsLiquidity
  <2> QED
    BY <2>1, <2>2, <2>3, <2>4, <2>5
<1>4. CASE TakeLevel \/ EndSweep \/ LeaveLevel \/ UNCHANGED vars
  <2>1. nodes' = nodes /\ taker' = taker /\ pc \in {"sweep", "stp", "unlink", "settle"}
    BY <1>4 DEF TakeLevel, EndSweep, LeaveLevel, vars, book
  <2>2. Liquidity(taker)' = Liquidity(taker)
    BY <2>1 DEF Liquidity, Crosses, LimitPrice, Opposite
  <2> QED
    BY <2>1, <2>2 DEF FokCovered, IsFok
<1>5. CASE CancelOwn \/ UnlinkExhausted
  <2> DEFINE side == Opposite(taker.side)
  <2>1. taker' = taker /\ pc \in {"stp", "unlink"}
    BY <1>5 DEF CancelOwn, UnlinkExhausted
  <2>2. taker \in Orders /\ side \in Sides /\ level \in Prices
    BY <1>1, <2>1, HandAndLevel DEF Executing
  <2>3. PICK id \in Ids : Unlink(side, level, id) /\ Offer(taker)[id] = 0
    <3>1. CASE CancelOwn
      <4>1. PICK id \in OwnIds : Unlink(side, level, id)
        BY <3>1 DEF CancelOwn
      <4>2. queue[side][level] \in Seq(Ids)
        BY <1>1, <2>2 DEF TypeOK
      <4>3. id \in Ids
        <5>1. PICK i \in DOMAIN queue[side][level] : queue[side][level][i] = id
          BY <4>1 DEF Unlink
        <5> QED
          BY <4>2, <5>1, LenProperties, ElementOfSeq
      <4>4. nodes[id].client = taker.client
        BY <4>1 DEF OwnIds
      <4> QED
        BY <4>1, <4>3, <4>4 DEF Offer
    <3>2. CASE UnlinkExhausted
      <4>1. PICK id \in Exhausted : Unlink(side, level, id)
        BY <3>2 DEF UnlinkExhausted
      <4>2. id \in Ids /\ nodes[id].remaining = 0
        BY <4>1, <1>1 DEF Exhausted, TypeOK
      <4> QED
        BY <4>1, <4>2 DEF Offer
    <3> QED
      BY <1>5, <3>1, <3>2
  <2> HIDE DEF side
  <2>4. Liquidity(taker)' = Liquidity(taker)
    BY <1>2, <2>1, <2>2, <2>3, UnlinkKeepsOffer
  <2> QED
    BY <2>1, <2>4 DEF FokCovered, IsFok
<1>6. CASE Allocate
  <2>1. pc = "stp"
    BY <1>6 DEF Allocate
  <2>2. taker'.type = taker.type /\ taker' \in Orders
    BY <1>6, AllocateEffect
  <2>3. taker.remaining <= Liquidity(taker)
    BY <2>1, <2>2 DEF FokCovered, IsFok
  <2>4. taker.remaining - taker'.remaining = Liquidity(taker) - Liquidity(taker)'
    BY <1>2, <1>6, AllocateKeepsCover
  <2>5. taker.remaining \in Nat /\ taker'.remaining \in Nat /\ Liquidity(taker) \in Int /\ Liquidity(taker)' \in Int
    <3>1. taker \in Orders
      BY <1>1, <2>1, HandAndLevel DEF Executing
    <3>2. TakerOffer /\ TakerOffer'
      BY <1>1, <1>2, TakerLiquidity
    <3>3. Liquidity(taker) \in Int
      <4> DEFINE f == Offer(taker)
      <4>1. \A id \in Ids : f[id] \in Int
        BY <3>2 DEF TakerOffer
      <4> HIDE DEF f
      <4>2. SumFunctionOnSet(f, Ids) \in Int
        BY <4>1, IdsAreFinite, SumStep
      <4> QED
        BY <3>2, <4>2 DEF TakerOffer, f
    <3>4. Liquidity(taker)' \in Int
      <4> DEFINE f == Offer(taker)'
      <4>1. \A id \in Ids : f[id] \in Int
        BY <3>2 DEF TakerOffer
      <4> HIDE DEF f
      <4>2. SumFunctionOnSet(f, Ids) \in Int
        BY <4>1, IdsAreFinite, SumStep
      <4> QED
        BY <3>2, <4>2 DEF TakerOffer, f
    <3> QED
      BY <2>2, <3>1, <3>3, <3>4 DEF Orders
  <2> QED
    BY <2>3, <2>4, <2>5
<1>7. CASE ~(\/ StartSweep \/ TakeLevel \/ EndSweep \/ LeaveLevel \/ UNCHANGED vars
             \/ CancelOwn \/ UnlinkExhausted \/ Allocate)
  <2>1. pc' \notin {"sweep", "stp", "unlink", "settle"}
    BY <1>7 DEF Next, Command, Execution, AwaitCommand, Submit, AddOrder, CancelResting,
       CancelParked, KillUnfillable, ActivateAtOnce, Park, ParkDuplicate,
       SettleWithoutRest, SettleByResting, SettleFails, SettlePanics, FireStop, EndCascade, GoIdle
  <2> QED
    BY <2>1
<1> QED
  BY <1>3, <1>4, <1>5, <1>6, <1>7

\* A fill-or-kill whose dry run has passed is filled completely, through
\* self-trade cancellations and under every contract-abiding policy
\* (matching.rs:305-308), if no caller seeds the book with a spent order.
THEOREM FillOrKillFills == ASSUME NoSpentSeeds PROVE Spec => []FokFillsCompletely
<1>1. Init => FokCovered
  BY DEF Init, FokCovered
<1>2. IInv /\ AtTouch /\ FokCovered /\ [Next]_vars => FokCovered'
  BY NextKeepsIInv, NextKeepsCovered
<1>3. Init => AtTouch
  BY DEF Init, AtTouch
<1>4. IInv /\ AtTouch /\ [Next]_vars => AtTouch'
  BY NextKeepsTouch
<1>5. IInv /\ FokCovered /\ RemainderHasNoCounterparty => FokFillsCompletely
  <2> SUFFICES ASSUME IInv, FokCovered, RemainderHasNoCounterparty,
                      pc = "settle", IsFok(taker), taker.remaining # 0
               PROVE  FALSE
    BY DEF FokFillsCompletely
  <2>1. TypeOK /\ InHand
    BY IInvParts
  <2>2. taker \in Orders /\ taker.remaining \in Nat
    BY <2>1 DEF Orders, InHand, Executing, TypeOK
  <2>3. \A price \in levels[Opposite(taker.side)] : ~Crosses(taker, price)
    BY DEF RemainderHasNoCounterparty
  <2> DEFINE f == Offer(taker)
  <2>4. \A id \in Ids : f[id] = 0
    BY <2>3, RestingAtLevel DEF Offer
  <2>5. Liquidity(taker) = SumFunctionOnSet(f, Ids)
    BY <2>1, LiquidityIsOffer
  <2> HIDE DEF f
  <2>6. Liquidity(taker) = 0
    BY <2>4, <2>5, IdsAreFinite, SumOfZeros
  <2> QED
    BY <2>2, <2>6 DEF FokCovered
<1> QED
  BY <1>1, <1>2, <1>3, <1>4, <1>5, Inductive, NothingLeftToTrade, PTL DEF Spec

\* What is on offer within the limit of an order about to execute fits the word
\* quantities are counted in: the dry run adds it up in a u64, unchecked.
OfferFitsWord == pc = "execute" => Liquidity(taker) < QtyLimit

\* As long as it does, a fill-or-kill is killed only if the book could not have
\* filled it (matching.rs:361-363).
THEOREM KillsAreJustified == Spec /\ []OfferFitsWord => FokKillIsJustified
<1>1. IInv /\ OfferFitsWord /\ [Next]_vars =>
        [pc = "execute" /\ IsFok(taker) /\ pc' = "cascade"
           => Liquidity(taker) < taker.remaining]_vars
  <2> SUFFICES ASSUME IInv, OfferFitsWord, [Next]_vars, pc = "execute", IsFok(taker), pc' = "cascade"
               PROVE  Liquidity(taker) < taker.remaining
    OBVIOUS
  <2>1. TypeOK /\ InHand
    BY IInvParts
  <2>2. taker \in Orders
    BY <2>1 DEF InHand, Executing, TypeOK
  <2>3. ~IsStop(taker.type)
    BY DEF IsFok, IsStop
  <2>4. KillUnfillable
    BY <2>3 DEF Next, Command, Execution, AwaitCommand, vars, Submit, AddOrder, CancelResting,
       CancelParked, KillUnfillable, StartSweep, ActivateAtOnce, Park, ParkDuplicate,
       TakeLevel, EndSweep, CancelOwn, Allocate, UnlinkExhausted, LeaveLevel, SettleWithoutRest,
       SettleByResting, SettleFails, SettlePanics, FireStop, EndCascade, GoIdle
  <2>5. Fillable(taker) < taker.remaining /\ Liquidity(taker) < QtyLimit
    BY <2>4 DEF KillUnfillable, OfferFitsWord
  <2> QED
    BY <2>2, <2>5, FillableIsLiquidity
<1> QED
  BY <1>1, Inductive, PTL DEF Spec, FokKillIsJustified

-------------------------------------------------------------------------------
(* What the queries promise *)

\* A limit order reaches a level exactly when crosses said it would
\* (orderbook.rs:411-422, matching.rs:448-457).
THEOREM CrossesTellsTheSweep == Spec => CrossesForetellsTrade
<1>1. IInv /\ [Next]_vars =>
        [pc = "sweep" /\ LimitPrice(taker.type) # Null /\ taker.remaining # 0
           => (pc' = "stp" <=> WouldCross(taker.side, LimitPrice(taker.type)))]_vars
  <2> SUFFICES ASSUME IInv, Next, pc = "sweep", LimitPrice(taker.type) # Null, taker.remaining # 0
               PROVE  pc' = "stp" <=> WouldCross(taker.side, LimitPrice(taker.type))
    OBVIOUS
  <2> DEFINE side == Opposite(taker.side)
             limit == LimitPrice(taker.type)
  <2>1. TypeOK /\ InHand /\ AtLevel
    BY IInvParts
  <2>2. taker \in Orders /\ side \in Sides /\ taker.side \in Sides
    BY <2>1, HandAndLevel DEF Executing, Orders
  <2>3. levels[side] \in SUBSET Prices
    BY <2>1, <2>2 DEF TypeOK
  <2>4. limit \in Prices
    <3>1. taker.type \in OrderTypes
      BY <2>2 DEF Orders
    <3> QED
      BY <3>1 DEF LimitPrice, OrderTypes, LimitTypes, MarketTypes, StopTypes, StopMarketTypes, StopLimitTypes
  <2>5. TakeLevel \/ EndSweep
    BY DEF Next, Command, Execution, AwaitCommand, vars, Submit, AddOrder, CancelResting,
       CancelParked, KillUnfillable, StartSweep, ActivateAtOnce, Park, ParkDuplicate,
       CancelOwn, Allocate, UnlinkExhausted, LeaveLevel, SettleWithoutRest,
       SettleByResting, SettleFails, SettlePanics, FireStop, EndCascade
  <2>6. pc' = "stp" <=> levels[side] # {} /\ Crosses(taker, Best(side))
    BY <2>5 DEF TakeLevel, EndSweep
  <2>7. CASE levels[side] = {}
    BY <2>6, <2>7 DEF WouldCross, BestPrice
  <2>8. CASE levels[side] # {}
    <3>1. Best(side) \in Prices
      BY <2>1, <2>2, <2>3, <2>8, BestIsLevel
    <3>2. BestPrice(side) = Best(side) /\ Best(side) # Null
      BY <2>8, <3>1, NullAssumption DEF BestPrice
    <3>3. Crosses(taker, Best(side)) <=> WouldCross(taker.side, limit)
      <4> HIDE DEF limit
      <4>1. Crosses(taker, Best(side)) <=>
              IF taker.side = "bid" THEN Best(side) <= limit ELSE Best(side) >= limit
        BY DEF Crosses, limit
      <4>2. WouldCross(taker.side, limit) <=>
              IF taker.side = "ask" THEN limit <= Best(side) ELSE limit >= Best(side)
        BY <3>2 DEF WouldCross
      <4>3. limit \in Nat /\ Best(side) \in Nat
        BY <2>4, <3>1, PricesAssumption
      <4> QED
        BY <4>1, <4>2, <4>3, <2>2 DEF Sides
    <3> QED
      BY <2>6, <2>8, <3>3
  <2> QED
    BY <2>7, <2>8
<1> QED
  BY <1>1, Inductive, PTL DEF Spec, CrossesForetellsTrade

\* The index leads to the parked order of a stop (get_order, cancel_order).
LEMMA ParkedIsFound ==
  ASSUME IInv, NEW id \in Ids, index[id] # Null, index[id].kind = "stop"
  PROVE  /\ index[id].side \in Sides /\ index[id].price \in Prices
         /\ \E i \in 1 .. Len(stops[index[id].side][index[id].price]) :
              ParkedOrder(id) = stops[index[id].side][index[id].price][i]
         /\ ParkedOrder(id) \in Orders
         /\ ParkedOrder(id).id = id
         /\ ParkedOrder(id).side = index[id].side
<1>1. TypeOK /\ ParkedIsIndexed /\ IndexedParks
  BY IInvParts DEF StopsIndexed
<1> DEFINE s == index[id].side
           t == index[id].price
           queued == stops[s][t]
           found == {i \in DOMAIN queued : queued[i].id = id}
<1>2. s \in Sides /\ t \in Prices /\ index[id] = StopAddress(s, t)
  BY <1>1, AddressCases DEF TypeOK
<1>3. queued \in Seq(Orders) /\ DOMAIN queued = 1 .. Len(queued)
  BY <1>1, <1>2, LenProperties DEF TypeOK
<1>4. found # {}
  BY <1>1, <1>2, <1>3 DEF IndexedParks
<1>5. ParkedOrder(id) = queued[CHOOSE i \in found : TRUE]
  BY <1>4 DEF ParkedOrder
<1>6. PICK i \in found : ParkedOrder(id) = queued[i]
  BY <1>4, <1>5
<1>7. i \in 1 .. Len(queued) /\ queued[i].id = id
  BY <1>3
<1>8. queued[i] \in Orders
  BY <1>3, <1>7, ElementOfSeq
<1>9. queued[i].side = s
  BY <1>1, <1>2, <1>7 DEF ParkedIsIndexed
<1> QED
  BY <1>2, <1>6, <1>7, <1>8, <1>9

\* As many ids are indexed at a price of a side as orders rest there and are
\* parked there.
LEMMA IndexedAtPrice ==
  ASSUME IInv, NEW s \in Sides, NEW p \in Prices,
         NEW f, \A id \in OrderIds : f[id] = 1
  PROVE  SumFunctionOnSet(f, {id \in OrderIds : index[id].side = s /\ index[id].price = p})
           = Len(queue[s][p]) + Len(stops[s][p])
<1>1. TypeOK /\ RestingIsIndexed /\ IndexedRests /\ ParkedIsIndexed /\ IndexedParks
  BY IInvParts DEF BookIndexed, StopsIndexed
<1> DEFINE All == {id \in OrderIds : index[id].side = s /\ index[id].price = p}
           Booked == {id \in Ids : index[id] = BookAddress(s, p)}
           Parked == {id \in Ids : index[id] = StopAddress(s, p)}
<1>2. IsFiniteSet(All) /\ IsFiniteSet(Booked) /\ IsFiniteSet(Parked)
  BY IdsAreFinite, FS_Subset DEF OrderIds
<1>3. Booked \in SUBSET All /\ All \ Booked = Parked
  <2>1. \A id \in OrderIds : id \in Ids /\ index[id] \in Addresses
    BY <1>1 DEF OrderIds, TypeOK
  <2>2. \A id \in All : id \in Booked \/ id \in Parked
    BY <2>1, AddressCases
  <2>3. \A id \in Ids : id \in Booked => id \in All /\ id \notin Parked
    BY AddressParts DEF OrderIds
  <2>4. \A id \in Ids : id \in Parked => id \in All
    BY AddressParts DEF OrderIds
  <2> QED
    BY <2>2, <2>3, <2>4
<1>4. /\ \A id \in All : f[id] = 1 /\ f[id] \in Int
      /\ \A id \in Booked : f[id] = 1 /\ f[id] \in Int
      /\ \A id \in Parked : f[id] = 1 /\ f[id] \in Int
  BY <1>3
<1>5. queue[s][p] \in Seq(Ids) /\ stops[s][p] \in Seq(Orders)
  BY <1>1 DEF TypeOK
<1>6. Len(queue[s][p]) \in Nat /\ Len(stops[s][p]) \in Nat
  BY <1>5, LenProperties
<1>7. ASSUME NEW n \in Nat, NEW name \in [1 .. n -> Ids], NEW T,
             IsFiniteSet(T), \A id \in T : f[id] = 1 /\ f[id] \in Int,
             \A i \in 1 .. n : name[i] \in T,
             \A i, j \in 1 .. n : name[i] = name[j] => i = j,
             \A id \in T : \E i \in 1 .. n : name[i] = id
      PROVE  SumFunctionOnSet(f, T) = n
  <2> DEFINE ones == [i \in 1 .. n |-> 1]
  <2>1. IsFiniteSet(1 .. n) /\ Cardinality(1 .. n) = n
    BY FS_Interval
  <2>2. name \in [1 .. n -> T] /\ \A i \in 1 .. n : ones[i] = f[name[i]] /\ ones[i] = 1
    BY <1>7
  <2> HIDE DEF ones
  <2>3. SumFunctionOnSet(ones, 1 .. n) = SumFunctionOnSet(f, T)
    BY <1>7, <2>1, <2>2, SumRenamed
  <2>4. SumFunctionOnSet(ones, 1 .. n) = n
    BY <2>1, <2>2, SumOfOnes
  <2> QED
    BY <2>3, <2>4
<1>8. SumFunctionOnSet(f, Booked) = Len(queue[s][p])
  <2> DEFINE n == Len(queue[s][p])
             name == [i \in 1 .. n |-> queue[s][p][i]]
  <2>1. \A i \in 1 .. n : queue[s][p][i] \in Ids
    BY <1>5, ElementOfSeq
  <2>2. /\ name \in [1 .. n -> Ids]
        /\ \A i \in 1 .. n : name[i] \in Booked
        /\ \A i, j \in 1 .. n : name[i] = name[j] => i = j
        /\ \A id \in Booked : \E i \in 1 .. n : name[i] = id
    BY <1>1, <1>6, <2>1 DEF RestingIsIndexed, IndexedRests
  <2> HIDE DEF name, n, Booked
  <2>3. n \in Nat
    BY <1>6 DEF n
  <2> QED
    BY SMTT(30), <1>2, <1>4, <1>7, <2>2, <2>3 DEF n
<1>9. SumFunctionOnSet(f, Parked) = Len(stops[s][p])
  <2> DEFINE n == Len(stops[s][p])
             name == [i \in 1 .. n |-> stops[s][p][i].id]
  <2>1. \A i \in 1 .. n : stops[s][p][i].id \in Ids
    <3>1. \A i \in 1 .. n : stops[s][p][i] \in Orders
      BY <1>5, ElementOfSeq
    <3> QED
      BY <3>1 DEF Orders
  <2>2. /\ name \in [1 .. n -> Ids]
        /\ \A i \in 1 .. n : name[i] \in Parked
        /\ \A i, j \in 1 .. n : name[i] = name[j] => i = j
        /\ \A id \in Parked : \E i \in 1 .. n : name[i] = id
    BY <1>1, <1>6, <2>1 DEF ParkedIsIndexed, IndexedParks
  <2> HIDE DEF name, n, Parked
  <2>3. n \in Nat
    BY <1>6 DEF n
  <2> QED
    BY SMTT(30), <1>2, <1>4, <1>7, <2>2, <2>3 DEF n
<1> HIDE DEF All, Booked, Parked
<1>10. SumFunctionOnSet(f, All) = SumFunctionOnSet(f, Booked) + SumFunctionOnSet(f, Parked)
  <2>1. SumFunctionOnSet(f, All) = SumFunctionOnSet(f, Booked) + SumFunctionOnSet(f, All \ Booked)
    BY <1>2, <1>3, <1>4, SumSplit
  <2> QED
    BY <1>3, <2>1
<1> QED
  BY <1>8, <1>9, <1>10 DEF All

\* Every id leads to its order, and there are as many ids as orders at rest and
\* parked (get_order, order_ids, len: orderbook.rs:371-409).
THEOREM QueriesAgree == Spec => []LookupsAgree
<1>1. IInv => LookupsAgree
  <2> SUFFICES ASSUME IInv PROVE LookupsAgree
    OBVIOUS
  <2>1. TypeOK /\ NodesAreIndexed
    BY IInvParts DEF BookIndexed
  <2>2. \A id \in OrderIds : id \in Ids /\ index[id] # Null /\ index[id] \in Addresses
    BY <2>1 DEF OrderIds, TypeOK
  <2>3. ASSUME NEW id \in OrderIds
        PROVE  GetOrder(id) # Null /\ GetOrder(id).id = id /\ GetOrder(id).side = index[id].side
    <3>1. CASE index[id].kind = "book"
      BY <2>1, <2>2, <3>1 DEF GetOrder, NodesAreIndexed
    <3>2. CASE index[id].kind = "stop"
      BY <2>2, <3>2, ParkedIsFound, NullAssumption DEF GetOrder
    <3> QED
      BY <2>2, <3>1, <3>2, AddressCases
  <2> DEFINE f == [id \in OrderIds |-> 1]
             At(s, p) == {id \in OrderIds : index[id].side = s /\ index[id].price = p}
             On(s) == {id \in OrderIds : index[id].side = s}
             shown(s) == [p \in Prices |-> Len(Snapshot(s, p).orders) + Len(stops[s][p])]
             total == [s \in Sides |-> Total(shown(s))]
  <2>4. IsFiniteSet(OrderIds) /\ \A id \in OrderIds : f[id] = 1 /\ f[id] \in Int
    BY IdsAreFinite, FS_Subset DEF OrderIds
  <2>5. IsFiniteSet(Prices) /\ IsFiniteSet(Sides)
    <3>1. Sides = {"bid"} \union {"ask"}
      BY DEF Sides
    <3> QED
      BY <3>1, PricesAssumption, FS_Singleton, FS_Union
  <2>6. ASSUME NEW s \in Sides, NEW p \in Prices
        PROVE  shown(s)[p] = SumFunctionOnSet(f, At(s, p))
    <3>1. queue[s][p] \in Seq(Ids)
      BY <2>1 DEF TypeOK
    <3>2. Len(queue[s][p]) \in Nat /\ DOMAIN queue[s][p] = 1 .. Len(queue[s][p])
      BY <3>1, LenProperties
    <3>3. Len(Snapshot(s, p).orders) = Len(queue[s][p])
      <4> DEFINE orders == [n \in DOMAIN queue[s][p] |-> nodes[queue[s][p][n]]]
      <4>1. Snapshot(s, p).orders = orders
        BY DEF Snapshot, NewLevel
      <4>2. DOMAIN orders = 1 .. Len(queue[s][p])
        BY <3>2
      <4> QED
        BY <3>2, <4>1, <4>2
    <3> HIDE DEF f
    <3>4. SumFunctionOnSet(f, At(s, p)) = Len(queue[s][p]) + Len(stops[s][p])
      BY <2>4, IndexedAtPrice
    <3> QED
      BY <3>3, <3>4
  <2>7. ASSUME NEW s \in Sides
        PROVE  total[s] = SumFunctionOnSet(f, On(s))
    <3> DEFINE g == shown(s)
               key == [id \in OrderIds |-> index[id].price]
               S == On(s)
    <3>1. total[s] = SumFunctionOnSet(g, Prices)
      BY DEF Total, SumFunction
    <3>2. IsFiniteSet(S) /\ (\A id \in S : f[id] \in Int) /\ \A id \in S : key[id] \in Prices
      BY <2>2, <2>4, FS_Subset, AddressCases
    <3>3. \A p \in Prices : g[p] = SumFunctionOnSet(f, {id \in S : key[id] = p})
      <4> SUFFICES ASSUME NEW p \in Prices PROVE g[p] = SumFunctionOnSet(f, {id \in S : key[id] = p})
        OBVIOUS
      <4>1. {id \in S : key[id] = p} = At(s, p)
        OBVIOUS
      <4> HIDE DEF g, key, S, f, At
      <4> QED
        BY <2>6, <4>1 DEF g
    <3> HIDE DEF g, key, S, f
    <3>4. SumFunctionOnSet(g, Prices) = SumFunctionOnSet(f, S)
      <4>1. IsGrouping(g, Prices, key, f, S)
        BY <3>2, <3>3 DEF IsGrouping
      <4> QED
        BY <2>5, <3>2, <4>1, SumByKey
    <3> QED
      BY <3>1, <3>4 DEF S
  <2>8. SumFunctionOnSet(total, Sides) = SumFunctionOnSet(f, OrderIds)
    <3> DEFINE key == [id \in OrderIds |-> index[id].side]
    <3>1. (\A id \in OrderIds : f[id] \in Int) /\ \A id \in OrderIds : key[id] \in Sides
      BY <2>2, AddressCases
    <3>2. \A s \in Sides : total[s] = SumFunctionOnSet(f, {id \in OrderIds : key[id] = s})
      <4> SUFFICES ASSUME NEW s \in Sides
                   PROVE  total[s] = SumFunctionOnSet(f, {id \in OrderIds : key[id] = s})
        OBVIOUS
      <4>1. {id \in OrderIds : key[id] = s} = On(s)
        OBVIOUS
      <4> HIDE DEF key, f, On, total
      <4> QED
        BY <2>7, <4>1
    <3> HIDE DEF key, f, total
    <3>3. IsGrouping(total, Sides, key, f, OrderIds)
      BY <3>1, <3>2 DEF IsGrouping
    <3> QED
      BY <2>4, <2>5, <3>1, <3>3, SumByKey
  <2>9. SumFunctionOnSet(f, OrderIds) = Cardinality(OrderIds)
    <3> HIDE DEF f
    <3> QED
      BY <2>4, SumOfOnes
  <2>10. Total(total) = SumFunctionOnSet(total, Sides)
    BY DEF Total, SumFunction
  <2> HIDE DEF f
  <2>11. Cardinality(OrderIds) = Total(total)
    BY <2>8, <2>9, <2>10
  <2> QED
    BY <2>3, <2>11 DEF LookupsAgree
<1> QED
  BY <1>1, Inductive, PTL

-------------------------------------------------------------------------------
(* Ids are handed out once *)

\* Ids are handed out once: every live one is below the next, and the order in
\* hand is in no book (submit, matching.rs; without add_order by callers).
Fresh ==
  /\ \A id \in Ids : index[id] # Null => id < nextSeq
  /\ Executing => index[taker.id] = Null /\ taker.id < nextSeq

\* A step that indexes no id and takes no new order in hand keeps ids fresh.
LEMMA StillFresh ==
  ASSUME Fresh, nextSeq' = nextSeq,
         \A id \in Ids : index'[id] = index[id] \/ index'[id] = Null,
         Executing' => Executing /\ taker'.id = taker.id /\ taker.id \in Ids
  PROVE  Fresh'
BY DEF Fresh

\* A triggered stop becomes another type of order and stays the order it was.
LEMMA ActivateKeeps ==
  ASSUME NEW order \in Orders
  PROVE  /\ Activate(order).id = order.id /\ Activate(order).client = order.client
         /\ Activate(order).side = order.side
         /\ Activate(order).original = order.original
         /\ Activate(order).remaining = order.remaining
BY DEF Activate, Orders

\* The stop a cascade fires is the oldest parked at the nearest trigger.
LEMMA FireTakes ==
  ASSUME IInv, NEW side \in Sides, FireStop(side)
  PROVE  LET t == NearestTrigger(side)
             order == stops[side][t][1]
         IN  /\ t \in Prices /\ 1 \in 1 .. Len(stops[side][t])
             /\ order \in Orders /\ order.id \in Ids
             /\ index[order.id] = StopAddress(side, t)
             /\ Unpark(side, t, 1)
             /\ taker' = Activate(order)
<1> DEFINE t == NearestTrigger(side)
           order == stops[side][t][1]
<1>1. TypeOK /\ ParkedIsIndexed /\ TriggersAreActive
  BY IInvParts DEF StopsIndexed
<1>2. /\ Unpark(side, t, 1) /\ triggers[side] # {}
      /\ taker' = Activate(Head(stops[side][t]))
  BY DEF FireStop, Fires
<1>3. t \in triggers[side] /\ t \in Prices
  BY <1>1, <1>2, NearestIsTrigger DEF TypeOK
<1>4. stops[side][t] \in Seq(Orders) /\ stops[side][t] # <<>>
  BY <1>1, <1>3 DEF TypeOK, TriggersAreActive
<1>5. 1 \in 1 .. Len(stops[side][t]) /\ Head(stops[side][t]) = order
  BY <1>4, EmptySeq, HeadTailProperties
<1>6. order \in Orders
  BY <1>4, <1>5, ElementOfSeq
<1>7. order.id \in Ids
  BY <1>6 DEF Orders
<1>8. index[order.id] = StopAddress(side, t)
  BY <1>1, <1>3, <1>5 DEF ParkedIsIndexed
<1> QED
  BY <1>2, <1>3, <1>5, <1>6, <1>7, <1>8

LEMMA NextKeepsFresh ==
  ASSUME CallerIds = {}, IInv, Fresh, [Next]_vars
  PROVE  Fresh'
<1>1. TypeOK /\ InHand
  BY IInvParts
<1>2. /\ index \in [Ids -> Addresses \union {Null}]
      /\ nextSeq \in 1 .. MaxSeq + 1 /\ MaxSeq \in Nat
  BY <1>1, OrderBookAssumption DEF TypeOK
<1>3. Executing => taker \in Orders /\ taker.id \in Ids
  BY <1>1 DEF InHand, TypeOK, Orders
<1>4. CASE UNCHANGED vars
  BY <1>4 DEF vars, Fresh, Executing
<1>5. ASSUME NEW request \in Requests, Submit(request)
      PROVE  Fresh'
  <2>1. /\ UNCHANGED index /\ nextSeq' = nextSeq + 1
        /\ taker'.id = nextSeq /\ nextSeq \in Ids
    BY <1>2, <1>5 DEF Submit, book, OrderOf, Ids
  <2>2. \A id \in Ids : index[id] # Null => id < nextSeq
    BY DEF Fresh
  <2>3. Ids \subseteq Nat
    BY OrderBookAssumption DEF Ids
  <2> QED
    BY <1>2, <2>1, <2>2, <2>3 DEF Fresh
<1>6. CASE \/ KillUnfillable \/ StartSweep \/ ActivateAtOnce \/ ParkDuplicate
           \/ TakeLevel \/ EndSweep \/ LeaveLevel
           \/ SettleWithoutRest \/ SettleFails \/ SettlePanics \/ EndCascade
  <2>1. UNCHANGED index /\ nextSeq' = nextSeq
    BY <1>6 DEF KillUnfillable, StartSweep, ActivateAtOnce, ParkDuplicate, TakeLevel, EndSweep,
       LeaveLevel, SettleWithoutRest, SettleFails, SettlePanics, EndCascade, book, counters
  <2>2. Executing' => Executing /\ (taker' = taker \/ taker' = Activate(taker))
    BY <1>6 DEF KillUnfillable, StartSweep, ActivateAtOnce, ParkDuplicate, TakeLevel, EndSweep,
       LeaveLevel, SettleWithoutRest, SettleFails, SettlePanics, EndCascade, GoIdle, Executing
  <2>3. Executing => Activate(taker).id = taker.id
    BY <1>3, ActivateKeeps
  <2> QED
    BY <1>3, <2>1, <2>2, <2>3, StillFresh
<1>7. CASE Park \/ SettleByResting
  <2>1. /\ Executing /\ ~Executing' /\ nextSeq' = nextSeq
        /\ \E a : index' = [index EXCEPT ![taker.id] = a]
    BY <1>7 DEF Park, SettleByResting, Rest, Executing, counters
  <2> QED
    BY <1>2, <1>3, <2>1 DEF Fresh
<1>8. ASSUME NEW id \in Ids, CancelResting(id) \/ CancelParked(id)
      PROVE  Fresh'
  <2>1. pc = "idle" /\ pc' = "idle" /\ nextSeq' = nextSeq
    BY <1>8 DEF CancelResting, CancelParked, counters
  <2>2. \E other : index' = [index EXCEPT ![other] = Null]
    BY <1>8 DEF CancelResting, CancelParked, Unlink, Unpark
  <2> QED
    BY <1>2, <2>1, <2>2 DEF Fresh, Executing
<1>9. CASE CancelOwn \/ UnlinkExhausted
  <2>1. UNCHANGED <<pc, taker, nextSeq>> /\ \E other : index' = [index EXCEPT ![other] = Null]
    BY <1>9 DEF CancelOwn, UnlinkExhausted, Unlink, counters
  <2>2. Executing' <=> Executing
    BY <2>1 DEF Executing
  <2> QED
    BY <1>2, <1>3, <2>1, <2>2 DEF Fresh
<1>10. CASE Allocate
  <2>1. UNCHANGED <<index, nextSeq>> /\ Executing
    BY <1>10 DEF Allocate, counters, Executing
  <2>2. taker'.id = taker.id
    BY <1>10, AllocateEffect
  <2> QED
    BY <1>3, <2>1, <2>2, StillFresh
<1>11. ASSUME NEW side \in Sides, FireStop(side)
       PROVE  Fresh'
  <2> DEFINE t == NearestTrigger(side)
             order == stops[side][t][1]
  <2>1. /\ t \in Prices /\ order \in Orders /\ order.id \in Ids
        /\ index[order.id] = StopAddress(side, t)
        /\ Unpark(side, t, 1) /\ taker' = Activate(order)
    BY <1>11, FireTakes
  <2>2. taker'.id = order.id
    BY <2>1, ActivateKeeps
  <2>3. index' = [index EXCEPT ![order.id] = Null]
    BY <2>1 DEF Unpark
  <2>4. nextSeq' = nextSeq
    BY <1>11 DEF FireStop, counters
  <2>5. index[order.id] # Null
    BY <2>1, AddressParts
  <2> HIDE DEF order
  <2> QED
    BY <1>2, <2>1, <2>2, <2>3, <2>4, <2>5 DEF Fresh
<1> QED
  BY <1>4, <1>5, <1>6, <1>7, <1>8, <1>9, <1>10, <1>11
     DEF Next, Command, Execution, AwaitCommand

LEMMA InitFresh == Init => Fresh
BY DEF Init, Fresh, Executing

\* Fewer orders have come to rest than the arrival counter can stamp (a u32).
StampsLeft == nextArrival < MaxArrival

\* A command that traded always gets as far as the update of the last price: its
\* remainder can rest, for it was admitted, its id is new, and the store has a
\* place for its price (orderbook.rs:71, matching.rs:213-238).
THEOREM LastPriceIsFollowed ==
  ASSUME CallerIds = {}, Storable = Prices
  PROVE  Spec /\ []StampsLeft => LastPriceFollowsTrades
<1>1. IInv /\ Fresh /\ StopInv /\ StampsLeft /\ [Next]_vars =>
        [pc = "settle" /\ pc' # "settle" /\ trades # <<>> => last' = Last(trades).price]_vars
  <2> SUFFICES ASSUME IInv, Fresh, StopInv, StampsLeft, Next,
                      pc = "settle", pc' # "settle", trades # <<>>
               PROVE  last' = Last(trades).price
    OBVIOUS
  <2>1. SettleWithoutRest \/ SettleByResting \/ SettleFails \/ SettlePanics
    BY DEF Next, Command, Execution, AwaitCommand, vars, Submit, AddOrder, CancelResting,
       CancelParked, KillUnfillable, StartSweep, ActivateAtOnce, Park, ParkDuplicate,
       TakeLevel, EndSweep, CancelOwn, Allocate, UnlinkExhausted, LeaveLevel, FireStop, EndCascade
  <2>2. TypeOK /\ InHand /\ Executing
    BY IInvParts DEF Executing
  <2>3. taker.type \in OrderTypes
    BY <2>2 DEF InHand, TypeOK, Orders
  <2>4. Admits(taker) /\ index[taker.id] = Null
    BY <2>2 DEF StopInv, HandInv, Fresh
  <2>5. ~SettleFails
    BY <2>3, <2>4, OrderTypeParts DEF SettleFails, Rests, Restable
  <2>6. ~SettlePanics
    BY <2>2, OrderBookAssumption DEF SettlePanics, StampsLeft, TypeOK
  <2> QED
    BY <2>1, <2>5, <2>6 DEF SettleWithoutRest, SettleByResting, LastAfter
<1>2. IInv /\ Fresh /\ [Next]_vars => Fresh'
  BY NextKeepsFresh
<1> QED
  BY <1>1, <1>2, InitFresh, Inductive, StopInvHolds, PTL DEF Spec, LastPriceFollowsTrades

-------------------------------------------------------------------------------
(* Live orders *)

Parked(order) ==
  \E s \in Sides, t \in Prices : \E i \in 1 .. Len(stops[s][t]) : stops[s][t][i] = order

\* An order is live in hand, at rest, or parked.
IsLive(order) ==
  /\ order \in Orders
  /\ (Executing /\ order = taker) \/ order = nodes[order.id] \/ Parked(order)

\* What the ledger shows is what the live orders have open.
Stakes ==
  /\ Open \in [Ids -> Nat] /\ Owner \in [Ids -> Clients \union {Null}]
  /\ \A order \in Orders : IsLive(order) =>
       Open[order.id] = order.remaining /\ Owner[order.id] = order.client
  /\ \A id \in Ids : (\A order \in Orders : IsLive(order) => order.id # id) =>
       Open[id] = 0 /\ Owner[id] = Null
  /\ \A order, other \in Orders : IsLive(order) /\ IsLive(other) /\ order.id = other.id =>
       order = other

LEMMA LiveStakes == IInv /\ Fresh => Stakes
<1> SUFFICES ASSUME IInv, Fresh PROVE Stakes
  OBVIOUS
<1>1. TypeOK /\ InHand /\ NodesAreIndexed /\ ParkedIsIndexed
  BY IInvParts DEF BookIndexed, StopsIndexed
<1>2. Executing => taker \in Orders /\ taker # Null
  BY <1>1 DEF InHand, TypeOK
<1>3. /\ index \in [Ids -> Addresses \union {Null}]
      /\ nodes \in [Ids -> Orders \union {Null}]
      /\ stops \in [Sides -> [Prices -> Seq(Orders)]]
  BY <1>1 DEF TypeOK
<1>4. ASSUME NEW order \in Orders, IsLive(order)
      PROVE  LiveOrder(order.id) = order
  <2>1. order.id \in Ids /\ order # Null
    BY NullAssumption DEF Orders
  <2>2. CASE Executing /\ order = taker
    BY <2>2 DEF LiveOrder
  <2>3. CASE order = nodes[order.id]
    <3>1. index[order.id] # Null
      BY <2>1, <2>3, <1>1 DEF NodesAreIndexed
    <3>2. ~(Executing /\ taker.id = order.id)
      BY <3>1 DEF Fresh
    <3> QED
      BY <2>1, <2>3, <3>2 DEF LiveOrder
  <2>4. CASE Parked(order)
    <3>1. PICK s \in Sides, t \in Prices : \E i \in 1 .. Len(stops[s][t]) : stops[s][t][i] = order
      BY <2>4 DEF Parked
    <3>2. PICK i \in 1 .. Len(stops[s][t]) : stops[s][t][i] = order
      BY <3>1
    <3>3. index[order.id] = StopAddress(s, t)
      BY <3>2, <1>1 DEF ParkedIsIndexed
    <3>4. index[order.id] # Null /\ index[order.id].kind = "stop"
          /\ index[order.id].side = s /\ index[order.id].price = t
      BY <3>3, AddressParts
    <3>5. ~(Executing /\ taker.id = order.id) /\ nodes[order.id] = Null
      BY <2>1, <3>4, <1>1 DEF Fresh, NodesAreIndexed
    <3>6. PICK j \in 1 .. Len(stops[s][t]) : ParkedOrder(order.id) = stops[s][t][j]
      BY <2>1, <3>4, ParkedIsFound
    <3>7. stops[s][t][j].id = order.id
      BY <2>1, <3>4, <3>6, ParkedIsFound
    <3>8. i = j
      BY <3>2, <3>7, <1>1 DEF ParkedIsIndexed
    <3> QED
      BY <3>2, <3>4, <3>5, <3>6, <3>8 DEF LiveOrder
  <2> QED
    BY <1>4, <2>2, <2>3, <2>4 DEF IsLive
<1>5. ASSUME NEW id \in Ids, LiveOrder(id) # Null
      PROVE  LiveOrder(id) \in Orders /\ IsLive(LiveOrder(id)) /\ LiveOrder(id).id = id
  <2>1. CASE Executing /\ taker.id = id
    BY <2>1, <1>2 DEF LiveOrder, IsLive
  <2>2. CASE ~(Executing /\ taker.id = id) /\ nodes[id] # Null
    <3>1. LiveOrder(id) = nodes[id]
      BY <2>2 DEF LiveOrder
    <3>2. nodes[id] \in Orders /\ nodes[id].id = id
      BY <2>2, <1>1, <1>3 DEF NodesAreIndexed
    <3> QED
      BY <3>1, <3>2 DEF IsLive
  <2>3. CASE ~(Executing /\ taker.id = id) /\ nodes[id] = Null
    <3>1. index[id] # Null /\ LiveOrder(id) = ParkedOrder(id)
      BY <1>5, <2>3 DEF LiveOrder
    <3>2. index[id].kind = "stop"
      <4>1. index[id].kind # "book"
        BY <2>3, <3>1, <1>1 DEF NodesAreIndexed
      <4> QED
        BY <3>1, <4>1, <1>3, AddressCases
    <3>3. /\ index[id].side \in Sides /\ index[id].price \in Prices
          /\ \E i \in 1 .. Len(stops[index[id].side][index[id].price]) :
               ParkedOrder(id) = stops[index[id].side][index[id].price][i]
          /\ ParkedOrder(id) \in Orders /\ ParkedOrder(id).id = id
      BY <3>1, <3>2, ParkedIsFound
    <3>4. Parked(ParkedOrder(id))
      BY <3>3 DEF Parked
    <3> QED
      BY <3>1, <3>3, <3>4 DEF IsLive
  <2> QED
    BY <2>1, <2>2, <2>3
<1>6. ASSUME NEW id \in Ids
      PROVE  /\ Open[id] = IF LiveOrder(id) = Null THEN 0 ELSE LiveOrder(id).remaining
             /\ Owner[id] = IF LiveOrder(id) = Null THEN Null ELSE LiveOrder(id).client
  BY DEF Open, Owner
<1>7. \A order \in Orders : order.id \in Ids /\ order.remaining \in Nat /\ order.client \in Clients
                            /\ order # Null
  BY NullAssumption DEF Orders
<1>8. Open \in [Ids -> Nat] /\ Owner \in [Ids -> Clients \union {Null}]
  <2>1. \A id \in Ids : Open[id] \in Nat /\ Owner[id] \in Clients \union {Null}
    BY <1>5, <1>6, <1>7
  <2>2. Open = [id \in Ids |-> Open[id]] /\ Owner = [id \in Ids |-> Owner[id]]
    BY DEF Open, Owner
  <2> QED
    BY <2>1, <2>2
<1>9. \A order \in Orders : IsLive(order) =>
        Open[order.id] = order.remaining /\ Owner[order.id] = order.client
  BY <1>4, <1>6, <1>7
<1>10. \A id \in Ids : (\A order \in Orders : IsLive(order) => order.id # id) =>
         Open[id] = 0 /\ Owner[id] = Null
  BY <1>5, <1>6
<1>11. \A order, other \in Orders :
         IsLive(order) /\ IsLive(other) /\ order.id = other.id => order = other
  BY <1>4
<1> QED
  BY <1>8, <1>9, <1>10, <1>11 DEF Stakes

\* An order that leaves the stop book was parked there once, and the others stay.
LEMMA UnparkTakes ==
  ASSUME IInv, NEW side \in Sides, NEW trigger \in Prices,
         NEW k \in 1 .. Len(stops[side][trigger]), Unpark(side, trigger, k)
  PROVE  /\ Parked(stops[side][trigger][k])
         /\ \A order \in Orders :
              Parked(order)' <=> Parked(order) /\ order # stops[side][trigger][k]
<1> DEFINE q == stops[side][trigger]
           r == RemoveAt(q, k)
<1>1. /\ stops \in [Sides -> [Prices -> Seq(Orders)]]
      /\ ParkedIsIndexed
  BY IInvParts DEF TypeOK, StopsIndexed
<1>2. q \in Seq(Orders) /\ Len(q) \in Nat
  BY <1>1, LenProperties
<1>3. /\ Len(r) = Len(q) - 1
      /\ \A j \in 1 .. Len(q) - 1 : r[j] = IF j < k THEN q[j] ELSE q[j+1]
  BY <1>2, RemoveAtElements
<1>4. stops' = [stops EXCEPT ![side][trigger] = r]
  BY DEF Unpark
<1> HIDE DEF r
<1>5. /\ stops[side][trigger] = q /\ stops'[side][trigger] = r
      /\ \A s \in Sides, t \in Prices : s # side \/ t # trigger => stops'[s][t] = stops[s][t]
  BY <1>1, <1>4
<1>6. \A i, j \in 1 .. Len(q) : q[i] = q[j] => i = j
  BY <1>1 DEF ParkedIsIndexed
<1>7. ASSUME NEW s \in Sides, NEW t \in Prices, s # side \/ t # trigger,
             NEW i \in 1 .. Len(stops[s][t])
      PROVE  stops[s][t][i] # q[k]
  <2>1. index[stops[s][t][i].id] = StopAddress(s, t) /\ index[q[k].id] = StopAddress(side, trigger)
    BY <1>1 DEF ParkedIsIndexed
  <2>2. StopAddress(s, t) # StopAddress(side, trigger)
    BY <1>7, AddressParts
  <2> QED
    BY <2>1, <2>2
<1> HIDE DEF q
<1>8. ASSUME NEW order, NEW j \in 1 .. Len(r), r[j] = order
      PROVE  order # q[k] /\ \E i \in 1 .. Len(q) : q[i] = order
  <2>1. CASE j < k
    BY <1>2, <1>3, <1>6, <1>8, <2>1 DEF q
  <2>2. CASE ~(j < k)
    <3>1. j + 1 \in 1 .. Len(q) /\ j + 1 # k /\ r[j] = q[j+1]
      BY <1>2, <1>3, <2>2 DEF q
    <3> QED
      BY <3>1, <1>6, <1>8 DEF q
  <2> QED
    BY <2>1, <2>2
<1>9. ASSUME NEW order, order # q[k], NEW i \in 1 .. Len(q), q[i] = order
      PROVE  \E j \in 1 .. Len(r) : r[j] = order
  <2>1. CASE i < k
    <3>1. i \in 1 .. Len(r) /\ r[i] = q[i]
      BY <1>2, <1>3, <2>1 DEF q
    <3> QED
      BY <3>1, <1>9
  <2>2. CASE ~(i < k)
    <3>1. i # k
      BY <1>9
    <3>2. i - 1 \in 1 .. Len(r) /\ r[i-1] = q[i]
      BY <1>2, <1>3, <2>2, <3>1 DEF q
    <3> QED
      BY <3>2, <1>9
  <2> QED
    BY <2>1, <2>2
<1>10. ASSUME NEW order \in Orders
       PROVE  Parked(order)' <=> Parked(order) /\ order # q[k]
  <2>1. ASSUME NEW s \in Sides, NEW t \in Prices
        PROVE  (\E i \in 1 .. Len(stops'[s][t]) : stops'[s][t][i] = order)
                 <=> (\E i \in 1 .. Len(stops[s][t]) : stops[s][t][i] = order) /\ order # q[k]
    <3>1. CASE s = side /\ t = trigger
      <4>1. stops[s][t] = q /\ stops'[s][t] = r
        BY <3>1, <1>5
      <4>2. ASSUME NEW j \in 1 .. Len(r), r[j] = order
            PROVE  order # q[k] /\ \E i \in 1 .. Len(q) : q[i] = order
        BY <4>2, <1>8
      <4>3. ASSUME order # q[k], NEW i \in 1 .. Len(q), q[i] = order
            PROVE  \E j \in 1 .. Len(r) : r[j] = order
        BY <4>3, <1>9
      <4> QED
        BY <4>1, <4>2, <4>3
    <3>2. CASE s # side \/ t # trigger
      BY <3>2, <1>5, <1>7
    <3> QED
      BY <3>1, <3>2
  <2> QED
    BY <2>1 DEF Parked
<1>11. Parked(q[k])
  BY DEF Parked, q
<1> QED
  BY <1>10, <1>11 DEF q

\* A stop that parks joins the others.
LEMMA ParkAdds ==
  ASSUME IInv, Park
  PROVE  \A order \in Orders : Parked(order)' <=> Parked(order) \/ order = taker
<1> DEFINE side == taker.side
           trigger == taker.type.trigger
           q == stops[side][trigger]
<1>1. TypeOK /\ InHand /\ Executing
  BY IInvParts DEF Park, Executing
<1>2. taker \in Orders
  BY <1>1 DEF InHand, TypeOK
<1>3. side \in Sides /\ trigger \in Prices
  BY <1>2, OrderTypeParts DEF Orders, Park
<1>4. /\ stops \in [Sides -> [Prices -> Seq(Orders)]]
      /\ stops' = [stops EXCEPT ![side][trigger] = Append(q, taker)]
  BY <1>1 DEF Park, TypeOK
<1>5. q \in Seq(Orders) /\ Len(q) \in Nat
  BY <1>3, <1>4, LenProperties
<1>6. /\ stops'[side][trigger] = Append(q, taker)
      /\ \A s \in Sides, t \in Prices : s # side \/ t # trigger => stops'[s][t] = stops[s][t]
  BY <1>3, <1>4
<1>7. /\ Len(Append(q, taker)) = Len(q) + 1
      /\ \A j \in 1 .. Len(q) : Append(q, taker)[j] = q[j]
      /\ Append(q, taker)[Len(q) + 1] = taker
  <2> HIDE DEF q
  <2> QED
    BY <1>2, <1>5, AppendProperties
<1> SUFFICES ASSUME NEW order \in Orders
             PROVE  Parked(order)' <=> Parked(order) \/ order = taker
  OBVIOUS
<1>8. (\E i \in 1 .. Len(stops'[side][trigger]) : stops'[side][trigger][i] = order)
        <=> (\E i \in 1 .. Len(q) : q[i] = order) \/ order = taker
  <2> DEFINE r == Append(q, taker)
  <2> HIDE DEF r, q
  <2>1. stops'[side][trigger] = r
    BY <1>6 DEF r
  <2>2. Len(r) = Len(q) + 1 /\ (\A j \in 1 .. Len(q) : r[j] = q[j]) /\ r[Len(q) + 1] = taker
    BY <1>7 DEF r
  <2>3. \A j \in 1 .. Len(r) : j \in 1 .. Len(q) \/ j = Len(q) + 1
    BY <1>5, <2>2
  <2>4. Len(q) + 1 \in 1 .. Len(r) /\ \A j \in 1 .. Len(q) : j \in 1 .. Len(r)
    BY <1>5, <2>2
  <2> QED
    BY <2>1, <2>2, <2>3, <2>4
<1>9. ASSUME NEW s \in Sides, NEW t \in Prices, s # side \/ t # trigger
      PROVE  (\E i \in 1 .. Len(stops'[s][t]) : stops'[s][t][i] = order)
               <=> \E i \in 1 .. Len(stops[s][t]) : stops[s][t][i] = order
  BY <1>6, <1>9
<1> HIDE DEF side, trigger
<1> QED
  BY <1>3, <1>8, <1>9 DEF Parked

\* Live orders that stay as they are, or are the same order in another shape,
\* leave the ledger as it is.
LEMMA LedgerStill ==
  ASSUME Stakes, Stakes', nextSeq' = nextSeq,
         \A id \in Ids :
           /\ \A order \in Orders : IsLive(order) /\ order.id = id =>
                \E now \in Orders : /\ IsLive(now)' /\ now.id = id
                                    /\ now.remaining = order.remaining /\ now.client = order.client
           /\ \A now \in Orders : IsLive(now)' /\ now.id = id =>
                \E order \in Orders : IsLive(order) /\ order.id = id
  PROVE  UNCHANGED <<1 .. nextSeq - 1, Open, Owner>>
<1>1. ASSUME NEW id \in Ids PROVE Open'[id] = Open[id] /\ Owner'[id] = Owner[id]
  <2>1. CASE \E order \in Orders : IsLive(order) /\ order.id = id
    <3>1. PICK order \in Orders : IsLive(order) /\ order.id = id
      BY <2>1
    <3>2. PICK now \in Orders : /\ IsLive(now)' /\ now.id = id
                                /\ now.remaining = order.remaining /\ now.client = order.client
      BY <3>1
    <3>3. Open[id] = order.remaining /\ Owner[id] = order.client
      BY <3>1 DEF Stakes
    <3>4. Open'[id] = now.remaining /\ Owner'[id] = now.client
      BY <3>2 DEF Stakes
    <3> QED
      BY <3>2, <3>3, <3>4
  <2>2. CASE \A order \in Orders : IsLive(order) => order.id # id
    <3>1. \A now \in Orders : IsLive(now)' => now.id # id
      BY <2>2
    <3>2. Open[id] = 0 /\ Owner[id] = Null
      BY <2>2 DEF Stakes
    <3>3. Open'[id] = 0 /\ Owner'[id] = Null
      BY <3>1 DEF Stakes
    <3> QED
      BY <3>2, <3>3
  <2> QED
    BY <2>1, <2>2
<1>2. /\ Open \in [Ids -> Nat] /\ Owner \in [Ids -> Clients \union {Null}]
      /\ Open' \in [Ids -> Nat] /\ Owner' \in [Ids -> Clients \union {Null}]
  BY DEF Stakes
<1>3. Open' = Open /\ Owner' = Owner
  BY <1>1, <1>2
<1> QED
  BY <1>3

\* An order that goes is retired from the ledger, and no other changes.
LEMMA LedgerRetires ==
  ASSUME Stakes, Stakes', nextSeq' = nextSeq, NEW gone \in Orders, IsLive(gone),
         \A order \in Orders : IsLive(order)' <=> IsLive(order) /\ order # gone
  PROVE  L!Retire
<1>1. gone.id \in Ids /\ gone.client \in Clients
  BY DEF Orders
<1>2. Owner[gone.id] = gone.client /\ gone.client # Null
  BY <1>1, NullAssumption DEF Stakes
<1>3. \A order \in Orders : IsLive(order)' => order.id # gone.id
  BY DEF Stakes
<1>4. Owner'[gone.id] = Null /\ Open'[gone.id] = 0
  BY <1>1, <1>3 DEF Stakes
<1>5. ASSUME NEW id \in Ids \ {gone.id} PROVE Open'[id] = Open[id] /\ Owner'[id] = Owner[id]
  <2>1. CASE \E order \in Orders : IsLive(order) /\ order.id = id
    <3>1. PICK order \in Orders : IsLive(order) /\ order.id = id
      BY <2>1
    <3>2. IsLive(order)'
      BY <3>1
    <3> QED
      BY <3>1, <3>2 DEF Stakes
  <2>2. CASE \A order \in Orders : IsLive(order) => order.id # id
    <3>1. \A order \in Orders : IsLive(order)' => order.id # id
      BY <2>2
    <3>2. Open[id] = 0 /\ Owner[id] = Null
      BY <2>2 DEF Stakes
    <3>3. Open'[id] = 0 /\ Owner'[id] = Null
      BY <3>1 DEF Stakes
    <3> QED
      BY <3>2, <3>3
  <2> QED
    BY <2>1, <2>2
<1>6. UNCHANGED (1 .. nextSeq - 1)
  OBVIOUS
<1> QED
  BY <1>1, <1>2, <1>4, <1>5, <1>6 DEF L!Retire

LEMMA LedgerSwaps ==
  ASSUME Stakes, Stakes', nextSeq' = nextSeq,
         NEW order \in Orders, IsLive(order), NEW now \in Orders,
         now.id = order.id, now.remaining = order.remaining, now.client = order.client,
         \A other \in Orders : IsLive(other)' <=> (IsLive(other) /\ other # order) \/ other = now
  PROVE  UNCHANGED <<1 .. nextSeq - 1, Open, Owner>>
<1>1. ASSUME NEW id \in Ids
      PROVE  /\ \A o \in Orders : IsLive(o) /\ o.id = id =>
                  \E n \in Orders : /\ IsLive(n)' /\ n.id = id
                                    /\ n.remaining = o.remaining /\ n.client = o.client
             /\ \A n \in Orders : IsLive(n)' /\ n.id = id =>
                  \E o \in Orders : IsLive(o) /\ o.id = id
  OBVIOUS
<1> QED
  BY <1>1, LedgerStill

\* The order in hand is nowhere else.
LEMMA HandIsApart ==
  ASSUME IInv, Fresh, Executing
  PROVE  /\ taker \in Orders /\ taker.id \in Ids /\ IsLive(taker)
         /\ nodes[taker.id] = Null
         /\ \A order \in Orders : order.id = taker.id => ~Parked(order)
<1>1. TypeOK /\ InHand /\ NodesAreIndexed /\ ParkedIsIndexed
  BY IInvParts DEF BookIndexed, StopsIndexed
<1>2. taker \in Orders /\ taker.id \in Ids
  BY <1>1 DEF InHand, TypeOK, Orders
<1>3. index[taker.id] = Null
  BY DEF Fresh
<1>4. nodes[taker.id] = Null
  BY <1>1, <1>2, <1>3 DEF NodesAreIndexed
<1>5. ASSUME NEW order \in Orders, Parked(order) PROVE index[order.id] # Null
  BY <1>1, <1>5, AddressParts DEF Parked, ParkedIsIndexed
<1> QED
  BY <1>2, <1>3, <1>4, <1>5 DEF IsLive

\* When an execution is over and its order nowhere else, the order is gone.
LEMMA HandEnds ==
  ASSUME IInv, Fresh, Executing, ~Executing', UNCHANGED <<nodes, stops>>
  PROVE  \A order \in Orders : IsLive(order)' <=> IsLive(order) /\ order # taker
<1> SUFFICES ASSUME NEW order \in Orders
             PROVE  IsLive(order)' <=> IsLive(order) /\ order # taker
  OBVIOUS
<1>1. Parked(order)' <=> Parked(order)
  BY DEF Parked
<1>2. order # Null
  BY NullAssumption
<1>3. order = taker => order # nodes[order.id] /\ ~Parked(order)
  BY <1>2, HandIsApart
<1> QED
  BY <1>1, <1>3 DEF IsLive

LEMMA HandStays ==
  ASSUME UNCHANGED <<nodes, stops>>, Executing' <=> Executing, Executing => taker' = taker
  PROVE  \A order \in Orders : IsLive(order)' <=> IsLive(order)
<1> SUFFICES ASSUME NEW order \in Orders PROVE IsLive(order)' <=> IsLive(order)
  OBVIOUS
<1>1. Parked(order)' <=> Parked(order)
  BY DEF Parked
<1> QED
  BY <1>1 DEF IsLive

\* An order unlinked from the book is gone.
LEMMA UnlinkDrops ==
  ASSUME IInv, Fresh, NEW side \in Sides, NEW price \in Prices, NEW id \in Ids,
         Unlink(side, price, id), UNCHANGED <<stops, taker>>, Executing' <=> Executing
  PROVE  /\ nodes[id] \in Orders /\ IsLive(nodes[id])
         /\ \A order \in Orders : IsLive(order)' <=> IsLive(order) /\ order # nodes[id]
<1>1. TypeOK /\ NodesAreIndexed /\ ParkedIsIndexed
  BY IInvParts DEF BookIndexed, StopsIndexed
<1>2. PICK i \in DOMAIN queue[side][price] : queue[side][price][i] = id
  BY DEF Unlink
<1>3. i \in 1 .. Len(queue[side][price])
  BY <1>1, <1>2, LenProperties DEF TypeOK
<1>4. nodes[id] \in Orders /\ index[id] = BookAddress(side, price)
  BY <1>2, <1>3, QueuedOrder
<1>5. nodes[id] # Null /\ nodes[id].id = id
  BY <1>1, <1>4, NullAssumption, AddressParts DEF NodesAreIndexed
<1>6. nodes \in [Ids -> Orders \union {Null}] /\ nodes' = [nodes EXCEPT ![id] = Null]
  BY <1>1 DEF TypeOK, Unlink
<1>7. ~Parked(nodes[id])
  BY <1>1, <1>4, <1>5, AddressParts DEF Parked, ParkedIsIndexed
<1>8. ~(Executing /\ nodes[id] = taker)
  BY <1>4, <1>5, AddressParts DEF Fresh
<1>9. ASSUME NEW order \in Orders
      PROVE  IsLive(order)' <=> IsLive(order) /\ order # nodes[id]
  <2>1. Parked(order)' <=> Parked(order)
    BY DEF Parked
  <2>2. order.id \in Ids /\ order # Null
    BY NullAssumption DEF Orders
  <2>3. order = nodes'[order.id] <=> order = nodes[order.id] /\ order # nodes[id]
    BY <1>5, <1>6, <2>2
  <2> QED
    BY <1>7, <1>8, <2>1, <2>3 DEF IsLive
<1>10. IsLive(nodes[id])
  BY <1>4, <1>5 DEF IsLive
<1> QED
  BY <1>4, <1>9, <1>10

\* The ledger adds up as the engine does.
LEMMA LedgerSum == ASSUME NEW f PROVE L!SumFunction(f) = SumFunctionOnSet(f, DOMAIN f)
BY Zenon DEF L!SumFunction, L!SumFunctionOnSet, L!FoldFunctionOnSet, L!MapThenFoldSet,
   SumFunctionOnSet, FoldFunctionOnSet, MapThenFoldSet

\* An allocation is a trade: what the makers lose is what the taker loses, and
\* none of them is the taker's own.
LEMMA LedgerTrades ==
  ASSUME IInv, Fresh, Stakes, Stakes', Allocate
  PROVE  L!Trade
<1>1. TypeOK /\ NodesAreIndexed /\ Executing /\ Executing' /\ UNCHANGED <<stops, nextSeq>>
  BY IInvParts DEF BookIndexed, Allocate, Executing, stopBook, counters
<1>2. PICK given \in [Ids -> Nat] :
        /\ \A id \in Ids : given[id] # 0 =>
             /\ nodes[id] \in Orders
             /\ nodes[id].client # taker.client
             /\ given[id] <= nodes[id].remaining
        /\ \A id \in Ids : given[id] = 0 => nodes'[id] = nodes[id]
        /\ \A id \in Ids : nodes[id] # Null =>
             nodes'[id] = [nodes[id] EXCEPT !.remaining = @ - given[id]]
        /\ taker' = [taker EXCEPT !.remaining = @ - SumFunctionOnSet(given, Ids)]
        /\ SumFunctionOnSet(given, Ids) \in 0 .. taker.remaining
  BY AllocateTotals
<1>3. /\ taker \in Orders /\ taker.id \in Ids /\ IsLive(taker)
      /\ nodes[taker.id] = Null
      /\ \A order \in Orders : order.id = taker.id => ~Parked(order)
  BY <1>1, HandIsApart
<1>4. taker' \in Orders /\ taker'.id = taker.id /\ taker'.client = taker.client
      /\ taker'.remaining = taker.remaining - SumFunctionOnSet(given, Ids)
  BY <1>2, <1>3, AllocateEffect DEF Orders
<1>5. IsLive(taker)'
  BY <1>1, <1>4 DEF IsLive
<1>6. /\ Open[taker.id] = taker.remaining /\ Owner[taker.id] = taker.client
      /\ Open'[taker.id] = taker.remaining - SumFunctionOnSet(given, Ids)
      /\ Owner'[taker.id] = taker.client
  BY <1>3, <1>4, <1>5 DEF Stakes
<1>7. ASSUME NEW id \in Ids \ {taker.id}
      PROVE  /\ Owner'[id] = Owner[id]
             /\ Open'[id] = Open[id] - given[id]
             /\ given[id] # 0 => Owner[id] # taker.client /\ given[id] <= Open[id]
  <2>1. CASE nodes[id] # Null
    <3>1. nodes[id] \in Orders /\ nodes[id].id = id
      BY <1>1, <2>1 DEF TypeOK, NodesAreIndexed
    <3>2. nodes[id].remaining \in Nat /\ given[id] \in Nat /\ given[id] <= nodes[id].remaining
      BY <1>2, <3>1 DEF Orders
    <3>3. nodes'[id] = [nodes[id] EXCEPT !.remaining = @ - given[id]]
      BY <1>2, <2>1
    <3>4. /\ nodes'[id] \in Orders /\ nodes'[id].id = id
          /\ nodes'[id].client = nodes[id].client
          /\ nodes'[id].remaining = nodes[id].remaining - given[id]
      BY <3>1, <3>2, <3>3 DEF Orders
    <3>5. IsLive(nodes[id]) /\ IsLive(nodes[id])'
      BY <3>1, <3>4 DEF IsLive
    <3>6. /\ Open[id] = nodes[id].remaining /\ Owner[id] = nodes[id].client
          /\ Open'[id] = nodes'[id].remaining /\ Owner'[id] = nodes'[id].client
      BY <3>1, <3>4, <3>5 DEF Stakes
    <3> QED
      BY <1>2, <3>2, <3>4, <3>6
  <2>2. CASE nodes[id] = Null
    <3>1. given[id] = 0 /\ nodes'[id] = Null
      BY <1>2, <2>2, NullAssumption
    <3>2. ASSUME NEW order \in Orders, order.id = id
          PROVE  IsLive(order)' <=> IsLive(order)
      <4>1. Parked(order)' <=> Parked(order)
        BY <1>1 DEF Parked
      <4>2. order # Null /\ order # taker /\ order # taker'
        BY <1>4, <3>2, NullAssumption
      <4> QED
        BY <2>2, <3>1, <3>2, <4>1, <4>2 DEF IsLive
    <3>3. CASE \E order \in Orders : IsLive(order) /\ order.id = id
      <4>1. PICK order \in Orders : IsLive(order) /\ order.id = id
        BY <3>3
      <4>2. IsLive(order)'
        BY <3>2, <4>1
      <4>3. Open'[id] = Open[id] /\ Owner'[id] = Owner[id] /\ Open[id] \in Nat
        BY <4>1, <4>2 DEF Stakes
      <4> QED
        BY <3>1, <4>3
    <3>4. CASE \A order \in Orders : IsLive(order) => order.id # id
      <4>1. \A order \in Orders : IsLive(order)' => order.id # id
        BY <3>2, <3>4
      <4>2. Open[id] = 0 /\ Owner[id] = Null
        BY <3>4 DEF Stakes
      <4>3. Open'[id] = 0 /\ Owner'[id] = Null
        BY <4>1 DEF Stakes
      <4> QED
        BY <3>1, <4>2, <4>3
    <3> QED
      BY <3>3, <3>4
  <2> QED
    BY <2>1, <2>2
<1>8. Open \in [Ids -> Nat] /\ Open' \in [Ids -> Nat]
  BY DEF Stakes
<1> DEFINE makers == {id \in Ids \ {taker.id} : Open'[id] # Open[id]}
           lost == [id \in makers |-> Open[id] - Open'[id]]
<1>9. \A id \in makers : /\ 0 <= Open'[id] /\ Open'[id] < Open[id]
                         /\ Owner[id] # Owner[taker.id]
                         /\ lost[id] = given[id] /\ given[id] \in Nat
  <2> SUFFICES ASSUME NEW id \in makers
               PROVE  /\ 0 <= Open'[id] /\ Open'[id] < Open[id]
                      /\ Owner[id] # Owner[taker.id]
                      /\ lost[id] = given[id] /\ given[id] \in Nat
    OBVIOUS
  <2>1. Open[id] \in Nat /\ Open'[id] \in Nat /\ given[id] \in Nat
    BY <1>8
  <2>2. Open'[id] = Open[id] - given[id] /\ Open'[id] # Open[id]
    BY <1>7
  <2>3. given[id] # 0
    BY <2>1, <2>2
  <2> QED
    BY <1>6, <1>7, <2>1, <2>2, <2>3
<1>10. \A id \in Ids \ makers : given[id] = 0
  <2>1. given[taker.id] = 0
    BY <1>2, <1>3, NullAssumption
  <2>2. ASSUME NEW id \in Ids \ {taker.id}, Open'[id] = Open[id] PROVE given[id] = 0
    <3>1. Open'[id] = Open[id] - given[id] /\ Open[id] \in Nat /\ given[id] \in Nat
      BY <1>7, <1>8
    <3> QED
      BY <2>2, <3>1
  <2> QED
    BY <2>1, <2>2
<1>11. L!SumFunction(lost) = SumFunctionOnSet(given, Ids)
  <2>1. makers \in SUBSET Ids /\ IsFiniteSet(makers)
    BY IdsAreFinite, FS_Subset
  <2>2. L!SumFunction(lost) = SumFunctionOnSet(lost, makers)
    <3>1. DOMAIN lost = makers
      OBVIOUS
    <3> HIDE DEF lost
    <3> QED
      BY <3>1, LedgerSum
  <2> HIDE DEF makers, lost
  <2>3. SumFunctionOnSet(lost, makers) = SumFunctionOnSet(given, makers)
    BY <1>9, <2>1, SumSame
  <2>4. SumFunctionOnSet(given, Ids) = SumFunctionOnSet(given, makers)
    <3>1. \A id \in Ids : given[id] \in Int
      BY <1>2
    <3> QED
      BY <1>10, <2>1, <3>1, IdsAreFinite, SumOfPart
  <2> QED
    BY <2>2, <2>3, <2>4
<1>12. Owner' = Owner
  <2>1. \A id \in Ids : Owner'[id] = Owner[id]
    BY <1>6, <1>7
  <2>2. Owner \in [Ids -> Clients \union {Null}] /\ Owner' \in [Ids -> Clients \union {Null}]
    BY DEF Stakes
  <2> QED
    BY <2>1, <2>2
<1>13. 0 <= Open'[taker.id]
       /\ Open[taker.id] - Open'[taker.id] = SumFunctionOnSet(given, Ids)
  BY <1>2, <1>3, <1>6 DEF Orders
<1>14. UNCHANGED (1 .. nextSeq - 1)
  BY <1>1
<1>15. /\ \A id \in makers : /\ 0 <= Open'[id] /\ Open'[id] < Open[id]
                             /\ Owner[id] # Owner[taker.id]
       /\ 0 <= Open'[taker.id]
       /\ Open[taker.id] - Open'[taker.id] = L!SumFunction(lost)
  BY <1>9, <1>11, <1>13
<1>16. \E hand \in Ids :
         LET losers == {id \in Ids \ {hand} : Open'[id] # Open[id]}
         IN  /\ \A id \in losers : /\ 0 <= Open'[id] /\ Open'[id] < Open[id]
                                    /\ Owner[id] # Owner[hand]
             /\ 0 <= Open'[hand]
             /\ Open[hand] - Open'[hand] = L!SumFunction([id \in losers |-> Open[id] - Open'[id]])
  <2>1. taker.id \in Ids
    BY <1>3
  <2> WITNESS taker.id \in Ids
  <2> QED
    BY <1>15
<1> QED
  BY <1>12, <1>14, <1>16 DEF L!Trade

\* A submission is accepted under an id never used.
LEMMA LedgerAccepts ==
  ASSUME IInv, Fresh, Stakes, Stakes', NEW request \in Requests, Submit(request)
  PROVE  L!Accept
<1>1. /\ ~Executing /\ Executing' /\ UNCHANGED <<nodes, stops>>
      /\ nextSeq' = nextSeq + 1 /\ nextSeq <= MaxSeq
      /\ taker' = OrderOf(request, nextSeq)
  BY DEF Submit, Executing, book, stopBook
<1>2. nextSeq \in Nat \ {0} /\ nextSeq \in Ids
  BY <1>1, IInvParts, OrderBookAssumption DEF TypeOK, Ids
<1>3. taker' \in Orders /\ taker'.id = nextSeq
  BY <1>1, <1>2, OrderOfType DEF OrderOf
<1>4. \A order \in Orders : IsLive(order)' <=> IsLive(order) \/ order = taker'
  <2> SUFFICES ASSUME NEW order \in Orders
               PROVE  IsLive(order)' <=> IsLive(order) \/ order = taker'
    OBVIOUS
  <2>1. Parked(order)' <=> Parked(order)
    BY <1>1 DEF Parked
  <2> QED
    BY <1>1, <2>1 DEF IsLive
<1>5. Owner'[nextSeq] # Null
  <2>1. IsLive(taker)'
    BY <1>1, <1>3 DEF IsLive
  <2>2. Owner'[nextSeq] = taker'.client
    BY <1>3, <2>1 DEF Stakes
  <2> QED
    BY <1>3, <2>2, NullAssumption DEF Orders
<1>6. ASSUME NEW id \in Ids \ {nextSeq} PROVE Open'[id] = Open[id] /\ Owner'[id] = Owner[id]
  <2>1. \A order \in Orders : order.id = id => (IsLive(order)' <=> IsLive(order))
    BY <1>3, <1>4
  <2>2. CASE \E order \in Orders : IsLive(order) /\ order.id = id
    BY <2>1, <2>2 DEF Stakes
  <2>3. CASE \A order \in Orders : IsLive(order) => order.id # id
    <3>1. \A order \in Orders : IsLive(order)' => order.id # id
      BY <2>1, <2>3
    <3>2. Open[id] = 0 /\ Owner[id] = Null
      BY <2>3 DEF Stakes
    <3>3. Open'[id] = 0 /\ Owner'[id] = Null
      BY <3>1 DEF Stakes
    <3> QED
      BY <3>2, <3>3
  <2> QED
    BY <2>2, <2>3
<1>7. (1 .. nextSeq - 1)' = (1 .. nextSeq - 1) \union {nextSeq} /\ nextSeq \notin 1 .. nextSeq - 1
  BY <1>1, <1>2
<1> QED
  BY <1>2, <1>5, <1>6, <1>7 DEF L!Accept

\* Every step of the engine is a step of the ledger, or moves no quantity.
LEMMA LedgerSteps ==
  ASSUME CallerIds = {}, IInv, Fresh, Stakes, Stakes', [Next]_vars
  PROVE  [L!LedgerNext]_<<1 .. nextSeq - 1, Open, Owner>>
<1> DEFINE Still == UNCHANGED <<1 .. nextSeq - 1, Open, Owner>>
<1>1. TypeOK /\ IInv
  BY IInvParts
<1>2. ASSUME nextSeq' = nextSeq, \A order \in Orders : IsLive(order)' <=> IsLive(order)
      PROVE  Still
  BY <1>2, LedgerStill
<1>3. CASE UNCHANGED vars
  <2>1. UNCHANGED <<nodes, stops, pc, taker, nextSeq>>
    BY <1>3 DEF vars
  <2>2. \A order \in Orders : IsLive(order)' <=> IsLive(order)
    BY <2>1, HandStays DEF Executing
  <2> QED
    BY <1>2, <2>1, <2>2
<1>4. ASSUME NEW request \in Requests, Submit(request)
      PROVE  L!LedgerNext
  BY <1>4, LedgerAccepts DEF L!LedgerNext
<1>5. CASE StartSweep \/ TakeLevel \/ EndSweep \/ LeaveLevel \/ EndCascade
  <2>1. UNCHANGED <<nodes, stops, nextSeq>> /\ (Executing' <=> Executing) /\ (Executing => taker' = taker)
    BY <1>5 DEF StartSweep, TakeLevel, EndSweep, LeaveLevel, EndCascade, GoIdle, Executing, book,
       stopBook, counters
  <2> QED
    BY <1>2, <2>1, HandStays
<1>6. CASE KillUnfillable \/ SettleWithoutRest \/ SettleFails \/ SettlePanics
  <2>1. UNCHANGED <<nodes, stops, nextSeq>> /\ Executing /\ ~Executing'
    BY <1>6 DEF KillUnfillable, SettleWithoutRest, SettleFails, SettlePanics, GoIdle, Executing,
       book, stopBook, counters
  <2>2. \A order \in Orders : IsLive(order)' <=> IsLive(order) /\ order # taker
    BY <2>1, HandEnds
  <2> QED
    BY <2>1, <2>2, HandIsApart, LedgerRetires DEF L!LedgerNext
<1>7. CASE ActivateAtOnce
  <2>1. /\ UNCHANGED <<nodes, stops, nextSeq>> /\ Executing /\ Executing'
        /\ taker' = Activate(taker)
    BY <1>7 DEF ActivateAtOnce, Executing, book, stopBook, counters
  <2>2. /\ taker \in Orders /\ IsLive(taker) /\ nodes[taker.id] = Null
        /\ \A order \in Orders : order.id = taker.id => ~Parked(order)
    BY <2>1, HandIsApart
  <2> DEFINE now == Activate(taker)
  <2>3. now \in Orders /\ now.id = taker.id /\ now.remaining = taker.remaining
        /\ now.client = taker.client
    BY <2>2, ActivateType, ActivateKeeps
  <2> HIDE DEF now
  <2>4. \A order \in Orders : IsLive(order)' <=> (IsLive(order) /\ order # taker) \/ order = now
    <3> SUFFICES ASSUME NEW order \in Orders
                 PROVE  IsLive(order)' <=> (IsLive(order) /\ order # taker) \/ order = now
      OBVIOUS
    <3>1. Parked(order)' <=> Parked(order)
      BY <2>1 DEF Parked
    <3>2. order # Null
      BY NullAssumption
    <3> QED
      BY <2>1, <2>2, <3>1, <3>2 DEF IsLive, now
  <2> QED
    BY <2>1, <2>2, <2>3, <2>4, LedgerSwaps
<1>8. CASE Park
  <2>1. UNCHANGED <<nodes, nextSeq>> /\ Executing /\ ~Executing'
    BY <1>8 DEF Park, Executing, counters
  <2>2. IsLive(taker) /\ taker \in Orders
    BY <2>1, HandIsApart
  <2>3. \A order \in Orders : Parked(order)' <=> Parked(order) \/ order = taker
    BY <1>8, ParkAdds
  <2>4. \A order \in Orders : IsLive(order)' <=> IsLive(order)
    BY <2>1, <2>2, <2>3 DEF IsLive
  <2> QED
    BY <1>2, <2>1, <2>4
<1>9. CASE SettleByResting
  <2> DEFINE now == [taker EXCEPT !.arrival = nextArrival]
  <2>1. /\ UNCHANGED <<stops, nextSeq>> /\ Executing /\ ~Executing'
        /\ nodes' = [nodes EXCEPT ![taker.id] = now]
    BY <1>9 DEF SettleByResting, Rest, Executing, stopBook
  <2>2. /\ taker \in Orders /\ taker.id \in Ids /\ IsLive(taker) /\ nodes[taker.id] = Null
        /\ \A order \in Orders : order.id = taker.id => ~Parked(order)
    BY <2>1, HandIsApart
  <2>3. now \in Orders /\ now.id = taker.id /\ now.remaining = taker.remaining
        /\ now.client = taker.client
    <3>1. nextArrival \in Nat
      BY <1>1, OrderBookAssumption DEF TypeOK
    <3> QED
      BY <2>2, <3>1 DEF Orders
  <2> HIDE DEF now
  <2>4. \A order \in Orders : IsLive(order)' <=> (IsLive(order) /\ order # taker) \/ order = now
    <3> SUFFICES ASSUME NEW order \in Orders
                 PROVE  IsLive(order)' <=> (IsLive(order) /\ order # taker) \/ order = now
      OBVIOUS
    <3>1. Parked(order)' <=> Parked(order)
      BY <2>1 DEF Parked
    <3>2. order # Null /\ order.id \in Ids
      BY NullAssumption DEF Orders
    <3>3. order = nodes'[order.id] <=> order = now \/ (order.id # taker.id /\ order = nodes[order.id])
      BY <1>1, <2>1, <2>2, <2>3, <3>2 DEF TypeOK
    <3>4. order = nodes[order.id] => order.id # taker.id
      BY <2>2, <3>2
    <3>5. order = taker => ~Parked(order)
      BY <2>2
    <3> QED
      BY <2>1, <2>2, <3>1, <3>3, <3>4, <3>5 DEF IsLive
  <2> QED
    BY <2>1, <2>2, <2>3, <2>4, LedgerSwaps
<1>10. CASE Allocate
  BY <1>10, LedgerTrades DEF L!LedgerNext
<1>11. CASE CancelOwn \/ UnlinkExhausted
  <2>1. /\ UNCHANGED <<stops, taker, pc, nextSeq>> /\ Executing
        /\ \E id : Unlink(Opposite(taker.side), level, id) /\ id \in OwnIds \union Exhausted
        /\ pc \in {"stp", "unlink"}
    BY <1>11 DEF CancelOwn, UnlinkExhausted, Executing, stopBook, counters
  <2>2. Opposite(taker.side) \in Sides /\ level \in Prices
    BY <2>1, HandAndLevel, IInvParts
  <2>3. PICK id : Unlink(Opposite(taker.side), level, id) /\ id \in OwnIds \union Exhausted
    BY <2>1
  <2>4. id \in Ids
    <3>1. queue[Opposite(taker.side)][level] \in Seq(Ids)
      BY <1>1, <2>2 DEF TypeOK
    <3>2. \E i \in 1 .. Len(queue[Opposite(taker.side)][level]) :
            queue[Opposite(taker.side)][level][i] = id
      BY <2>3, <3>1, LenProperties DEF Unlink
    <3> QED
      BY <3>1, <3>2, ElementOfSeq
  <2>5. Executing' <=> Executing
    BY <2>1 DEF Executing
  <2>6. /\ nodes[id] \in Orders /\ IsLive(nodes[id])
        /\ \A order \in Orders : IsLive(order)' <=> IsLive(order) /\ order # nodes[id]
    BY <2>1, <2>2, <2>3, <2>4, <2>5, UnlinkDrops
  <2> QED
    BY <2>1, <2>6, LedgerRetires DEF L!LedgerNext
<1>12. ASSUME NEW id \in Ids, CancelResting(id)
       PROVE  L!LedgerNext
  <2>1. /\ UNCHANGED <<stops, taker, pc, nextSeq>> /\ index[id] # Null
        /\ Unlink(index[id].side, index[id].price, id)
    BY <1>12 DEF CancelResting, stopBook, counters
  <2>2. index[id].side \in Sides /\ index[id].price \in Prices
    BY <1>1, <2>1, AddressCases DEF TypeOK
  <2>3. Executing' <=> Executing
    BY <2>1 DEF Executing
  <2>4. /\ nodes[id] \in Orders /\ IsLive(nodes[id])
        /\ \A order \in Orders : IsLive(order)' <=> IsLive(order) /\ order # nodes[id]
    BY <2>1, <2>2, <2>3, UnlinkDrops
  <2> QED
    BY <2>1, <2>4, LedgerRetires DEF L!LedgerNext
<1>13. ASSUME NEW id \in Ids, CancelParked(id)
       PROVE  L!LedgerNext
  <2> DEFINE s == index[id].side
             t == index[id].price
  <2>1. /\ UNCHANGED <<nodes, taker, pc, nextSeq>> /\ pc = "idle" /\ index[id] # Null
        /\ \E i \in DOMAIN stops[s][t] : Unpark(s, t, i)
    BY <1>13 DEF CancelParked, counters
  <2>2. s \in Sides /\ t \in Prices
    BY <1>1, <2>1, AddressCases DEF TypeOK
  <2> HIDE DEF s, t
  <2>3. stops[s][t] \in Seq(Orders)
    BY <1>1, <2>2 DEF TypeOK
  <2>4. PICK i \in 1 .. Len(stops[s][t]) : Unpark(s, t, i)
    BY <2>1, <2>3, LenProperties
  <2> DEFINE gone == stops[s][t][i]
  <2>5. gone \in Orders
    BY <2>3, <2>4, ElementOfSeq
  <2>6. /\ Parked(gone)
        /\ \A order \in Orders : Parked(order)' <=> Parked(order) /\ order # gone
    BY <2>2, <2>4, UnparkTakes
  <2> HIDE DEF gone
  <2>7. gone # nodes[gone.id]
    <3>1. index[gone.id] = StopAddress(s, t)
      BY <2>2, <2>4, IInvParts DEF gone, StopsIndexed, ParkedIsIndexed
    <3>2. nodes[gone.id] = Null
      BY <2>2, <2>5, <3>1, AddressParts, IInvParts DEF BookIndexed, NodesAreIndexed, Orders
    <3> QED
      BY <2>5, <3>2, NullAssumption
  <2>8. \A order \in Orders : IsLive(order)' <=> IsLive(order) /\ order # gone
    BY <2>1, <2>6, <2>7 DEF IsLive, Executing
  <2>9. IsLive(gone)
    BY <2>5, <2>6 DEF IsLive
  <2> QED
    BY <2>1, <2>5, <2>8, <2>9, LedgerRetires DEF L!LedgerNext
<1>14. ASSUME NEW side \in Sides, FireStop(side)
       PROVE  Still
  <2> DEFINE t == NearestTrigger(side)
             stop == stops[side][t][1]
             now == Activate(stop)
  <2>1. /\ t \in Prices /\ 1 \in 1 .. Len(stops[side][t])
        /\ stop \in Orders /\ stop.id \in Ids
        /\ index[stop.id] = StopAddress(side, t)
        /\ Unpark(side, t, 1) /\ taker' = now
    BY <1>14, FireTakes
  <2>2. UNCHANGED <<nodes, nextSeq>> /\ ~Executing /\ Executing'
    BY <1>14 DEF FireStop, counters, Executing
  <2> HIDE DEF t
  <2>3. /\ Parked(stop)
        /\ \A order \in Orders : Parked(order)' <=> Parked(order) /\ order # stop
    BY <2>1, UnparkTakes
  <2>4. now \in Orders /\ now.id = stop.id /\ now.remaining = stop.remaining
        /\ now.client = stop.client
    BY <2>1, ActivateType, ActivateKeeps
  <2> HIDE DEF stop, now
  <2>5. stop # nodes[stop.id]
    <3>1. nodes[stop.id] = Null
      BY <2>1, AddressParts, IInvParts DEF BookIndexed, NodesAreIndexed
    <3> QED
      BY <2>1, <3>1, NullAssumption
  <2>6. \A order \in Orders : IsLive(order)' <=> (IsLive(order) /\ order # stop) \/ order = now
    BY <2>1, <2>2, <2>3, <2>4, <2>5 DEF IsLive
  <2>7. IsLive(stop)
    BY <2>1, <2>3 DEF IsLive
  <2> QED
    BY <2>1, <2>2, <2>4, <2>6, <2>7, LedgerSwaps
<1>15. ~ParkDuplicate
  BY DEF ParkDuplicate, Fresh, Executing
<1> QED
  BY <1>3, <1>4, <1>5, <1>6, <1>7, <1>8, <1>9, <1>10, <1>11, <1>12, <1>13, <1>14, <1>15
     DEF Next, Command, Execution, AwaitCommand

\* The engine implements the ledger: from submission through parking, activation,
\* partial fills, rest and cancellation no quantity is created, lost or traded
\* with oneself (tests/properties.rs, conservation).
THEOREM LedgerIsKept == ASSUME CallerIds = {} PROVE Spec => LedgerKept
<1>1. Init => L!LedgerInit
  <2> SUFFICES ASSUME Init PROVE L!LedgerInit
    OBVIOUS
  <2>1. \A id \in Ids : LiveOrder(id) = Null
    BY DEF Init, LiveOrder, Executing
  <2>2. Open = [id \in Ids |-> 0] /\ Owner = [id \in Ids |-> Null]
    BY <2>1 DEF Open, Owner
  <2>3. 1 .. nextSeq - 1 = {}
    BY DEF Init
  <2> QED
    BY <2>2, <2>3 DEF L!LedgerInit
<1>2. IInv /\ Fresh /\ [Next]_vars => Fresh'
  BY NextKeepsFresh
<1>3. IInv /\ Fresh /\ Stakes /\ Stakes' /\ [Next]_vars
        => [L!LedgerNext]_<<1 .. nextSeq - 1, Open, Owner>>
  BY LedgerSteps
<1> QED
  BY <1>1, <1>2, <1>3, InitFresh, Inductive, LiveStakes, PTL
     DEF Spec, LedgerKept, L!LedgerSpec

-------------------------------------------------------------------------------
(* Outcomes *)

\* What the prints of an execution add up to.
Traded(prints) == Total([n \in DOMAIN prints |-> Total(prints[n].fills)])

\* Callers submit orders nothing of which is filled yet.
WholeRequests == \A request \in Requests : request.remaining = request.original

\* The prints of an execution and what the taker has left make up the order; an
\* order that has not started is whole, and so is a parked one.
OutcomeInv ==
  /\ pc \in {"idle", "execute"} => trades = <<>>
  /\ Executing => Traded(trades) + taker.remaining = taker.original
  /\ \A n \in 1 .. Len(trades) : Total(trades[n].fills) > 0
  /\ \A order \in Orders : Parked(order) => order.remaining = order.original

LEMMA FillsAreNat ==
  ASSUME NEW fills \in [Ids -> Nat]
  PROVE  /\ Total(fills) = SumFunctionOnSet(fills, Ids) /\ Total(fills) \in Nat
         /\ Total(fills) = 0 => \A id \in Ids : fills[id] = 0
<1>1. Total(fills) = SumFunctionOnSet(fills, Ids)
  BY DEF Total, SumFunction
<1>2. SumFunctionOnSet(fills, Ids) \in Nat
  BY IdsAreFinite, SumNat
<1>3. ASSUME SumFunctionOnSet(fills, Ids) = 0, NEW id \in Ids PROVE fills[id] = 0
  <2>1. SumFunctionOnSet(fills, Ids) = fills[id] + SumFunctionOnSet(fills, Ids \ {id})
    BY IdsAreFinite, SumRemove
  <2>2. SumFunctionOnSet(fills, Ids \ {id}) \in Nat
    <3>1. IsFiniteSet(Ids \ {id}) /\ \A x \in Ids \ {id} : fills[x] \in Nat
      BY IdsAreFinite, FS_Subset
    <3> QED
      BY <3>1, SumNat
  <2> QED
    BY <1>3, <2>1, <2>2
<1> QED
  BY <1>1, <1>2, <1>3

LEMMA TradedNothing == Traded(<<>>) = 0
<1> DEFINE f == [n \in DOMAIN <<>> |-> Total(<<>>[n].fills)]
<1>1. DOMAIN f = {}
  OBVIOUS
<1>2. Traded(<<>>) = SumFunctionOnSet(f, {})
  BY <1>1 DEF Traded, Total, SumFunction
<1> QED
  BY <1>2, FS_EmptySet, SumStep

LEMMA TradedIsNat ==
  ASSUME NEW prints \in Seq(Prints)
  PROVE  /\ Traded(prints) \in Nat
         /\ \A i \in 1 .. Len(prints) : Traded(prints) >= Total(prints[i].fills)
<1> DEFINE n == Len(prints)
           f == [i \in DOMAIN prints |-> Total(prints[i].fills)]
<1>1. n \in Nat /\ DOMAIN prints = 1 .. n /\ IsFiniteSet(1 .. n)
  BY LenProperties, FS_Interval
<1>2. \A i \in 1 .. n : f[i] = Total(prints[i].fills) /\ f[i] \in Nat
  <2>1. \A i \in 1 .. n : prints[i].fills \in [Ids -> Nat]
    <3>1. \A i \in 1 .. n : prints[i] \in Prints
      BY ElementOfSeq
    <3> QED
      BY <3>1 DEF Prints
  <2> QED
    BY <1>1, <2>1, FillsAreNat
<1>3. Traded(prints) = SumFunctionOnSet(f, 1 .. n)
  BY <1>1 DEF Traded, Total, SumFunction
<1> HIDE DEF f, n
<1>4. SumFunctionOnSet(f, 1 .. n) \in Nat
  BY <1>1, <1>2, SumNat
<1>5. ASSUME NEW i \in 1 .. n PROVE SumFunctionOnSet(f, 1 .. n) >= f[i]
  <2> DEFINE S == 1 .. n
             T == S \ {i}
  <2>1. IsFiniteSet(S) /\ i \in S /\ \A x \in S : f[x] \in Int /\ f[x] \in Nat
    BY <1>1, <1>2
  <2> HIDE DEF S
  <2>2. IsFiniteSet(T) /\ (\A x \in S : f[x] \in Int) /\ \A x \in T : f[x] \in Nat
    BY <2>1, FS_Subset
  <2>3. SumFunctionOnSet(f, S) = f[i] + SumFunctionOnSet(f, T)
    BY <2>1, <2>2, SumRemove
  <2> HIDE DEF T
  <2>4. SumFunctionOnSet(f, T) \in Nat
    BY <2>2, SumNat
  <2> QED
    BY <2>1, <2>3, <2>4 DEF S
<1> QED
  BY <1>2, <1>3, <1>4, <1>5 DEF n

LEMMA TradedAppend ==
  ASSUME NEW prints \in Seq(Prints), NEW print \in Prints
  PROVE  Traded(Append(prints, print)) = Traded(prints) + Total(print.fills)
<1> DEFINE n == Len(prints)
           more == Append(prints, print)
           f == [i \in DOMAIN prints |-> Total(prints[i].fills)]
           g == [i \in DOMAIN more |-> Total(more[i].fills)]
<1>1. /\ n \in Nat /\ DOMAIN prints = 1 .. n
      /\ DOMAIN more = 1 .. n + 1
      /\ \A i \in 1 .. n : more[i] = prints[i]
      /\ more[n + 1] = print
      /\ more \in Seq(Prints)
  BY LenProperties, AppendProperties
<1>2. /\ \A i \in 1 .. n + 1 : g[i] \in Int
      /\ \A i \in 1 .. n : f[i] \in Int /\ g[i] = f[i]
      /\ g[n + 1] = Total(print.fills)
  <2>1. \A i \in 1 .. n + 1 : more[i] \in Prints
    BY <1>1
  <2>2. \A i \in 1 .. n + 1 : Total(more[i].fills) \in Nat
    BY <2>1, FillsAreNat DEF Prints
  <2> HIDE DEF more
  <2> QED
    BY <1>1, <2>2
<1>3. Traded(prints) = SumFunctionOnSet(f, 1 .. n)
  BY <1>1 DEF Traded, Total, SumFunction
<1>4. Traded(more) = SumFunctionOnSet(g, 1 .. n + 1)
  BY <1>1 DEF Traded, Total, SumFunction
<1> HIDE DEF f, g, more, n
<1>5. SumFunctionOnSet(g, 1 .. n + 1) = g[n + 1] + SumFunctionOnSet(g, 1 .. n)
  <2> DEFINE T == 1 .. n + 1
  <2>1. n + 1 \in T /\ T \ {n + 1} = 1 .. n
    BY <1>1
  <2>2. IsFiniteSet(T) /\ \A i \in T : g[i] \in Int
    BY <1>1, <1>2, FS_Interval
  <2> HIDE DEF T
  <2>3. SumFunctionOnSet(g, T) = g[n + 1] + SumFunctionOnSet(g, T \ {n + 1})
    BY <2>1, <2>2, SumRemove
  <2> QED
    BY <2>1, <2>3 DEF T
<1>6. SumFunctionOnSet(g, 1 .. n) = SumFunctionOnSet(f, 1 .. n)
  <2>1. IsFiniteSet(1 .. n)
    BY <1>1, FS_Interval
  <2> QED
    BY <1>2, <2>1, SumSame
<1>7. SumFunctionOnSet(f, 1 .. n) \in Int
  <2>1. IsFiniteSet(1 .. n)
    BY <1>1, FS_Interval
  <2> QED
    BY <1>2, <2>1, SumStep
<1>8. g[n + 1] \in Int
  BY <1>1, <1>2
<1> QED
  BY <1>2, <1>3, <1>4, <1>5, <1>6, <1>7, <1>8 DEF more

\* The parked orders stay whole while none joins them.
LEMMA ParkedStayWhole ==
  ASSUME OutcomeInv, \A order \in Orders : Parked(order)' => Parked(order)
  PROVE  \A order \in Orders : Parked(order)' => order.remaining = order.original
BY DEF OutcomeInv

LEMMA NextKeepsOutcome ==
  ASSUME WholeRequests, IInv, OutcomeInv, [Next]_vars
  PROVE  OutcomeInv'
<1>1. TypeOK /\ InHand /\ trades \in Seq(Prints)
  BY IInvParts DEF TypeOK
<1>2. Executing => taker \in Orders
  BY <1>1 DEF InHand, TypeOK
<1>3. ASSUME UNCHANGED stops, trades' = trades \/ trades' = <<>>,
             pc' \in {"idle", "execute"} => trades' = <<>>,
             Executing' => /\ Executing /\ trades' = trades
                           /\ taker'.remaining = taker.remaining /\ taker'.original = taker.original
      PROVE  OutcomeInv'
  <2>1. \A order \in Orders : Parked(order)' => Parked(order)
    BY <1>3 DEF Parked
  <2>2. \A order \in Orders : Parked(order)' => order.remaining = order.original
    BY <2>1, ParkedStayWhole
  <2>3. \A n \in 1 .. Len(trades') : Total(trades'[n].fills) > 0
    BY <1>3, EmptySeq DEF OutcomeInv
  <2>4. Executing' => Traded(trades') + taker'.remaining = taker'.original
    BY <1>3 DEF OutcomeInv
  <2> QED
    BY <1>3, <2>2, <2>3, <2>4 DEF OutcomeInv, Traded, Total
<1>4. CASE \/ UNCHANGED vars
           \/ \E request \in Requests, id \in CallerIds : AddOrder(request, id)
           \/ \E id \in Ids : CancelResting(id)
  <2>1. UNCHANGED <<stops, trades, taker>> /\ pc' \in {pc, "panicked"}
    BY <1>4 DEF vars, AddOrder, CancelResting, stopBook
  <2> QED
    BY <1>3, <2>1 DEF OutcomeInv, Executing
<1>5. CASE \/ KillUnfillable \/ StartSweep \/ ActivateAtOnce \/ ParkDuplicate
           \/ TakeLevel \/ EndSweep \/ CancelOwn \/ UnlinkExhausted \/ LeaveLevel
           \/ SettleWithoutRest \/ SettleByResting \/ SettleFails \/ SettlePanics \/ EndCascade
  <2>1. UNCHANGED stops /\ (trades' = trades \/ (trades' = <<>> /\ ~Executing'))
    BY <1>5 DEF KillUnfillable, StartSweep, ActivateAtOnce, ParkDuplicate, TakeLevel, EndSweep,
       CancelOwn, UnlinkExhausted, LeaveLevel, SettleWithoutRest, SettleByResting, SettleFails,
       SettlePanics, EndCascade, GoIdle, stopBook, Executing
  <2>2. Executing' => Executing /\ (taker' = taker \/ taker' = Activate(taker))
    BY <1>5 DEF KillUnfillable, StartSweep, ActivateAtOnce, ParkDuplicate, TakeLevel, EndSweep,
       CancelOwn, UnlinkExhausted, LeaveLevel, SettleWithoutRest, SettleByResting, SettleFails,
       SettlePanics, EndCascade, GoIdle, Executing
  <2>3. Executing' => taker'.remaining = taker.remaining /\ taker'.original = taker.original
    BY <1>2, <2>2, ActivateKeeps
  <2>4. pc' \in {"idle", "execute"} => trades' = <<>> \/ (trades' = trades /\ pc = "execute")
    BY <1>5 DEF KillUnfillable, StartSweep, ActivateAtOnce, ParkDuplicate, TakeLevel, EndSweep,
       CancelOwn, UnlinkExhausted, LeaveLevel, SettleWithoutRest, SettleByResting, SettleFails,
       SettlePanics, EndCascade, GoIdle
  <2>5. pc' \in {"idle", "execute"} => trades' = <<>>
    BY <2>4 DEF OutcomeInv
  <2> QED
    BY <1>3, <2>1, <2>2, <2>3, <2>5
<1>6. ASSUME NEW request \in Requests, Submit(request)
      PROVE  OutcomeInv'
  <2>1. /\ UNCHANGED <<stops, trades>> /\ trades = <<>>
        /\ taker' = OrderOf(request, nextSeq)
    BY <1>6 DEF Submit, stopBook, OutcomeInv
  <2>2. request.remaining \in Nat /\ request.remaining = request.original
    BY OrderBookAssumption DEF WholeRequests, Request
  <2>3. Traded(trades') + taker'.remaining = taker'.original
    BY <2>1, <2>2, TradedNothing DEF OrderOf
  <2>4. \A order \in Orders : Parked(order)' => order.remaining = order.original
    <3>1. \A order \in Orders : Parked(order)' => Parked(order)
      BY <2>1 DEF Parked
    <3> QED
      BY <3>1, ParkedStayWhole
  <2> QED
    BY <2>1, <2>3, <2>4, EmptySeq DEF OutcomeInv, Traded, Total
<1>7. CASE Park
  <2>1. pc = "execute" /\ Executing /\ ~Executing' /\ pc' = "cascade" /\ trades' = trades
    BY <1>7 DEF Park, Executing
  <2>2. taker.remaining = taker.original
    <3>1. taker.remaining \in Nat /\ trades = <<>>
      BY <1>2, <2>1 DEF OutcomeInv, Orders
    <3> QED
      BY <2>1, <3>1, TradedNothing DEF OutcomeInv
  <2>3. \A order \in Orders : Parked(order)' => Parked(order) \/ order = taker
    BY <1>7, ParkAdds
  <2>4. \A order \in Orders : Parked(order)' => order.remaining = order.original
    BY <2>2, <2>3 DEF OutcomeInv
  <2> QED
    BY <2>1, <2>4 DEF OutcomeInv, Total
<1>8. ASSUME NEW id \in Ids, CancelParked(id)
      PROVE  OutcomeInv'
  <2> DEFINE s == index[id].side
             t == index[id].price
  <2>1. /\ UNCHANGED <<pc, trades, taker>> /\ index[id] # Null
        /\ \E i \in DOMAIN stops[s][t] : Unpark(s, t, i)
    BY <1>8 DEF CancelParked
  <2>2. s \in Sides /\ t \in Prices
    BY <1>1, <2>1, AddressCases DEF TypeOK
  <2> HIDE DEF s, t
  <2>3. PICK i \in 1 .. Len(stops[s][t]) : Unpark(s, t, i)
    BY <1>1, <2>1, <2>2, LenProperties DEF TypeOK
  <2>4. \A order \in Orders : Parked(order)' => Parked(order)
    BY <2>2, <2>3, UnparkTakes
  <2>5. \A order \in Orders : Parked(order)' => order.remaining = order.original
    BY <2>4, ParkedStayWhole
  <2> QED
    BY <2>1, <2>5 DEF OutcomeInv, Executing, Traded, Total
<1>9. ASSUME NEW side \in Sides, FireStop(side)
      PROVE  OutcomeInv'
  <2> DEFINE t == NearestTrigger(side)
             stop == stops[side][t][1]
  <2>1. /\ t \in Prices /\ 1 \in 1 .. Len(stops[side][t])
        /\ stop \in Orders /\ Unpark(side, t, 1) /\ taker' = Activate(stop)
    BY <1>9, FireTakes
  <2>2. trades' = <<>> /\ pc' = "execute"
    BY <1>9 DEF FireStop
  <2> HIDE DEF t
  <2>3. /\ Parked(stop)
        /\ \A order \in Orders : Parked(order)' => Parked(order)
    BY <2>1, UnparkTakes
  <2> HIDE DEF stop
  <2>4. taker'.remaining = taker'.original /\ taker'.remaining \in Nat
    <3>1. stop.remaining = stop.original /\ stop.remaining \in Nat
      BY <2>1, <2>3 DEF OutcomeInv, Orders
    <3> QED
      BY <2>1, <3>1, ActivateKeeps
  <2>5. Traded(trades') + taker'.remaining = taker'.original
    BY <2>2, <2>4, TradedNothing
  <2>6. \A order \in Orders : Parked(order)' => order.remaining = order.original
    BY <2>3, ParkedStayWhole
  <2> QED
    BY <2>2, <2>5, <2>6, EmptySeq DEF OutcomeInv, Traded, Total
<1>10. CASE Allocate
  <2>1. /\ Executing /\ Executing' /\ pc' = "unlink" /\ UNCHANGED stops
    BY <1>10 DEF Allocate, Executing, stopBook
  <2>2. PICK given \in [Ids -> Nat] :
          /\ taker' = [taker EXCEPT !.remaining = @ - SumFunctionOnSet(given, Ids)]
          /\ SumFunctionOnSet(given, Ids) \in 0 .. taker.remaining
          /\ trades' = IF \A id \in Ids : given[id] = 0 THEN trades
                       ELSE Append(trades, [price |-> level, fills |-> given])
    BY <1>10, AllocateTotals
  <2>3. /\ taker \in Orders /\ taker.remaining \in Nat /\ taker.original \in Nat
        /\ Traded(trades) + taker.remaining = taker.original
        /\ Traded(trades) \in Nat
    BY <1>1, <1>2, <2>1, TradedIsNat DEF OutcomeInv, Orders
  <2>4. /\ taker'.remaining = taker.remaining - Total(given)
        /\ taker'.original = taker.original
        /\ Total(given) \in Nat
    BY <2>2, <2>3, FillsAreNat DEF Orders
  <2>5. Traded(trades') = Traded(trades) + Total(given)
        /\ \A n \in 1 .. Len(trades') : Total(trades'[n].fills) > 0
    <3>1. CASE \A id \in Ids : given[id] = 0
      <4>1. Total(given) = 0
        BY <3>1, FillsAreNat, IdsAreFinite, SumOfZeros
      <4> QED
        BY <2>2, <2>3, <3>1, <4>1 DEF OutcomeInv
    <3>2. CASE ~(\A id \in Ids : given[id] = 0)
      <4> DEFINE print == [price |-> level, fills |-> given]
      <4>1. print \in Prints /\ print.fills = given
        <5>1. level \in Prices
          BY <1>1, <1>10, HandAndLevel, IInvParts DEF Allocate
        <5> QED
          BY <5>1 DEF Prints
      <4>2. trades' = Append(trades, print)
        BY <2>2, <3>2
      <4>3. Total(given) > 0
        BY <3>2, FillsAreNat
      <4> HIDE DEF print
      <4>4. Traded(trades') = Traded(trades) + Total(given)
        BY <1>1, <4>1, <4>2, TradedAppend
      <4>5. /\ Len(trades') = Len(trades) + 1 /\ Len(trades) \in Nat
            /\ \A n \in 1 .. Len(trades) : trades'[n] = trades[n]
            /\ trades'[Len(trades) + 1] = print
        BY <1>1, <4>1, <4>2, AppendProperties, LenProperties
      <4>6. ASSUME NEW n \in 1 .. Len(trades') PROVE Total(trades'[n].fills) > 0
        <5>1. CASE n \in 1 .. Len(trades)
          BY <4>5, <5>1 DEF OutcomeInv
        <5>2. CASE n = Len(trades) + 1
          BY <4>1, <4>3, <4>5, <5>2
        <5> QED
          BY <4>5, <5>1, <5>2
      <4> QED
        BY <4>4, <4>6
    <3> QED
      BY <3>1, <3>2
  <2>6. Traded(trades') + taker'.remaining = taker'.original
    BY <2>3, <2>4, <2>5
  <2>7. \A order \in Orders : Parked(order)' => order.remaining = order.original
    <3>1. \A order \in Orders : Parked(order)' => Parked(order)
      BY <2>1 DEF Parked
    <3> QED
      BY <3>1, ParkedStayWhole
  <2> QED
    BY <2>1, <2>5, <2>6, <2>7 DEF OutcomeInv, Traded, Total
<1> QED
  BY <1>4, <1>5, <1>6, <1>7, <1>8, <1>9, <1>10 DEF Next, Command, Execution, AwaitCommand

\* The report is what became of the order (matching.rs:29-43), for orders
\* submitted with nothing filled yet.
THEOREM ReportsAreTrue ==
  ASSUME CallerIds = {}, WholeRequests
  PROVE  Spec => OutcomeIsTrue
<1>1. Init => OutcomeInv
  <2> SUFFICES ASSUME Init PROVE OutcomeInv
    OBVIOUS
  <2>1. trades = <<>> /\ ~Executing
    BY DEF Init, Executing
  <2>2. \A order \in Orders : ~Parked(order)
    <3>1. \A s \in Sides, t \in Prices : stops[s][t] = <<>>
      BY DEF Init
    <3> QED
      BY <3>1, EmptySeq DEF Parked
  <2> QED
    BY <2>1, <2>2, EmptySeq DEF OutcomeInv
<1>2. IInv /\ OutcomeInv /\ [Next]_vars => OutcomeInv'
  BY NextKeepsOutcome
<1>3. IInv /\ Fresh /\ [Next]_vars => Fresh'
  BY NextKeepsFresh
<1>4. IInv /\ Fresh /\ OutcomeInv /\ FokFillsCompletely /\ [Next]_vars =>
        [pc = "settle" /\ pc' = "cascade" =>
           LET traded == Total([n \in DOMAIN trades |-> Total(trades[n].fills)])
           IN  /\ traded + taker.remaining = taker.original
               /\ CASE Outcome = "filled" -> index'[taker.id] = Null /\ traded = taker.original
                    [] Outcome = "killed" -> index'[taker.id] = Null /\ traded < taker.original
                    [] Outcome = "rested" ->
                         nodes'[taker.id].remaining = taker.original /\ traded = 0
                    [] Outcome = "partially_filled_and_rested" ->
                         /\ nodes'[taker.id].remaining = taker.original - traded
                         /\ 0 < traded]_vars
  <2> SUFFICES ASSUME IInv, Fresh, OutcomeInv, FokFillsCompletely, Next,
                      pc = "settle", pc' = "cascade"
               PROVE  /\ Traded(trades) + taker.remaining = taker.original
                      /\ CASE Outcome = "filled" ->
                                index'[taker.id] = Null /\ Traded(trades) = taker.original
                           [] Outcome = "killed" ->
                                index'[taker.id] = Null /\ Traded(trades) < taker.original
                           [] Outcome = "rested" ->
                                nodes'[taker.id].remaining = taker.original /\ Traded(trades) = 0
                           [] Outcome = "partially_filled_and_rested" ->
                                /\ nodes'[taker.id].remaining = taker.original - Traded(trades)
                                /\ 0 < Traded(trades)
    BY DEF Traded
  <2>1. TypeOK /\ Executing /\ trades \in Seq(Prints)
    BY IInvParts DEF TypeOK, Executing
  <2>2. /\ taker \in Orders /\ taker.id \in Ids /\ taker.remaining \in Nat /\ taker.original \in Nat
        /\ index[taker.id] = Null
    BY <2>1, HandIsApart DEF Orders, Fresh
  <2>3. Traded(trades) + taker.remaining = taker.original /\ Traded(trades) \in Nat
    BY <2>1, TradedIsNat DEF OutcomeInv
  <2>4. SettleWithoutRest \/ SettleByResting
    BY DEF Next, Command, Execution, AwaitCommand, vars, Submit, AddOrder, CancelResting,
       CancelParked, KillUnfillable, StartSweep, ActivateAtOnce, Park, ParkDuplicate,
       TakeLevel, EndSweep, CancelOwn, Allocate, UnlinkExhausted, LeaveLevel, SettleFails,
       SettlePanics, FireStop, EndCascade, GoIdle
  <2>5. IsFok(taker) => taker.remaining = 0
    BY DEF FokFillsCompletely
  <2>6. CASE SettleWithoutRest
    <3>1. ~Rests(taker) /\ index' = index
      BY <2>6 DEF SettleWithoutRest, book
    <3>2. Outcome = IF taker.remaining = 0 THEN "filled" ELSE "killed"
      BY <2>5, <3>1 DEF Outcome
    <3>3. index'[taker.id] = Null
      BY <2>2, <3>1
    <3>4. CASE taker.remaining = 0
      <4>1. Outcome = "filled" /\ Traded(trades) = taker.original
        BY <2>2, <2>3, <3>2, <3>4
      <4> QED
        BY <2>3, <3>3, <4>1
    <3>5. CASE taker.remaining # 0
      <4>1. Outcome = "killed" /\ Traded(trades) < taker.original
        BY <2>2, <2>3, <3>2, <3>5
      <4> QED
        BY <2>3, <3>3, <4>1
    <3> QED
      BY <3>4, <3>5
  <2>7. CASE SettleByResting
    <3>1. Rests(taker) /\ nodes' = [nodes EXCEPT ![taker.id] = [taker EXCEPT !.arrival = nextArrival]]
      BY <2>7 DEF SettleByResting, Rest
    <3>2. nodes'[taker.id].remaining = taker.remaining
      BY <2>1, <2>2, <3>1 DEF TypeOK, Orders
    <3>3. Outcome = IF trades = <<>> THEN "rested" ELSE "partially_filled_and_rested"
      BY <3>1 DEF Outcome, Rests, IsFok
    <3>4. CASE trades = <<>>
      <4>1. Traded(trades) = 0
        BY <3>4, TradedNothing
      <4> QED
        BY <2>2, <2>3, <3>2, <3>3, <3>4, <4>1
    <3>5. CASE trades # <<>>
      <4>1. 1 \in 1 .. Len(trades)
        BY <2>1, <3>5, EmptySeq, LenProperties
      <4>2. Total(trades[1].fills) > 0 /\ Traded(trades) >= Total(trades[1].fills)
        BY <2>1, <4>1, TradedIsNat DEF OutcomeInv
      <4>3. Total(trades[1].fills) \in Nat
        <5>1. trades[1] \in Prints
          BY <2>1, <4>1, ElementOfSeq
        <5>2. trades[1].fills \in [Ids -> Nat]
          BY <5>1 DEF Prints
        <5> QED
          BY <2>1, <5>2, FillsAreNat
      <4>4. 0 < Traded(trades)
        BY <2>3, <4>2, <4>3
      <4> QED
        BY <2>2, <2>3, <3>2, <3>3, <3>5, <4>4
    <3> QED
      BY <3>4, <3>5
  <2> QED
    BY <2>3, <2>4, <2>6, <2>7
<1>5. NoSpentSeeds
  BY DEF NoSpentSeeds
<1>6. Spec => []FokFillsCompletely
  BY <1>5, FillOrKillFills
<1> QED
  BY <1>1, <1>2, <1>3, <1>4, <1>6, InitFresh, Inductive, PTL DEF Spec, OutcomeIsTrue

-------------------------------------------------------------------------------
(* Snapshots of a level *)

\* The orders a snapshot of a level shows, oldest first.
Shown(s, p) == [n \in 1 .. Len(queue[s][p]) |-> nodes[queue[s][p][n]]]

LEMMA FilledLevel ==
  ASSUME NEW s, NEW p, NEW orders
  PROVE  [NewLevel(s, p) EXCEPT !.orders = orders] = [side |-> s, price |-> p, orders |-> orders]
BY DEF NewLevel

\* A snapshot shows the order of every position of the queue.
LEMMA SnapshotShows ==
  ASSUME IInv, NEW s \in Sides, NEW p \in Prices
  PROVE  /\ Snapshot(s, p) = [side |-> s, price |-> p, orders |-> Shown(s, p)]
         /\ Shown(s, p) \in Seq(Orders)
         /\ Len(Shown(s, p)) = Len(queue[s][p])
         /\ \A n \in 1 .. Len(queue[s][p]) :
              /\ Shown(s, p)[n] = nodes[queue[s][p][n]]
              /\ Shown(s, p)[n].id = queue[s][p][n]
              /\ Shown(s, p)[n].side = s
<1>1. TypeOK /\ NodesAreIndexed
  BY IInvParts DEF BookIndexed
<1>2. queue[s][p] \in Seq(Ids) /\ Len(queue[s][p]) \in Nat
      /\ DOMAIN queue[s][p] = 1 .. Len(queue[s][p])
  BY <1>1, LenProperties DEF TypeOK
<1>3. Snapshot(s, p) = [side |-> s, price |-> p, orders |-> Shown(s, p)]
  <2>1. Snapshot(s, p) = [NewLevel(s, p) EXCEPT !.orders = Shown(s, p)]
    BY <1>2 DEF Snapshot, Shown
  <2> QED
    BY <2>1, FilledLevel
<1>4. \A n \in 1 .. Len(queue[s][p]) : nodes[queue[s][p][n]] \in Orders
  BY QueuedOrder
<1>5. Shown(s, p) \in Seq(Orders) /\ Len(Shown(s, p)) = Len(queue[s][p])
  BY <1>2, <1>4, IsASeq DEF Shown
<1>6. ASSUME NEW n \in 1 .. Len(queue[s][p])
      PROVE  /\ Shown(s, p)[n] = nodes[queue[s][p][n]]
             /\ nodes[queue[s][p][n]].id = queue[s][p][n]
             /\ nodes[queue[s][p][n]].side = s
  <2>1. /\ queue[s][p][n] \in Ids /\ index[queue[s][p][n]] = BookAddress(s, p)
        /\ nodes[queue[s][p][n]].side = s
    BY QueuedOrder
  <2>2. index[queue[s][p][n]] # Null /\ index[queue[s][p][n]].kind = "book"
    BY <2>1, AddressParts
  <2>3. nodes[queue[s][p][n]].id = queue[s][p][n]
    BY <1>1, <2>1, <2>2 DEF NodesAreIndexed
  <2> QED
    BY <2>1, <2>3 DEF Shown
<1> QED
  BY <1>3, <1>5, <1>6

\* An order that comes to rest is accepted at the back of its level's snapshot.
LEMMA RestIsAccepted ==
  ASSUME IInv, IInv', NEW order \in Orders,
         Restable(order), nextArrival < MaxArrival, Rest(order)
  PROVE  LET s == order.side
             p == order.type.price
         IN  /\ order.id \in ToSet(queue'[s][p]) /\ order.id \notin ToSet(queue[s][p])
             /\ Snapshot(s, p)' = AddToLevel(Snapshot(s, p), nodes'[order.id])
             /\ \A t \in Sides, q \in Prices : t # s \/ q # p => queue'[t][q] = queue[t][q]
<1> DEFINE id == order.id
           s == order.side
           p == order.type.price
           then == queue[s][p]
           now == queue'[s][p]
<1>1. id \in Ids /\ s \in Sides /\ p \in Prices /\ index[id] = Null
  BY OrderTypeParts DEF Restable, Orders
<1>2. /\ queue \in [Sides -> [Prices -> Seq(Ids)]]
      /\ nodes \in [Ids -> Orders \union {Null}]
  BY IInvParts DEF TypeOK
<1>3. /\ now = Append(then, id)
      /\ \A t \in Sides, q \in Prices : t # s \/ q # p => queue'[t][q] = queue[t][q]
      /\ nodes'[id] = [order EXCEPT !.arrival = nextArrival]
      /\ \A other \in Ids : other # id => nodes'[other] = nodes[other]
  BY <1>1, <1>2 DEF Rest
<1>4. then \in Seq(Ids) /\ Len(then) \in Nat /\ DOMAIN then = 1 .. Len(then)
  BY <1>1, <1>2, LenProperties
<1>5. \A n \in 1 .. Len(then) : then[n] \in Ids /\ index[then[n]] = BookAddress(s, p)
  BY <1>1, QueuedOrder
<1>6. \A n \in 1 .. Len(then) : then[n] # id
  BY <1>1, <1>5, AddressParts
<1>7. nodes'[id].side = s /\ nodes'[id].id = id
  BY <1>3 DEF Orders
<1>8. /\ Snapshot(s, p) = [side |-> s, price |-> p, orders |-> Shown(s, p)]
      /\ Shown(s, p) \in Seq(Orders) /\ Len(Shown(s, p)) = Len(then)
      /\ \A n \in 1 .. Len(then) :
           Shown(s, p)[n] = nodes[then[n]] /\ Shown(s, p)[n].id = then[n]
  BY <1>1, SnapshotShows
<1>9. /\ Len(now) = Len(then) + 1 /\ now[Len(then) + 1] = id
      /\ \A n \in 1 .. Len(then) : now[n] = then[n]
  <2> HIDE DEF then, id
  <2> QED
    BY <1>1, <1>3, <1>4, AppendProperties
<1>10. nodes'[id] \in Orders
  <2>1. nextArrival \in Nat
    BY IInvParts, OrderBookAssumption DEF TypeOK
  <2> QED
    BY <2>1, <1>3 DEF Orders
<1>11. /\ now \in Seq(Ids) /\ DOMAIN now = 1 .. Len(now)
  <2> HIDE DEF then, id
  <2> QED
    BY <1>1, <1>3, <1>4, AppendProperties, LenProperties
<1>12. Snapshot(s, p)' = [side |-> s, price |-> p,
                          orders |-> [n \in 1 .. Len(now) |-> nodes'[now[n]]]]
  <2> DEFINE orders == [n \in 1 .. Len(now) |-> nodes'[now[n]]]
  <2>1. Snapshot(s, p)' = [NewLevel(s, p) EXCEPT !.orders = orders]
    BY <1>11 DEF Snapshot, NewLevel
  <2> HIDE DEF orders
  <2>2. Snapshot(s, p)' = [side |-> s, price |-> p, orders |-> orders]
    BY <2>1, FilledLevel
  <2> QED
    BY <2>2 DEF orders
<1> HIDE DEF then, now, s, p, id
<1>13. Append(Shown(s, p), nodes'[id]) = [n \in 1 .. Len(now) |-> nodes'[now[n]]]
  <2> DEFINE a == Append(Shown(s, p), nodes'[id])
             b == [n \in 1 .. Len(now) |-> nodes'[now[n]]]
  <2>1. /\ a \in Seq(Orders) /\ Len(a) = Len(then) + 1 /\ a[Len(then) + 1] = nodes'[id]
        /\ \A n \in 1 .. Len(then) : a[n] = Shown(s, p)[n]
    BY <1>8, <1>10, AppendProperties
  <2>2. \A n \in 1 .. Len(now) : a[n] = nodes'[now[n]]
    <3> SUFFICES ASSUME NEW n \in 1 .. Len(now)
                 PROVE  a[n] = nodes'[now[n]]
      OBVIOUS
    <3>1. CASE n \in 1 .. Len(then)
      BY <3>1, <2>1, <1>3, <1>5, <1>6, <1>8, <1>9
    <3>2. CASE n = Len(then) + 1
      BY <3>2, <2>1, <1>9
    <3>3. n \in 1 .. Len(then) \/ n = Len(then) + 1
      BY <1>4, <1>9
    <3> QED
      BY <3>1, <3>2, <3>3
  <2>3. DOMAIN a = 1 .. Len(now) /\ a = [n \in DOMAIN a |-> a[n]]
    BY <2>1, <1>9, LenProperties
  <2> HIDE DEF a
  <2> QED
    BY <2>2, <2>3 DEF a
<1>14. AddToLevel(Snapshot(s, p), nodes'[id])
         = [side |-> s, price |-> p, orders |-> Append(Shown(s, p), nodes'[id])]
  <2>1. DOMAIN Shown(s, p) = 1 .. Len(then)
    BY <1>8, LenProperties
  <2>2. \A n \in DOMAIN Shown(s, p) : Shown(s, p)[n].id # nodes'[id].id
    BY <2>1, <1>6, <1>7, <1>8
  <2> QED
    <3> DEFINE f == Shown(s, p)
               S == Snapshot(s, p)
               x == nodes'[id]
    <3>1. S.side = s /\ S.orders = f
      BY <1>8
    <3>2. AddToLevel(S, x) = [S EXCEPT !.orders = Append(S.orders, x)]
      <4> HIDE DEF f, S, x
      <4> QED
        BY <2>2, <3>1, <1>7 DEF AddToLevel, f, x
    <3>3. S = [side |-> s, price |-> p, orders |-> f]
      BY <1>8
    <3> HIDE DEF f, x, S
    <3>4. AddToLevel(S, x) = [side |-> s, price |-> p, orders |-> Append(f, x)]
      BY <3>1, <3>2, <3>3
    <3> QED
      BY <3>4 DEF f, x, S
<1>15. id \in ToSet(now) /\ id \notin ToSet(then)
  BY <1>4, <1>6, <1>9, <1>11 DEF ToSet
<1> QED
  BY <1>3, <1>12, <1>13, <1>14, <1>15 DEF then, now, s, p, id

\* An order that is unlinked goes from its level's snapshot by its id.
LEMMA UnlinkIsRemoved ==
  ASSUME IInv, NEW s \in Sides, NEW p \in Prices, NEW id \in Ids, Unlink(s, p, id)
  PROVE  /\ id \in ToSet(queue[s][p]) /\ id \notin ToSet(queue'[s][p])
         /\ Snapshot(s, p)' = RemoveFromLevel(Snapshot(s, p), id)
         /\ \A t \in Sides, q \in Prices : t # s \/ q # p => queue'[t][q] = queue[t][q]
<1> DEFINE then == queue[s][p]
           now == queue'[s][p]
           shown == Shown(s, p)
<1>1. /\ queue \in [Sides -> [Prices -> Seq(Ids)]]
      /\ nodes \in [Ids -> Orders \union {Null}]
      /\ RestingIsIndexed
  BY IInvParts DEF TypeOK, BookIndexed
<1>2. then \in Seq(Ids) /\ Len(then) \in Nat /\ DOMAIN then = 1 .. Len(then)
  BY <1>1, LenProperties
<1>3. PICK i \in 1 .. Len(then) :
        /\ then[i] = id
        /\ queue' = [queue EXCEPT ![s][p] = RemoveAt(@, i)]
        /\ nodes' = [nodes EXCEPT ![id] = Null]
  BY <1>2 DEF Unlink
<1>4. /\ now = RemoveAt(then, i)
      /\ \A t \in Sides, q \in Prices : t # s \/ q # p => queue'[t][q] = queue[t][q]
      /\ \A other \in Ids : other # id => nodes'[other] = nodes[other]
  BY <1>1, <1>3
<1>5. \A m, n \in 1 .. Len(then) : then[m] = then[n] => m = n
  BY <1>1 DEF RestingIsIndexed
<1>6. /\ Snapshot(s, p) = [side |-> s, price |-> p, orders |-> shown]
      /\ shown \in Seq(Orders) /\ Len(shown) = Len(then)
      /\ \A n \in 1 .. Len(then) : shown[n] = nodes[then[n]] /\ shown[n].id = then[n]
  BY SnapshotShows
<1> HIDE DEF then, now, shown
<1>7. /\ now \in Seq(Ids) /\ Len(now) = Len(then) - 1
      /\ \A n \in 1 .. Len(then) - 1 : now[n] = IF n < i THEN then[n] ELSE then[n + 1]
  BY <1>2, <1>4, RemoveAtElements
<1>8. DOMAIN now = 1 .. Len(now) /\ DOMAIN shown = 1 .. Len(then)
  BY <1>6, <1>7, LenProperties
<1>9. Snapshot(s, p)' = [side |-> s, price |-> p,
                         orders |-> [n \in 1 .. Len(now) |-> nodes'[now[n]]]]
  <2> DEFINE orders == [n \in 1 .. Len(now) |-> nodes'[now[n]]]
  <2>1. Snapshot(s, p)' = [NewLevel(s, p) EXCEPT !.orders = orders]
    BY <1>8 DEF Snapshot, NewLevel, now
  <2> HIDE DEF orders
  <2>2. Snapshot(s, p)' = [side |-> s, price |-> p, orders |-> orders]
    BY <2>1, FilledLevel
  <2> QED
    BY <2>2 DEF orders
<1>10. \A n \in 1 .. Len(now) : now[n] \in Ids /\ now[n] # id
  <2> SUFFICES ASSUME NEW n \in 1 .. Len(now)
               PROVE  now[n] \in Ids /\ now[n] # id
    OBVIOUS
  <2>1. PICK m \in 1 .. Len(then) : m # i /\ now[n] = then[m]
    <3>1. CASE n < i
      BY <3>1, <1>2, <1>7
    <3>2. CASE ~(n < i)
      <4>1. n + 1 \in 1 .. Len(then) /\ n + 1 # i /\ now[n] = then[n + 1]
        BY <3>2, <1>2, <1>7
      <4> QED
        BY <4>1
    <3> QED
      BY <3>1, <3>2
  <2>2. then[m] # id
    BY <2>1, <1>3, <1>5
  <2>3. then[m] \in Ids
    BY <1>2, ElementOfSeq
  <2> QED
    BY <2>1, <2>2, <2>3
<1>11. RemoveAt(shown, i) = [n \in 1 .. Len(now) |-> nodes'[now[n]]]
  <2> DEFINE a == RemoveAt(shown, i)
  <2>1. i \in 1 .. Len(shown)
    BY <1>6
  <2>2. /\ a \in Seq(Orders) /\ Len(a) = Len(shown) - 1
        /\ \A n \in 1 .. Len(shown) - 1 : a[n] = IF n < i THEN shown[n] ELSE shown[n + 1]
    BY <2>1, <1>6, RemoveAtElements
  <2> HIDE DEF a
  <2>3. \A n \in 1 .. Len(now) : a[n] = nodes'[now[n]]
    <3> SUFFICES ASSUME NEW n \in 1 .. Len(now)
                 PROVE  a[n] = nodes'[now[n]]
      OBVIOUS
    <3>1. nodes'[now[n]] = nodes[now[n]]
      BY <1>4, <1>10
    <3>2. CASE n < i
      BY <3>1, <3>2, <2>2, <1>2, <1>6, <1>7
    <3>3. CASE ~(n < i)
      <4>1. n + 1 \in 1 .. Len(then) /\ now[n] = then[n + 1] /\ a[n] = shown[n + 1]
        BY <3>3, <2>2, <1>2, <1>6, <1>7
      <4> QED
        BY <3>1, <4>1, <1>6
    <3> QED
      BY <3>2, <3>3
  <2>4. DOMAIN a = 1 .. Len(now) /\ a = [n \in DOMAIN a |-> a[n]]
    BY <2>2, <1>6, <1>7, LenProperties
  <2> QED
    BY <2>3, <2>4 DEF a
<1>12. RemoveFromLevel(Snapshot(s, p), id)
         = [side |-> s, price |-> p, orders |-> RemoveAt(shown, i)]
  <2> DEFINE Here(n) == shown[n].id = id /\ \A m \in 1 .. n - 1 : shown[m].id # id
  <2>1. \A n \in 1 .. Len(then) : shown[n].id = id => n = i
    BY <1>3, <1>5, <1>6
  <2>2. shown[i].id = id
    BY <1>3, <1>6
  <2>3. \A m \in 1 .. i - 1 : m \in 1 .. Len(then) /\ m # i
    BY <1>2
  <2>4. Here(i)
    BY <2>1, <2>2, <2>3
  <2>5. (CHOOSE n \in DOMAIN shown : Here(n)) = i
    <3>1. \A n \in DOMAIN shown : Here(n) => n = i
      BY <2>1, <1>8
    <3>2. i \in DOMAIN shown
      BY <1>8
    <3> HIDE DEF Here
    <3> QED
      BY <3>1, <3>2, <2>4
  <2>6. \E n \in DOMAIN shown : shown[n].id = id
    BY <2>2, <1>8
  <2>7. RemoveFromLevel(Snapshot(s, p), id)
          = [side |-> s, price |-> p, orders |-> RemoveAt(shown, CHOOSE n \in DOMAIN shown : Here(n))]
    BY <2>6, <1>6 DEF RemoveFromLevel
  <2> QED
    BY <2>5, <2>7
<1>13. id \in ToSet(then) /\ id \notin ToSet(now)
  BY <1>2, <1>3, <1>8, <1>10 DEF ToSet
<1> QED
  BY <1>4, <1>9, <1>11, <1>12, <1>13 DEF then, now

\* A reader's snapshot of a level keeps up with the book by add_order and
\* remove_order alone (types.rs:325-348): an order that comes to rest is
\* accepted at the back, one that leaves goes by its id, and nobody else moves.
THEOREM SnapshotsAreFollowed == Spec => SnapshotsFollow
<1>1. ASSUME IInv, IInv', [Next]_vars, NEW side \in Sides, NEW price \in Prices,
             queue[side][price] # queue'[side][price]
      PROVE  LET then == queue[side][price]
                 now == queue'[side][price]
                 joined == {id \in ToSet(now) : id \notin ToSet(then)}
                 left == {id \in ToSet(then) : id \notin ToSet(now)}
             IN  \/ \E id \in joined : Snapshot(side, price)' = AddToLevel(Snapshot(side, price), nodes'[id])
                 \/ \E id \in left : Snapshot(side, price)' = RemoveFromLevel(Snapshot(side, price), id)
  <2>1. CASE StillStep \/ Allocate
    BY <1>1, <2>1 DEF StillStep, Allocate
  <2>2. CASE UnlinkStep
    <3>1. PICK s \in Sides, p \in Prices, id \in Ids : Unlink(s, p, id)
      BY <2>2 DEF UnlinkStep
    <3>2. /\ id \in ToSet(queue[s][p]) /\ id \notin ToSet(queue'[s][p])
          /\ Snapshot(s, p)' = RemoveFromLevel(Snapshot(s, p), id)
          /\ \A t \in Sides, q \in Prices : t # s \/ q # p => queue'[t][q] = queue[t][q]
      BY <1>1, <3>1, UnlinkIsRemoved
    <3>3. side = s /\ price = p
      BY <1>1, <3>2
    <3> QED
      BY <3>2, <3>3
  <2>3. ASSUME NEW order \in Orders, RestStep(order)
        PROVE  \E id \in ToSet(queue'[side][price]) :
                 /\ id \notin ToSet(queue[side][price])
                 /\ Snapshot(side, price)' = AddToLevel(Snapshot(side, price), nodes'[id])
    <3> DEFINE s == order.side
               p == order.type.price
    <3>1. /\ order.id \in ToSet(queue'[s][p]) /\ order.id \notin ToSet(queue[s][p])
          /\ Snapshot(s, p)' = AddToLevel(Snapshot(s, p), nodes'[order.id])
          /\ \A t \in Sides, q \in Prices : t # s \/ q # p => queue'[t][q] = queue[t][q]
      BY <1>1, <2>3, RestIsAccepted DEF RestStep
    <3>2. side = s /\ price = p
      BY <1>1, <3>1
    <3> QED
      BY <3>1, <3>2
  <2> QED
    BY <1>1, <2>1, <2>2, <2>3, StepKinds
<1>2. IInv /\ IInv' /\ [Next]_vars =>
        [\A side \in Sides, price \in Prices :
       LET then == queue[side][price]
           now == queue'[side][price]
           joined == {id \in ToSet(now) : id \notin ToSet(then)}
           left == {id \in ToSet(then) : id \notin ToSet(now)}
       IN  then # now =>
             \/ \E id \in joined : Snapshot(side, price)' = AddToLevel(Snapshot(side, price), nodes'[id])
             \/ \E id \in left : Snapshot(side, price)' = RemoveFromLevel(Snapshot(side, price), id)]_vars
  BY <1>1
<1> QED
  BY <1>2, Inductive, PTL DEF Spec, SnapshotsFollow

-------------------------------------------------------------------------------
(* Time priority of FIFO allocation *)

\* A queue of makers, with quantities of any size.
Queued(makers) ==
  /\ Len(makers) \in Nat /\ DOMAIN makers = 1 .. Len(makers)
  /\ \A i \in 1 .. Len(makers) : makers[i].remaining \in Nat

\* What is left of `available' after the first so many makers took theirs.
Remains(available, makers) ==
  {left \in [0 .. Len(makers) -> Nat] :
     /\ left[0] = available
     /\ \A i \in 1 .. Len(makers) :
          left[i] = left[i-1] - Smaller(left[i-1], makers[i].remaining)}

LEMMA FifoTakes ==
  ASSUME NEW makers, Queued(makers), NEW available \in Nat
  PROVE  \E left \in Remains(available, makers) :
           FifoAllocate(available, makers) =
             [i \in DOMAIN makers |-> Smaller(left[i-1], makers[i].remaining)]
<1> DEFINE n == Len(makers)
           After(i, v) == v - Smaller(v, makers[i].remaining)
           Value(g, i) == IF i = 0 THEN available ELSE After(i, g[i-1])
           step == [i \in 1 .. n |-> [v \in Nat |-> After(i, v)]]
           Takes(g) == g = [i \in 0 .. n |-> Value(g, i)]
           left == CHOOSE g : Takes(g)
<1>1. n \in Nat /\ \A i \in 1 .. n : makers[i].remaining \in Nat
  BY DEF Queued
<1>2. \A i \in 1 .. n, v \in Nat : After(i, v) \in Nat
  BY <1>1 DEF Smaller
<1>3. FifoAllocate(available, makers)
        = [i \in DOMAIN makers |-> Smaller(left[i-1], makers[i].remaining)]
  BY DEF FifoAllocate
<1> HIDE DEF After
<1>4. IsStepwise(n, Nat, available, step)
  BY <1>1, <1>2 DEF IsStepwise
<1>5. PICK g \in Recursions(n, Nat, available, step) : TRUE
  <2> HIDE DEF step
  <2> QED
    BY <1>4, RecursionExists
<1>6. Takes(g)
  <2>1. g \in [0 .. n -> Nat] /\ g[0] = available
    BY <1>5 DEF Recursions
  <2>2. ASSUME NEW i \in 1 .. n PROVE g[i] = After(i, g[i-1])
    <3>1. g[i] = step[i][g[i-1]]
      BY <1>5 DEF Recursions
    <3>2. i - 1 \in 0 .. n
      BY <1>1
    <3> QED
      BY <2>1, <3>1, <3>2
  <2>3. \A i \in 0 .. n : g[i] = Value(g, i)
    BY <1>1, <2>1, <2>2
  <2> HIDE DEF Value
  <2> QED
    BY <2>1, <2>3
<1>7. Takes(left)
  <2> HIDE DEF Takes
  <2> QED
    BY <1>6
<1>8. left = [i \in 0 .. n |-> left[i]] /\ left[0] = available
      /\ \A i \in 1 .. n : left[i] = After(i, left[i-1])
  <2> HIDE DEF left
  <2>1. left = [i \in 0 .. n |-> left[i]] /\ \A i \in 0 .. n : left[i] = Value(left, i)
    <3> HIDE DEF Value
    <3> QED
      BY <1>7
  <2>2. 0 \in 0 .. n /\ \A i \in 1 .. n : i \in 0 .. n /\ i # 0
    BY <1>1
  <2> QED
    BY <2>1, <2>2
<1>9. left \in Recursions(n, Nat, available, step)
  <2>1. \A i \in 1 .. n : left[i-1] \in Nat => left[i] = step[i][left[i-1]]
    <3> HIDE DEF left
    <3> QED
      BY <1>8
  <2> HIDE DEF left, step
  <2> QED
    BY <1>4, <1>8, <2>1, StepwiseIsRecursion
<1>10. left \in Remains(available, makers)
  <2>1. left \in [0 .. n -> Nat]
    BY <1>9 DEF Recursions
  <2> HIDE DEF left
  <2> QED
    BY <1>8, <2>1 DEF Remains, After
<1> HIDE DEF left
<1> QED
  BY <1>3, <1>10

\* FIFO gives a maker nothing before every older one is emptied.
LEMMA FifoServesOldest ==
  ASSUME NEW makers, Queued(makers), NEW available \in Nat,
         NEW i \in 1 .. Len(makers), NEW j \in 1 .. Len(makers), i < j,
         FifoAllocate(available, makers)[j] # 0
  PROVE  FifoAllocate(available, makers)[i] = makers[i].remaining
<1> DEFINE n == Len(makers)
<1>1. PICK left \in Remains(available, makers) :
        FifoAllocate(available, makers) =
          [k \in DOMAIN makers |-> Smaller(left[k-1], makers[k].remaining)]
  BY FifoTakes
<1>2. /\ n \in Nat /\ DOMAIN makers = 1 .. n
      /\ \A k \in 1 .. n : makers[k].remaining \in Nat
  BY DEF Queued
<1>3. /\ left \in [0 .. n -> Nat]
      /\ \A k \in 1 .. n : left[k] = left[k-1] - Smaller(left[k-1], makers[k].remaining)
  BY DEF Remains
<1>4. /\ FifoAllocate(available, makers)[i] = Smaller(left[i-1], makers[i].remaining)
      /\ Smaller(left[j-1], makers[j].remaining) # 0
  BY <1>1, <1>2
<1> SUFFICES ASSUME Smaller(left[i-1], makers[i].remaining) # makers[i].remaining
             PROVE  FALSE
  BY <1>4
<1> DEFINE G == {k \in 0 .. n : k >= i => left[k] = 0}
<1>5. 0 \in G
  BY <1>2
<1>6. ASSUME NEW k \in 0 .. n - 1, k \in G PROVE k + 1 \in G
  <2>1. k + 1 \in 1 .. n /\ k + 1 \in 0 .. n /\ (k + 1) - 1 = k /\ k \in 0 .. n
    BY <1>2
  <2>2. left[k+1] = left[k] - Smaller(left[k], makers[k+1].remaining)
    BY <1>3, <2>1
  <2>3. left[k] \in Nat /\ makers[k+1].remaining \in Nat
    BY <1>2, <1>3, <2>1
  <2>4. CASE k + 1 = i
    <3>1. i - 1 = k
      BY <2>1, <2>4
    <3>2. Smaller(left[k], makers[k+1].remaining) # makers[k+1].remaining
      BY <2>4, <3>1
    <3>3. left[k+1] = 0
      BY <3>2, <2>2, <2>3 DEF Smaller
    <3> QED
      BY <2>1, <3>3
  <2>5. CASE k >= i
    <3>1. left[k] = 0
      BY <1>6, <2>5
    <3>2. left[k+1] = 0
      BY <3>1, <2>2, <2>3 DEF Smaller
    <3> QED
      BY <2>1, <3>2
  <2>6. CASE k + 1 < i
    BY <2>1, <2>6
  <2> QED
    BY <2>4, <2>5, <2>6, <2>1
<1>7. \A k \in 0 .. n : k \in G
  <2> HIDE DEF G
  <2> QED
    BY <1>2, <1>5, <1>6, UpTo
<1>8. j - 1 \in 0 .. n /\ j - 1 >= i
  BY <1>2
<1>9. left[j-1] = 0 /\ makers[j].remaining \in Nat
  BY <1>2, <1>7, <1>8
<1> QED
  BY <1>4, <1>9 DEF Smaller

\* Time priority of FIFO allocation (FifoMatcher, allocation.rs:112-136, in
\* match_level, matching.rs:469-523): nobody trades while an order that came to
\* rest earlier at the same price keeps something to trade.  The policy sees a
\* queue, not stamps: that the two agree is ArrivalOrder.
THEOREM OldestTradeFirst == Spec => TimePriority
<1>1. ASSUME IInv, ArrivalOrder, [Next]_vars, AnswersFifo,
             NEW early \in Ids, NEW late \in Ids,
             nodes[early] # Null, nodes'[early] # Null,
             nodes[late] # Null, nodes'[late] # Null,
             index[early] = index[late],
             nodes[early].arrival < nodes[late].arrival,
             nodes'[late].remaining < nodes[late].remaining
      PROVE  nodes'[early].remaining = 0
  <2> DEFINE side == Opposite(taker.side)
             ids == queue[side][level]
             makers == MakersAt(side, level)
             fills == FifoAllocate(taker.remaining, makers)
  <2>1. Allocate
    <3>1. pc = "stp" /\ pc' = "unlink" /\ pc' # pc
      BY <1>1 DEF AnswersFifo
    <3> QED
      BY <3>1, <1>1 DEF Next, Command, Execution, AwaitCommand, Submit, AddOrder, CancelResting,
           CancelParked, KillUnfillable, StartSweep, ActivateAtOnce, Park, ParkDuplicate,
           TakeLevel, EndSweep, CancelOwn, UnlinkExhausted, LeaveLevel, SettleWithoutRest,
           SettleByResting, SettleFails, SettlePanics, FireStop, EndCascade, vars, counters
  <2>2. nodes[late].side = side /\ nodes[late].type.price = level
    <3>1. PICK given \in [Ids -> Nat] :
            /\ \A id \in Ids : given[id] # 0 =>
                 nodes[id].side = Opposite(taker.side) /\ nodes[id].type.price = level
            /\ \A id \in Ids : given[id] = 0 => nodes'[id] = nodes[id]
      BY <1>1, <2>1, AllocateTotals
    <3>2. given[late] # 0
      <4>1. nodes[late].remaining \in Nat
        BY <1>1, RestingAtLevel DEF Orders
      <4> QED
        BY <1>1, <3>1, <4>1
    <3> QED
      BY <3>1, <3>2
  <2>3. /\ side \in Sides /\ level \in Prices
        /\ index[late] = BookAddress(side, level)
        /\ \E i \in 1 .. Len(ids) : ids[i] = late
    BY <1>1, <2>2, RestingIsQueued
  <2>4. \E i \in 1 .. Len(ids) : ids[i] = early
    BY <1>1, <2>3, IInvParts DEF BookIndexed, IndexedRests
  <2>5. PICK i \in 1 .. Len(ids), j \in 1 .. Len(ids) : ids[i] = early /\ ids[j] = late
    BY <2>3, <2>4
  <2>6. /\ ids \in Seq(Ids) /\ Len(ids) \in Nat /\ DOMAIN ids = 1 .. Len(ids)
    BY <1>1, <2>3, IInvParts, LenProperties DEF TypeOK
  <2>7. \A k \in 1 .. Len(ids) :
          nodes[ids[k]] \in Orders /\ nodes[ids[k]].remaining \in Nat /\ nodes[ids[k]].arrival \in Nat
    BY <1>1, <2>3, QueuedOrder DEF Orders
  <2>8. i < j
    <3>1. i # j
      BY <1>1, <2>5, <2>7
    <3>2. ASSUME j < i PROVE FALSE
      <4>1. j \in 1 .. i - 1
        BY <2>6, <3>2
      <4>2. nodes[ids[j]].arrival < nodes[ids[i]].arrival
        BY <1>1, <2>3, <4>1 DEF ArrivalOrder
      <4> QED
        BY <1>1, <2>5, <2>7, <4>2
    <3> QED
      BY <2>6, <3>1, <3>2
  <2>9. /\ Len(makers) = Len(ids) /\ Queued(makers)
        /\ \A k \in 1 .. Len(ids) : makers[k].remaining = nodes[ids[k]].remaining
    <3>1. makers = [k \in 1 .. Len(ids) |->
                      [remaining |-> nodes[ids[k]].remaining, arrival |-> nodes[ids[k]].arrival]]
      BY <2>6 DEF MakersAt
    <3>2. makers \in Seq([remaining : Nat, arrival : Nat]) /\ Len(makers) = Len(ids)
      <4> HIDE DEF ids, makers
      <4> QED
        BY <2>6, <2>7, <3>1, IsASeq
    <3> HIDE DEF ids, makers
    <3> QED
      BY <2>6, <2>7, <3>1, <3>2 DEF Queued
  <2>10. taker.remaining \in Nat
    <3>1. taker \in Orders
      BY <1>1, <2>1, IInvParts, HandAndLevel DEF Allocate, Executing
    <3> QED
      BY <3>1 DEF Orders
  <2>11. \A k \in 1 .. Len(ids) : nodes'[ids[k]].remaining = nodes[ids[k]].remaining - fills[k]
    BY <1>1, <2>6 DEF AnswersFifo
  <2> HIDE DEF ids, makers, side
  <2>12. fills[j] # 0
    BY <1>1, <2>5, <2>7, <2>11
  <2>13. fills[i] = makers[i].remaining
    BY <2>8, <2>9, <2>10, <2>12, FifoServesOldest
  <2> QED
    BY <2>5, <2>7, <2>9, <2>11, <2>13
<1>2. IInv /\ ArrivalOrder /\ [Next]_vars =>
        [AnswersFifo => \A early, late \in Ids :
           (/\ nodes[early] # Null /\ nodes'[early] # Null
            /\ nodes[late] # Null /\ nodes'[late] # Null
            /\ index[early] = index[late]
            /\ nodes[early].arrival < nodes[late].arrival
            /\ nodes'[late].remaining < nodes[late].remaining)
           => nodes'[early].remaining = 0]_vars
  BY <1>1
<1> QED
  BY <1>2, Inductive, QueuesStayInOrder, PTL DEF Spec, TimePriority

-------------------------------------------------------------------------------
(* Depth *)

\* Max picks the last position of a walk.
LEMMA MaxIsLast ==
  ASSUME NEW T \in SUBSET Nat, IsFiniteSet(T), T # {}
  PROVE  /\ Max(T) \in T
         /\ \A n \in Nat : T = 1 .. n => Max(T) = n
<1>1. \E m \in T : \A i \in T : m >= i
  BY GreatestExists
<1>2. Max(T) \in T /\ \A i \in T : Max(T) >= i
  BY <1>1 DEF Max
<1>3. ASSUME NEW n \in Nat, T = 1 .. n PROVE Max(T) = n
  <2>1. n \in T
    BY <1>3
  <2>2. Max(T) \in 1 .. n /\ Max(T) >= n
    BY <1>2, <1>3, <2>1
  <2> QED
    BY <2>2
<1> QED
  BY <1>2, <1>3

\* Positions up to i, and the last of them.
LEMMA Positions ==
  ASSUME NEW n \in Nat, NEW i \in 0 .. n
  PROVE  /\ 1 .. i \in SUBSET (1 .. n)
         /\ i # 0 => i \in 1 .. i /\ (1 .. i) \ {i} = 1 .. (i - 1)
OBVIOUS

\* A sum along a list, position by position.
LEMMA SumPrefix ==
  ASSUME NEW n \in Nat, NEW f, \A x \in 1 .. n : f[x] \in Nat, NEW i \in 0 .. n
  PROVE  /\ SumFunctionOnSet(f, 1 .. i) \in Nat /\ SumFunctionOnSet(f, 1 .. n) \in Nat
         /\ SumFunctionOnSet(f, 1 .. i) <= SumFunctionOnSet(f, 1 .. n)
         /\ i = 0 => SumFunctionOnSet(f, 1 .. i) = 0
         /\ i # 0 => SumFunctionOnSet(f, 1 .. i) = f[i] + SumFunctionOnSet(f, 1 .. (i - 1))
<1> DEFINE N == 1 .. n
           T == 1 .. i
<1>1. T \in SUBSET N /\ (i = 0 => T = {}) /\ (i # 0 => i \in T /\ T \ {i} = 1 .. (i - 1))
  <2>1. i = 0 => T = {}
    OBVIOUS
  <2> QED
    BY <2>1, Positions
<1>2. IsFiniteSet(N)
  BY FS_Interval
<1>3. \A x \in N : f[x] \in Nat
  OBVIOUS
<1> HIDE DEF N, T
<1>4. IsFiniteSet(T) /\ (\A x \in T : f[x] \in Nat) /\ \A x \in N : f[x] \in Int
  BY <1>1, <1>2, <1>3, FS_Subset
<1>5. SumFunctionOnSet(f, T) \in Nat /\ SumFunctionOnSet(f, N) \in Nat
  BY <1>2, <1>3, <1>4, SumNat
<1>6. SumFunctionOnSet(f, T) <= SumFunctionOnSet(f, N)
  BY <1>1, <1>2, <1>3, SumOfSubset
<1>7. /\ T = {} => SumFunctionOnSet(f, T) = 0
      /\ \A x \in T : SumFunctionOnSet(f, T) = f[x] + SumFunctionOnSet(f, T \ {x})
  BY <1>1, <1>2, <1>4, SumParts
<1> QED
  BY <1>1, <1>5, <1>6, <1>7 DEF N, T

\* A snapshot's total is the sum of what its orders have left, if that fits a word.
LEMMA TotalIsSum ==
  ASSUME NEW snapshot, NEW n \in Nat, DOMAIN snapshot.orders = 1 .. n,
         NEW f, \A i \in 1 .. n : f[i] \in Nat /\ f[i] = snapshot.orders[i].remaining,
         SumFunctionOnSet(f, 1 .. n) < QtyLimit
  PROVE  TotalQuantity(snapshot) = SumFunctionOnSet(f, 1 .. n)
<1> DEFINE os == snapshot.orders
           S == DOMAIN snapshot.orders
           After(i, v) == (v + os[i].remaining) % QtyLimit
           pick == [T \in SUBSET S |-> Max(T)]
           step == [i \in S |-> [v \in Nat |-> After(i, v)]]
           Value(g, T) == IF T = {} THEN 0 ELSE After(Max(T), g[T \ {Max(T)}])
           IsRun(g) == g = [T \in SUBSET S |-> Value(g, T)]
           walk == CHOOSE g : IsRun(g)
<1>1. TotalQuantity(snapshot) = walk[S]
  BY DEF TotalQuantity, FoldLeft, MapThenFoldSet
<1>2. S = 1 .. n /\ IsFiniteSet(S) /\ S \in SUBSET Nat
  <2>1. IsFiniteSet(1 .. n)
    BY FS_Interval
  <2> QED
    BY <2>1
<1>3. \A i \in S : f[i] \in Nat /\ f[i] = os[i].remaining
  BY <1>2
<1> HIDE DEF os
<1>4. \A i \in S, v \in Nat : After(i, v) \in Nat
  BY <1>3, OrderBookAssumption
<1>5. \A T \in SUBSET S : T # {} => Max(T) \in T
  <2> SUFFICES ASSUME NEW T \in SUBSET S, T # {} PROVE Max(T) \in T
    OBVIOUS
  <2>1. T \in SUBSET Nat /\ IsFiniteSet(T)
    BY <1>2, FS_Subset
  <2> QED
    BY <2>1, MaxIsLast
<1> HIDE DEF S, After
<1>6. PICK g \in Unwindings(S, Nat, 0, pick, step) : TRUE
  <2>1. \A T \in SUBSET S : T # {} => pick[T] \in T
    BY <1>5
  <2>2. step \in [S -> [Nat -> Nat]]
    BY <1>4
  <2> HIDE DEF pick, step
  <2>3. IsWalkable(S, Nat, 0, pick, step)
    BY <1>2, <2>1, <2>2 DEF IsWalkable
  <2> QED
    BY <2>3, UnwindingExists
<1>7. g \in [SUBSET S -> Nat]
  BY <1>6 DEF Unwindings
<1>8. ASSUME NEW T \in SUBSET S PROVE g[T] = Value(g, T)
  <2>1. CASE T = {}
    BY <2>1, <1>6 DEF Unwindings
  <2>2. CASE T # {}
    <3> DEFINE i == Max(T)
               v == g[T \ {i}]
    <3>1. pick[T] = i /\ i \in S
      BY <1>5, <2>2
    <3>2. v \in Nat
      BY <1>7
    <3>3. g[T] = step[pick[T]][g[T \ {pick[T]}]]
      <4> HIDE DEF pick, step
      <4> QED
        BY <1>6, <2>2 DEF Unwindings
    <3>4. step[i][v] = After(i, v)
      <4> HIDE DEF i, v
      <4> QED
        BY <3>1, <3>2
    <3> QED
      BY <2>2, <3>1, <3>3, <3>4
  <2> QED
    BY <2>1, <2>2
<1>9. IsRun(walk)
  <2>1. IsRun(g)
    <3> HIDE DEF Value
    <3> QED
      BY <1>7, <1>8
  <2> HIDE DEF IsRun
  <2> QED
    BY <2>1
<1> HIDE DEF walk
<1>10. \A T \in SUBSET S : walk[T] = Value(walk, T)
  <2> HIDE DEF Value
  <2> QED
    BY <1>9
<1> DEFINE F(i) == SumFunctionOnSet(f, 1 .. i)
           G == {i \in 0 .. n : walk[1 .. i] = F(i)}
<1>11. ASSUME NEW i \in 0 .. n
       PROVE  /\ F(i) \in Nat /\ F(i) < QtyLimit
              /\ i # 0 => F(i) = f[i] + F(i - 1)
  <2>1. \A x \in 1 .. n : f[x] \in Nat
    OBVIOUS
  <2>2. F(i) \in Nat /\ F(n) \in Nat /\ F(i) <= F(n) /\ (i # 0 => F(i) = f[i] + F(i - 1))
    BY <2>1, SumPrefix
  <2>3. F(n) < QtyLimit
    OBVIOUS
  <2> HIDE DEF F
  <2> QED
    BY <2>2, <2>3, OrderBookAssumption
<1>12. F(0) = 0
  <2>1. \A x \in 1 .. n : f[x] \in Nat
    OBVIOUS
  <2>2. 0 \in 0 .. n
    OBVIOUS
  <2> QED
    BY <2>1, <2>2, SumPrefix
<1>13. 0 \in G
  <2>1. 1 .. 0 = {} /\ {} \in SUBSET S
    OBVIOUS
  <2>2. walk[{}] = 0
    BY <1>10, <2>1
  <2> HIDE DEF F
  <2> QED
    BY <1>12, <2>1, <2>2
<1>14. ASSUME NEW i \in 0 .. n - 1, i \in G PROVE i + 1 \in G
  <2> DEFINE k == i + 1
             T == 1 .. k
  <2>0. k \in 1 .. n /\ k \in 0 .. n /\ k # 0 /\ k - 1 = i /\ k \in Nat
    OBVIOUS
  <2>3. T = 1 .. k
    OBVIOUS
  <2>1. T # {} /\ T \ {k} = 1 .. i /\ T \in SUBSET (1 .. n)
    <3> HIDE DEF k
    <3> QED
      BY <2>0, Positions
  <2>2. T \in SUBSET S /\ IsFiniteSet(T) /\ T \in SUBSET Nat
    BY <1>2, <2>1, FS_Subset
  <2> HIDE DEF T, k
  <2>4. Max(T) = k
    BY <2>0, <2>1, <2>2, <2>3, MaxIsLast
  <2>5. walk[T] = After(k, walk[1 .. i])
    BY <1>10, <2>1, <2>2, <2>4
  <2>6. walk[1 .. i] = F(i)
    BY <1>14
  <2>7. F(k) = f[k] + F(i) /\ F(k) \in Nat /\ F(k) < QtyLimit /\ F(i) \in Nat
    BY <1>11, <2>0
  <2>8. f[k] \in Nat /\ f[k] = os[k].remaining
    BY <1>2, <1>3, <2>0
  <2> HIDE DEF F
  <2>9. After(k, F(i)) = F(k) % QtyLimit
    <3>1. F(i) + os[k].remaining = F(k)
      BY <2>7, <2>8
    <3> QED
      BY <3>1 DEF After
  <2>10. F(k) % QtyLimit = F(k)
    BY <2>7, Wraps, OrderBookAssumption
  <2> QED
    BY <2>0, <2>3, <2>5, <2>6, <2>9, <2>10 DEF k
<1>15. \A i \in 0 .. n : i \in G
  <2> HIDE DEF G
  <2> QED
    BY <1>13, <1>14, UpTo
<1>16. n \in G
  BY <1>15
<1> QED
  BY <1>1, <1>2, <1>16

\* What every resting order has left.
Remaining == [id \in Ids |-> IF nodes[id] # Null THEN nodes[id].remaining ELSE 0]

\* What is left at one price of a side.
LevelSum(side, price) == SumFunctionOnSet(Remaining, AtPrices(side, {price}))

\* The total shown of a level is what its orders have left, if that fits a word.
LEMMA LevelTotal ==
  ASSUME IInv, NEW side \in Sides, NEW price \in Prices, LevelSum(side, price) < QtyLimit
  PROVE  TotalQuantity(Snapshot(side, price)) = LevelSum(side, price)
<1> DEFINE ids == queue[side][price]
           n == Len(ids)
           S == AtPrices(side, {price})
           r == Remaining
           shown == Snapshot(side, price)
           left == [i \in 1 .. n |-> nodes[ids[i]].remaining]
           name == [i \in 1 .. n |-> ids[i]]
<1>1. TypeOK /\ RestingIsIndexed
  BY IInvParts DEF BookIndexed
<1>2. ids \in Seq(Ids) /\ n \in Nat /\ DOMAIN ids = 1 .. n
  <2>1. ids \in Seq(Ids)
    BY <1>1 DEF TypeOK
  <2> QED
    BY <2>1, LenProperties
<1>3. ASSUME NEW i \in 1 .. n
      PROVE  /\ ids[i] \in S /\ ids[i] \in Ids
             /\ nodes[ids[i]] # Null /\ nodes[ids[i]].remaining \in Nat
             /\ r[ids[i]] = nodes[ids[i]].remaining
  <2>1. /\ ids[i] \in Ids /\ nodes[ids[i]] \in Orders
        /\ nodes[ids[i]].side = side /\ nodes[ids[i]].type.price = price
    BY <1>3, QueuedOrder
  <2>2. nodes[ids[i]] # Null /\ nodes[ids[i]].remaining \in Nat
    BY <2>1, NullAssumption DEF Orders
  <2> HIDE DEF ids
  <2> QED
    BY <2>1, <2>2 DEF AtPrices, Remaining
<1>4. \A i, j \in 1 .. n : ids[i] = ids[j] => i = j
  BY <1>1 DEF RestingIsIndexed
<1>5. ASSUME NEW id \in S PROVE \E i \in 1 .. n : ids[i] = id
  BY <1>5, RestingIsQueued DEF AtPrices
<1>6. DOMAIN shown.orders = 1 .. n /\ \A i \in 1 .. n : shown.orders[i] = nodes[ids[i]]
  <2> DEFINE orders == [i \in DOMAIN queue[side][price] |-> nodes[queue[side][price][i]]]
  <2>1. shown.orders = orders
    BY DEF Snapshot, NewLevel
  <2> QED
    BY <1>2, <2>1
<1>7. S \in SUBSET Ids /\ IsFiniteSet(S) /\ IsFiniteSet(1 .. n)
  <2>1. S \in SUBSET Ids
    BY DEF AtPrices
  <2>2. IsFiniteSet(S)
    <3> HIDE DEF S
    <3> QED
      BY <2>1, IdsAreFinite, FS_Subset
  <2>3. IsFiniteSet(1 .. n)
    <3> HIDE DEF n
    <3> QED
      BY <1>2, FS_Interval
  <2> QED
    BY <2>1, <2>2, <2>3
<1>8. \A id \in S : r[id] \in Int
  <2> SUFFICES ASSUME NEW id \in S PROVE r[id] \in Int
    OBVIOUS
  <2> HIDE DEF r, ids, S, n
  <2>1. PICK i \in 1 .. n : ids[i] = id
    BY <1>5
  <2>2. r[ids[i]] = nodes[ids[i]].remaining /\ nodes[ids[i]].remaining \in Nat
    BY <1>3
  <2> QED
    BY <2>1, <2>2
<1>9. SumFunctionOnSet(r, S) < QtyLimit
  BY DEF LevelSum
<1> HIDE DEF ids, S, r, shown, n
<1>10. /\ name \in [1 .. n -> S]
       /\ \A i \in 1 .. n : left[i] = r[name[i]]
       /\ \A i, j \in 1 .. n : name[i] = name[j] => i = j
       /\ \A id \in S : \E i \in 1 .. n : name[i] = id
       /\ \A i \in 1 .. n : left[i] \in Nat /\ left[i] = shown.orders[i].remaining
  <2>1. \A i \in 1 .. n : left[i] = nodes[ids[i]].remaining /\ name[i] = ids[i]
    OBVIOUS
  <2>2. name \in [1 .. n -> S]
    BY <1>3
  <2> HIDE DEF left, name
  <2>3. \A i \in 1 .. n : left[i] = r[name[i]] /\ left[i] \in Nat
    BY <1>3, <2>1
  <2>4. \A i \in 1 .. n : left[i] = shown.orders[i].remaining
    BY <1>6, <2>1
  <2> QED
    BY <1>4, <1>5, <2>1, <2>2, <2>3, <2>4
<1> HIDE DEF left, name
<1>11. SumFunctionOnSet(left, 1 .. n) = SumFunctionOnSet(r, S)
  <2> DEFINE T == 1 .. n
  <2>1. /\ IsFiniteSet(T) /\ name \in [T -> S]
        /\ \A i \in T : left[i] = r[name[i]]
        /\ \A i, j \in T : name[i] = name[j] => i = j
        /\ \A id \in S : \E i \in T : name[i] = id
    BY <1>7, <1>10
  <2> HIDE DEF T
  <2>2. SumFunctionOnSet(left, T) = SumFunctionOnSet(r, S)
    BY <1>7, <1>8, <2>1, SumRenamed
  <2> QED
    BY <2>2 DEF T
<1>12. TotalQuantity(shown) = SumFunctionOnSet(left, 1 .. n)
  BY SMTT(30), <1>2, <1>6, <1>9, <1>10, <1>11, TotalIsSum
<1> QED
  BY <1>11, <1>12 DEF LevelSum, shown, r, S

\* A side's prices, best first.
LEMMA PricesInOrder ==
  ASSUME NEW side \in Sides, NEW S \in SUBSET Prices
  PROVE  /\ IsOrder(BetterFirst(side), S) /\ IsFiniteSet(S)
         /\ \A p, q \in S : <<p, q>> \in BetterFirst(side) <=> Better(side, p, q)
<1>1. \A p, q \in S : <<p, q>> \in BetterFirst(side) <=> Better(side, p, q)
  BY DEF BetterFirst
<1>2. \A p \in S : p \in Nat
  BY PricesAssumption
<1>3. IsOrder(BetterFirst(side), S)
  BY <1>1, <1>2 DEF IsOrder, Better, Sides
<1> QED
  BY <1>1, <1>3, PricesAssumption, FS_Subset

\* levels lists a side's levels best first, and its touch is the first of them.
LEMMA LevelsInOrder ==
  ASSUME TypeOK, NEW side \in Sides, NEW s, s = LevelsBestFirst(side)
  PROVE  /\ Len(s) \in Nat /\ s = [i \in 1 .. Len(s) |-> s[i]]
         /\ Len(s) = Cardinality(levels[side]) /\ Len(s) <= Cardinality(Prices)
         /\ \A i \in 1 .. Len(s) : s[i] \in levels[side] /\ s[i] \in Prices
         /\ \A i, j \in 1 .. Len(s) : i < j => Better(side, s[i], s[j])
         /\ \A i, j \in 1 .. Len(s) : s[i] = s[j] => i = j
         /\ \A p \in levels[side] : \E i \in 1 .. Len(s) : s[i] = p
         /\ BestPrice(side) = IF Len(s) = 0 THEN Null ELSE s[1]
<1> DEFINE S == levels[side]
           R == BetterFirst(side)
<1>1. S \in SUBSET Prices
  BY DEF TypeOK
<1>2. IsRanked(s, S, R)
  BY DEF LevelsBestFirst, Ranked, IsRanked
<1>3. BestPrice(side) = IF S = {} THEN Null ELSE Best(side)
  BY DEF BestPrice
<1>4. S # {} => Best(side) \in S /\ \A q \in S : q = Best(side) \/ Better(side, Best(side), q)
  BY <1>1, BestExists DEF Best
<1> HIDE DEF S, R
<1>5. IsOrder(R, S) /\ IsFiniteSet(S) /\ \A p, q \in S : <<p, q>> \in R <=> Better(side, p, q)
  BY <1>1, PricesInOrder DEF R
<1>6. InOrder(s, S, R) /\ Len(s) = Cardinality(S)
  BY <1>2, <1>5, RankedInOrder
<1>7. Len(s) \in Nat /\ s = [i \in 1 .. Len(s) |-> s[i]] /\ \A i \in 1 .. Len(s) : s[i] \in S
  BY <1>6, InOrderFacts
<1>8. \A i, j \in 1 .. Len(s) : i < j => <<s[i], s[j]>> \in R
  BY <1>6 DEF InOrder
<1>9. \A i, j \in 1 .. Len(s) : i < j => Better(side, s[i], s[j])
  BY <1>5, <1>7, <1>8
<1>10. \A i, j \in 1 .. Len(s) : s[i] = s[j] => i = j
  <2> SUFFICES ASSUME NEW i \in 1 .. Len(s), NEW j \in 1 .. Len(s), i < j PROVE s[i] # s[j]
    BY <1>7
  <2>1. <<s[i], s[j]>> \in R
    BY <1>8
  <2> QED
    BY <1>5, <1>7, <2>1 DEF IsOrder
<1>11. \A p \in S : \E i \in 1 .. Len(s) : s[i] = p
  BY <1>6 DEF InOrder
<1>12. Cardinality(S) <= Cardinality(Prices)
  BY <1>1, PricesAssumption, FS_Subset
<1>13. BestPrice(side) = IF Len(s) = 0 THEN Null ELSE s[1]
  <2>1. CASE Len(s) = 0
    <3>1. S = {}
      BY <1>11, <2>1
    <3> QED
      BY <1>3, <2>1, <3>1
  <2>2. CASE Len(s) # 0
    <3>1. 1 \in 1 .. Len(s) /\ s[1] \in S /\ S # {}
      BY <1>7, <2>2
    <3>2. PICK k \in 1 .. Len(s) : s[k] = Best(side)
      BY <1>4, <1>11, <3>1
    <3>3. k = 1 \/ 1 < k
      BY <1>7
    <3>4. s[1] = s[k] \/ Better(side, s[1], s[k])
      BY <1>9, <3>1, <3>3
    <3>5. s[1] = Best(side) \/ Better(side, Best(side), s[1])
      BY <1>4, <3>1
    <3>6. s[1] = Best(side)
      BY <1>1, <1>4, <3>1, <3>2, <3>4, <3>5, BestIsUnique
    <3> QED
      BY <1>3, <2>2, <3>1, <3>6
  <2> QED
    BY <2>1, <2>2
<1> QED
  BY <1>1, <1>6, <1>7, <1>9, <1>10, <1>11, <1>12, <1>13 DEF S

\* No level holds more than a word of quantity: total_quantity sums unchecked.
LevelsFitWord ==
  pc = "idle" => \A side \in Sides, price \in Prices : LevelSum(side, price) < QtyLimit

\* What a level holds is a positive number, level by level all of a side.
LEMMA LevelSums ==
  ASSUME IInv, OpenMakers, pc = "idle", NEW side \in Sides, NEW sums,
         \A p \in levels[side] : sums[p] = LevelSum(side, p)
  PROVE  /\ \A p \in levels[side] : LevelSum(side, p) \in Nat \ {0}
         /\ SumFunctionOnSet(sums, levels[side])
              = Total([id \in {id \in Ids : nodes[id] # Null /\ nodes[id].side = side}
                         |-> nodes[id].remaining])
<1> DEFINE I == levels[side]
           S == {id \in Ids : nodes[id] # Null /\ nodes[id].side = side}
           r == Remaining
           left == [id \in S |-> nodes[id].remaining]
           key == [id \in Ids |-> nodes[id].type.price]
           At(p) == AtPrices(side, {p})
<1>1. TypeOK /\ LevelsAreActive
  BY IInvParts
<1>2. I \in SUBSET Prices /\ IsFiniteSet(I)
  <2>1. I \in SUBSET Prices
    BY <1>1 DEF TypeOK
  <2> HIDE DEF I
  <2> QED
    BY <2>1, PricesAssumption, FS_Subset
<1>3. ASSUME NEW id \in Ids
      PROVE  r[id] \in Nat /\ r[id] \in Int /\ (id \in S => r[id] = nodes[id].remaining)
  BY <1>1 DEF Remaining, TypeOK, Orders
<1>4. S \in SUBSET Ids /\ IsFiniteSet(S)
  BY IdsAreFinite, FS_Subset
<1>5. ASSUME NEW id \in S PROVE key[id] \in I
  <2>1. id \in Ids /\ nodes[id] # Null /\ nodes[id].side = side /\ key[id] = nodes[id].type.price
    OBVIOUS
  <2>2. /\ nodes[id].type.price \in Prices
        /\ \E i \in 1 .. Len(queue[side][nodes[id].type.price]) : queue[side][nodes[id].type.price][i] = id
    BY <2>1, RestingIsQueued
  <2>3. queue[side][nodes[id].type.price] # <<>>
    BY <2>2
  <2> QED
    BY <1>1, <2>1, <2>2, <2>3 DEF LevelsAreActive
<1>6. ASSUME NEW p \in I
      PROVE  At(p) = {id \in S : key[id] = p} /\ At(p) \in SUBSET S
  BY DEF AtPrices
<1>7. ASSUME NEW p \in I PROVE LevelSum(side, p) \in Nat \ {0}
  <2>1. p \in Prices /\ queue[side][p] # <<>> /\ queue[side][p] \in Seq(Ids)
    BY <1>1, <1>2, <1>7 DEF LevelsAreActive, TypeOK
  <2>2. 1 \in 1 .. Len(queue[side][p])
    BY <2>1, EmptySeq, LenProperties
  <2> DEFINE x == queue[side][p][1]
             T == At(p)
  <2>3. x \in Ids /\ nodes[x] \in Orders /\ nodes[x].side = side /\ nodes[x].type.price = p
    BY <2>1, <2>2, QueuedOrder
  <2>4. x \in T /\ nodes[x] # Null
    BY <2>3, NullAssumption DEF AtPrices
  <2>5. T \in SUBSET Ids /\ IsFiniteSet(T)
    <3>1. T \in SUBSET Ids
      BY <1>4, <1>6
    <3> HIDE DEF T
    <3> QED
      BY <3>1, IdsAreFinite, FS_Subset
  <2> HIDE DEF x, T
  <2>6. r[x] # 0
    <3>1. nodes[x].remaining # 0
      BY <2>3, <2>4 DEF OpenMakers
    <3> QED
      BY <2>3, <2>4, <3>1 DEF Remaining
  <2> HIDE DEF r
  <2>7. (\A id \in Ids : r[id] \in Int) /\ \A id \in T \ {x} : r[id] \in Nat
    BY <1>3, <2>5
  <2>8. SumFunctionOnSet(r, T) = r[x] + SumFunctionOnSet(r, T \ {x})
    BY <2>4, <2>5, <2>7, IdsAreFinite, SumParts
  <2>9. SumFunctionOnSet(r, T \ {x}) \in Nat
    BY <2>5, <2>7, SumNat, FS_Subset
  <2>10. r[x] \in Nat
    BY <1>3, <2>3
  <2> QED
    BY <2>6, <2>8, <2>9, <2>10 DEF LevelSum, T, r
<1>8. \A p \in I : sums[p] = SumFunctionOnSet(r, {id \in S : key[id] = p})
  <2> SUFFICES ASSUME NEW p \in I PROVE sums[p] = SumFunctionOnSet(r, {id \in S : key[id] = p})
    OBVIOUS
  <2>1. sums[p] = SumFunctionOnSet(r, At(p))
    BY DEF LevelSum
  <2> HIDE DEF At, S, key, I, r
  <2> QED
    BY <1>6, <2>1
<1>9. Total(left) = SumFunctionOnSet(left, S)
  BY DEF Total, SumFunction
<1>10. \A id \in S : left[id] = r[id]
  BY <1>3
<1>11. (\A id \in S : r[id] \in Int) /\ \A id \in S : key[id] \in I
  BY <1>3, <1>4, <1>5
<1> HIDE DEF S, r, left, key, I
<1>12. SumFunctionOnSet(left, S) = SumFunctionOnSet(r, S)
  BY <1>4, <1>10, <1>11, SumSame
<1>13. SumFunctionOnSet(sums, I) = SumFunctionOnSet(r, S)
  <2>1. IsGrouping(sums, I, key, r, S)
    BY <1>8, <1>11 DEF IsGrouping
  <2> QED
    BY <1>2, <1>4, <1>11, <2>1, SumByKey
<1> QED
  BY <1>7, <1>9, <1>12, <1>13 DEF I, left, S

\* A shallower depth is a prefix of a deeper one.
LEMMA ShallowDepth ==
  ASSUME TypeOK, NEW side \in Sides, NEW count \in Nat
  PROVE  LET s == LevelsBestFirst(side)
             shown == [p \in Prices |-> [price |-> p, total |-> TotalQuantity(Snapshot(side, p))]]
         IN  count <= Len(s) => Depth(side, count) = [n \in 1 .. count |-> shown[s[n]]]
<1> DEFINE s == LevelsBestFirst(side)
           line(p) == [price |-> p, total |-> TotalQuantity(Snapshot(side, p))]
           shown == [p \in Prices |-> line(p)]
<1>1. Len(s) \in Nat /\ \A n \in 1 .. Len(s) : s[n] \in Prices
  BY LevelsInOrder
<1>2. Depth(side, count) = [n \in 1 .. Smaller(count, Len(s)) |-> line(s[n])]
  BY DEF Depth
<1> SUFFICES ASSUME count <= Len(s) PROVE Depth(side, count) = [n \in 1 .. count |-> shown[s[n]]]
  OBVIOUS
<1> HIDE DEF s, line
<1>3. Smaller(count, Len(s)) = count
  BY <1>1 DEF Smaller
<1>4. \A n \in 1 .. count : shown[s[n]] = line(s[n])
  BY <1>1
<1> QED
  BY <1>2, <1>3, <1>4

\* What the depth of a side shows, next to its orders and its touch.
LEMMA SideDepth ==
  ASSUME IInv, OpenMakers, LevelsFitWord, pc = "idle", NEW side \in Sides
  PROVE  LET depth == Depth(side, Cardinality(Prices))
             resting == {id \in Ids : nodes[id] # Null /\ nodes[id].side = side}
         IN  /\ Total([n \in DOMAIN depth |-> depth[n].total])
                  = Total([id \in resting |-> nodes[id].remaining])
             /\ \A n \in DOMAIN depth : depth[n].total > 0
             /\ \A m, n \in DOMAIN depth : m < n => Better(side, depth[m].price, depth[n].price)
             /\ \A count \in 0 .. Len(depth) : Depth(side, count) = SubSeq(depth, 1, count)
             /\ BestPrice(side) = IF depth = <<>> THEN Null ELSE Head(depth).price
<1> DEFINE depth == Depth(side, Cardinality(Prices))
           left == Total([id \in {id \in Ids : nodes[id] # Null /\ nodes[id].side = side} |-> nodes[id].remaining])
           s == LevelsBestFirst(side)
           K == Len(s)
           I == levels[side]
           line(p) == [price |-> p, total |-> TotalQuantity(Snapshot(side, p))]
           shown == [p \in Prices |-> line(p)]
           sums == [p \in Prices |-> LevelSum(side, p)]
           totals == [n \in DOMAIN depth |-> depth[n].total]
           name == [n \in 1 .. K |-> s[n]]
<1>1. TypeOK
  BY IInvParts
<1>2. I \in SUBSET Prices /\ IsFiniteSet(I) /\ Cardinality(Prices) \in Nat
  <2>1. I \in SUBSET Prices
    BY <1>1 DEF TypeOK
  <2> HIDE DEF I
  <2> QED
    BY <2>1, PricesAssumption, FS_Subset, FS_CardinalityType
<1>3. /\ K \in Nat /\ K <= Cardinality(Prices)
      /\ \A n \in 1 .. K : s[n] \in I /\ s[n] \in Prices
      /\ \A m, n \in 1 .. K : m < n => Better(side, s[m], s[n])
      /\ \A m, n \in 1 .. K : s[m] = s[n] => m = n
      /\ \A p \in I : \E n \in 1 .. K : s[n] = p
      /\ BestPrice(side) = IF K = 0 THEN Null ELSE s[1]
  BY <1>1, LevelsInOrder
<1>4. ASSUME NEW count \in 0 .. K PROVE Depth(side, count) = [n \in 1 .. count |-> shown[s[n]]]
  <2>1. count \in Nat /\ count <= Len(s)
    BY <1>3
  <2> QED
    BY <1>1, <2>1, ShallowDepth
<1>5. depth = [n \in 1 .. K |-> shown[s[n]]]
  <2>1. depth = [n \in 1 .. Smaller(Cardinality(Prices), K) |-> line(s[n])]
    BY DEF Depth
  <2> HIDE DEF line, s, K
  <2>2. Smaller(Cardinality(Prices), K) = K
    BY <1>2, <1>3 DEF Smaller
  <2>3. \A n \in 1 .. K : shown[s[n]] = line(s[n])
    BY <1>3
  <2> QED
    BY <2>1, <2>2, <2>3
<1>6. /\ \A p \in I : LevelSum(side, p) \in Nat \ {0} /\ sums[p] = LevelSum(side, p)
      /\ SumFunctionOnSet(sums, I) = left
  <2>1. \A p \in I : sums[p] = LevelSum(side, p)
    BY <1>2
  <2> HIDE DEF sums
  <2> QED
    BY <2>1, LevelSums
<1>7. ASSUME NEW p \in I
      PROVE  shown[p].price = p /\ shown[p].total = sums[p] /\ sums[p] \in Nat /\ sums[p] > 0
  <2>1. p \in Prices /\ LevelSum(side, p) < QtyLimit
    BY <1>2 DEF LevelsFitWord
  <2>2. TotalQuantity(Snapshot(side, p)) = LevelSum(side, p)
    BY <2>1, LevelTotal
  <2> QED
    BY <1>6, <2>1, <2>2
<1> HIDE DEF depth, s, I, shown, sums, left
<1>8. DOMAIN depth = 1 .. K /\ Len(depth) = K /\ \A n \in 1 .. K : depth[n] = shown[s[n]]
  <2> DEFINE f == [n \in 1 .. K |-> shown[s[n]]]
  <2>1. DOMAIN f = 1 .. K /\ Len(f) = K /\ \A n \in 1 .. K : f[n] = shown[s[n]]
    <3> HIDE DEF K
    <3> QED
      BY <1>3
  <2> HIDE DEF f
  <2>2. depth = f
    BY <1>5 DEF f
  <2> QED
    BY <2>1, <2>2
<1> HIDE DEF K
<1>9. \A n \in DOMAIN depth :
        depth[n].price = s[n] /\ depth[n].total = sums[s[n]] /\ depth[n].total > 0
  BY <1>3, <1>7, <1>8
<1>10. Total(totals) = left
  <2>1. Total(totals) = SumFunctionOnSet(totals, 1 .. K)
    BY <1>8 DEF Total, SumFunction
  <2> DEFINE T == 1 .. K
  <2>2. /\ IsFiniteSet(T) /\ name \in [T -> I]
        /\ \A n \in T : totals[n] = sums[name[n]]
        /\ \A m, n \in T : name[m] = name[n] => m = n
        /\ \A p \in I : \E n \in T : name[n] = p
    <3>1. IsFiniteSet(T) /\ \A n \in T : name[n] = s[n]
      BY <1>3, FS_Interval
    <3>2. name \in [T -> I]
      BY <1>3
    <3>3. \A n \in T : totals[n] = sums[name[n]]
      BY <1>8, <1>9, <3>1
    <3> HIDE DEF name
    <3> QED
      BY SMTT(30), <1>3, <3>1, <3>2, <3>3
  <2>3. \A p \in I : sums[p] \in Int
    BY <1>7
  <2> HIDE DEF T, name, totals
  <2>4. SumFunctionOnSet(totals, T) = SumFunctionOnSet(sums, I)
    BY <1>2, <2>2, <2>3, SumRenamed
  <2> QED
    BY <1>6, <2>1, <2>4 DEF T
<1>11. \A m, n \in DOMAIN depth : m < n => Better(side, depth[m].price, depth[n].price)
  BY <1>3, <1>8, <1>9
<1>12. ASSUME NEW count \in 0 .. Len(depth) PROVE Depth(side, count) = SubSeq(depth, 1, count)
  <2>1. count \in Nat /\ count \in 0 .. K
    BY <1>3, <1>8
  <2>2. Depth(side, count) = [n \in 1 .. count |-> shown[s[n]]]
    BY <1>4, <2>1
  <2>3. SubSeq(depth, 1, count) = [n \in 1 .. count |-> depth[n]]
    BY <2>1
  <2>4. \A n \in 1 .. count : depth[n] = shown[s[n]]
    BY <1>3, <1>8, <2>1
  <2> QED
    BY <2>2, <2>3, <2>4
<1>13. BestPrice(side) = IF depth = <<>> THEN Null ELSE Head(depth).price
  <2>1. CASE K = 0
    <3>1. depth = <<>>
      BY <1>5, <2>1
    <3> QED
      BY <1>3, <2>1, <3>1
  <2>2. CASE K # 0
    <3>1. 1 \in 1 .. K
      BY <1>3, <2>2
    <3>2. depth # <<>> /\ Head(depth) = depth[1]
      BY <1>8, <3>1
    <3> QED
      BY <1>3, <1>8, <1>9, <2>2, <3>1, <3>2
  <2> QED
    BY <2>1, <2>2
<1> QED
  BY <1>9, <1>10, <1>11, <1>12, <1>13 DEF depth, left

\* The touches of an uncrossed book are a positive spread apart.
LEMMA SpreadIsPositive ==
  ASSUME TypeOK, NeverCrossed
  PROVE  Spread # Null => Spread > 0 /\ BestPrice("ask") = BestPrice("bid") + Spread
<1> DEFINE bid == BestPrice("bid")
           ask == BestPrice("ask")
<1>1. ASSUME NEW side \in Sides, BestPrice(side) # Null
      PROVE  BestPrice(side) \in levels[side] /\ BestPrice(side) \in Nat
  <2> DEFINE s == LevelsBestFirst(side)
  <2>1. /\ Len(s) \in Nat
        /\ \A n \in 1 .. Len(s) : s[n] \in levels[side] /\ s[n] \in Prices
        /\ BestPrice(side) = IF Len(s) = 0 THEN Null ELSE s[1]
    BY LevelsInOrder
  <2> HIDE DEF s
  <2>2. Len(s) # 0 /\ BestPrice(side) = s[1]
    BY <1>1, <2>1
  <2>3. 1 \in 1 .. Len(s)
    BY <2>1, <2>2
  <2>4. s[1] \in levels[side] /\ s[1] \in Prices
    BY <2>1, <2>3
  <2> QED
    BY <2>2, <2>4, PricesAssumption
<1> SUFFICES ASSUME Spread # Null PROVE Spread > 0 /\ ask = bid + Spread
  OBVIOUS
<1>2. bid # Null /\ ask # Null
  BY DEF Spread
<1>3. bid \in Nat /\ ask \in Nat /\ bid < ask
  BY <1>1, <1>2 DEF NeverCrossed, Sides
<1>4. Spread = ask - bid
  BY <1>2, <1>3 DEF Spread
<1> HIDE DEF bid, ask
<1> QED
  BY <1>3, <1>4

\* The queries show one book, for every instance: summed depth is what rests on
\* the side, best first, its head the touch, and a book built by submissions has
\* a positive spread (orderbook.rs:316-347).
THEOREM DepthIsWhole == ASSUME CallerIds = {} PROVE Spec /\ []LevelsFitWord => []DepthAddsUp
<1>1. IInv /\ SweepInv /\ NeverCrossed /\ LevelsFitWord => DepthAddsUp
  <2> SUFFICES ASSUME IInv, SweepInv, NeverCrossed, LevelsFitWord, pc = "idle" PROVE DepthAddsUp
    BY DEF DepthAddsUp
  <2>1. TypeOK /\ OpenMakers
    BY IInvParts DEF SweepInv
  <2> QED
    BY <2>1, SideDepth, SpreadIsPositive DEF DepthAddsUp
<1>2. Spec => []SweepInv
  BY SweepsAreThorough DEF NoSpentSeeds
<1> QED
  BY <1>1, <1>2, Inductive, BookNeverCrossed, PTL

===============================================================================
