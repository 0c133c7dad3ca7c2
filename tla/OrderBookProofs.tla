---------------------------- MODULE OrderBookProofs ----------------------------
(***************************************************************************)
(* The state of OrderBook keeps its types, and the index, the arena, the   *)
(* level queues and the stop book agree at every step, for every set of    *)
(* clients, prices, requests and caller ids and every policy.              *)
(***************************************************************************)
EXTENDS OrderBook, DataProofs

-------------------------------------------------------------------------------
(* Best prices *)

\* A set of prices has a best one for either side.
LEMMA BestExists ==
  ASSUME NEW side \in Sides, NEW S \in SUBSET Prices, S # {}
  PROVE  \E p \in S : \A q \in S : q = p \/ Better(side, p, q)
<1>1. S \in SUBSET Nat /\ IsFiniteSet(S)
  BY PricesAssumption, FS_Subset
<1>2. CASE side = "bid"
  <2>1. PICK m \in S : \A n \in S : n <= m
    BY <1>1, GreatestExists
  <2>2. \A q \in S : q = m \/ Better(side, m, q)
    BY <2>1, <1>1, <1>2 DEF Better
  <2> QED
    BY <2>2
<1>3. CASE side = "ask"
  <2>1. PICK m \in S : \A n \in S : m <= n
    BY <1>1, LeastExists
  <2>2. \A q \in S : q = m \/ Better(side, m, q)
    BY <2>1, <1>1, <1>3 DEF Better
  <2> QED
    BY <2>2
<1> QED
  BY <1>2, <1>3 DEF Sides

\* A side quotes one best price: prices of which neither is better are equal.
LEMMA BestIsUnique ==
  ASSUME NEW side \in Sides, NEW p \in Prices, NEW q \in Prices,
         q = p \/ Better(side, p, q), p = q \/ Better(side, q, p)
  PROVE  p = q
BY PricesAssumption DEF Better, Sides

-------------------------------------------------------------------------------
(* The touch of a side *)

\* The touch of a side with orders is one of its levels (BookSide::best).
LEMMA BestIsLevel ==
  ASSUME TypeOK, NEW side \in Sides, levels[side] # {}
  PROVE  Best(side) \in levels[side]
<1>1. levels[side] \in SUBSET Prices
  BY DEF TypeOK
<1> QED
  BY <1>1, BestExists DEF Best

\* The trigger a cascade examines has parked orders (pop_triggered_stop).
LEMMA NearestIsTrigger ==
  ASSUME TypeOK, NEW side \in Sides, triggers[side] # {}
  PROVE  NearestTrigger(side) \in triggers[side]
<1>1. triggers[side] \in SUBSET Prices
  BY DEF TypeOK
<1>2. Opposite(side) \in Sides
  BY DEF Opposite, Sides
<1> QED
  BY <1>1, <1>2, BestExists DEF NearestTrigger

-------------------------------------------------------------------------------
(* Orders *)

\* A side and its opposite are two different sides.
LEMMA OppositeSide ==
  ASSUME NEW side \in Sides
  PROVE  Opposite(side) \in Sides /\ Opposite(side) # side
BY DEF Opposite, Sides

\* What a limit carries, and what a stop carries (OrderType).
LEMMA OrderTypeParts ==
  ASSUME NEW type \in OrderTypes
  PROVE  /\ type.kind = "limit" => type.price \in Prices
         /\ IsStop(type) => type.trigger \in Prices
BY DEF OrderTypes, LimitTypes, MarketTypes, StopTypes, StopMarketTypes, StopLimitTypes, IsStop

\* A triggered stop is an order again (activate, matching.rs).
LEMMA ActivateType ==
  ASSUME NEW order \in Orders
  PROVE  Activate(order) \in Orders
<1>1. CASE order.type.kind = "stop_market"
  <2>1. [kind |-> "market"] \in OrderTypes
    BY DEF OrderTypes, MarketTypes
  <2>2. Activate(order) = [order EXCEPT !.type = [kind |-> "market"]]
    BY <1>1 DEF Activate
  <2> QED
    BY <2>1, <2>2 DEF Orders
<1>2. CASE order.type.kind = "stop_limit"
  <2>1. order.type \in StopLimitTypes
    BY <1>2 DEF Orders, OrderTypes, LimitTypes, MarketTypes, StopTypes, StopMarketTypes
  <2> DEFINE limit == [kind |-> "limit", price |-> order.type.price, tif |-> order.type.tif]
  <2>2. limit \in OrderTypes
    BY <2>1 DEF OrderTypes, LimitTypes, StopLimitTypes
  <2>3. Activate(order) = [order EXCEPT !.type = limit]
    BY <1>2 DEF Activate
  <2> HIDE DEF limit
  <2> QED
    BY <2>2, <2>3 DEF Orders
<1>3. CASE order.type.kind \notin {"stop_market", "stop_limit"}
  BY <1>3 DEF Activate
<1> QED
  BY <1>1, <1>2, <1>3

\* A request under an id is an order (submit and add_order build it).
LEMMA OrderOfType ==
  ASSUME NEW request \in Requests, NEW id \in Ids
  PROVE  OrderOf(request, id) \in Orders
BY OrderBookAssumption DEF OrderOf, Orders, Request

\* Addresses of the book and of the stop book are told apart by their kind.
LEMMA AddressParts ==
  ASSUME NEW s \in Sides, NEW p \in Prices
  PROVE  /\ BookAddress(s, p) \in Addresses /\ StopAddress(s, p) \in Addresses
         /\ BookAddress(s, p) # Null /\ StopAddress(s, p) # Null
         /\ BookAddress(s, p).kind = "book" /\ StopAddress(s, p).kind = "stop"
         /\ BookAddress(s, p).side = s /\ StopAddress(s, p).side = s
         /\ BookAddress(s, p).price = p /\ StopAddress(s, p).price = p
BY NullAssumption DEF BookAddress, StopAddress, Addresses

\* Every address is one of the two.
LEMMA AddressCases ==
  ASSUME NEW a \in Addresses
  PROVE  /\ a.side \in Sides /\ a.price \in Prices /\ a # Null
         /\ a.kind = "book" => a = BookAddress(a.side, a.price)
         /\ a.kind = "stop" => a = StopAddress(a.side, a.price)
         /\ a.kind \in {"book", "stop"}
BY NullAssumption DEF BookAddress, StopAddress, Addresses

-------------------------------------------------------------------------------
(* Operations on the book keep the index *)

\* What the book half and the stop half of the index rest on.
BookIndexed == RestingIsIndexed /\ IndexedRests /\ NodesAreIndexed
StopsIndexed == ParkedIsIndexed /\ IndexedParks

\* Unlinking a resting order (LevelQueue::remove_key, the free of its node and
\* of its index entry) keeps the types and both halves of the index.
LEMMA UnlinkKeepsIndex ==
  ASSUME TypeOK, BookIndexed, StopsIndexed, stops' = stops,
         NEW side \in Sides, NEW price \in Prices, NEW id \in Ids,
         Unlink(side, price, id)
  PROVE  /\ queue' \in [Sides -> [Prices -> Seq(Ids)]]
         /\ nodes' \in [Ids -> Orders \union {Null}]
         /\ index' \in [Ids -> Addresses \union {Null}]
         /\ \A s \in Sides, p \in Prices :
              s # side \/ p # price => queue'[s][p] = queue[s][p]
         /\ queue[side][price] # <<>>
         /\ BookIndexed'
         /\ StopsIndexed'
<1> DEFINE q == queue[side][price]
           here == BookAddress(side, price)
<1>1. /\ queue \in [Sides -> [Prices -> Seq(Ids)]]
      /\ nodes \in [Ids -> Orders \union {Null}]
      /\ index \in [Ids -> Addresses \union {Null}]
      /\ stops \in [Sides -> [Prices -> Seq(Orders)]]
  BY DEF TypeOK
<1>2. q \in Seq(Ids) /\ Len(q) \in Nat /\ DOMAIN q = 1 .. Len(q)
  BY <1>1, LenProperties
<1>3. PICK i \in 1 .. Len(q) :
        /\ q[i] = id
        /\ queue' = [queue EXCEPT ![side][price] = RemoveAt(@, i)]
        /\ nodes' = [nodes EXCEPT ![id] = Null]
        /\ index' = [index EXCEPT ![id] = Null]
  BY <1>2 DEF Unlink
<1> DEFINE r == RemoveAt(q, i)
<1>4. /\ r \in Seq(Ids)
      /\ Len(r) = Len(q) - 1
      /\ \A j \in 1 .. Len(q) - 1 : r[j] = IF j < i THEN q[j] ELSE q[j+1]
  BY <1>2, RemoveAtElements
<1>5. /\ queue'[side][price] = r
      /\ \A s \in Sides, p \in Prices :
           s # side \/ p # price => queue'[s][p] = queue[s][p]
      /\ queue' \in [Sides -> [Prices -> Seq(Ids)]]
  BY <1>1, <1>3, <1>4
<1>6. /\ index[id] = here
      /\ \A j \in 1 .. Len(q) : index[q[j]] = here /\ (q[j] = id => j = i)
      /\ \A j, k \in 1 .. Len(q) : q[j] = q[k] => j = k
  BY <1>3 DEF BookIndexed, RestingIsIndexed
<1>7. /\ index'[id] = Null /\ nodes'[id] = Null
      /\ \A other \in Ids : other # id => index'[other] = index[other] /\ nodes'[other] = nodes[other]
      /\ nodes' \in [Ids -> Orders \union {Null}]
      /\ index' \in [Ids -> Addresses \union {Null}]
  BY <1>1, <1>3
<1> HIDE DEF q, r, here
<1>8. \A j \in 1 .. Len(r) : r[j] \in Ids /\ r[j] # id /\ index[r[j]] = here
  <2> SUFFICES ASSUME NEW j \in 1 .. Len(r)
               PROVE  r[j] \in Ids /\ r[j] # id /\ index[r[j]] = here
    OBVIOUS
  <2>1. r[j] \in Ids
    BY <1>4, ElementOfSeq
  <2>2. CASE j < i
    BY <2>1, <2>2, <1>2, <1>3, <1>4, <1>6
  <2>3. CASE ~(j < i)
    <3>1. j + 1 \in 1 .. Len(q) /\ j + 1 # i
      BY <2>3, <1>2, <1>3, <1>4
    <3>2. r[j] = q[j+1]
      BY <2>3, <1>2, <1>4
    <3> QED
      BY <2>1, <3>1, <3>2, <1>6
  <2> QED
    BY <2>2, <2>3
<1>9. \A j, k \in 1 .. Len(r) : r[j] = r[k] => j = k
  <2> DEFINE from(j) == IF j < i THEN j ELSE j + 1
  <2>1. \A j \in 1 .. Len(r) : from(j) \in 1 .. Len(q) /\ r[j] = q[from(j)]
    BY <1>2, <1>3, <1>4
  <2>2. \A j, k \in 1 .. Len(r) : from(j) = from(k) => j = k
    BY <1>2, <1>3, <1>4
  <2> HIDE DEF from
  <2> QED
    BY <2>1, <2>2, <1>6
<1>10. RestingIsIndexed'
  <2> SUFFICES ASSUME NEW s \in Sides, NEW p \in Prices
               PROVE  /\ \A j \in 1 .. Len(queue'[s][p]) :
                           index'[queue'[s][p][j]] = BookAddress(s, p)
                      /\ \A j, k \in 1 .. Len(queue'[s][p]) :
                           queue'[s][p][j] = queue'[s][p][k] => j = k
    BY DEF RestingIsIndexed, BookAddress
  <2>1. CASE s = side /\ p = price
    BY <2>1, <1>5, <1>7, <1>8, <1>9 DEF here
  <2>2. CASE s # side \/ p # price
    <3>1. queue'[s][p] = queue[s][p] /\ queue[s][p] \in Seq(Ids)
      BY <2>2, <1>1, <1>5
    <3>2. BookAddress(s, p) # here
      BY <2>2, AddressParts DEF here
    <3>3. ASSUME NEW j \in 1 .. Len(queue[s][p])
          PROVE  index'[queue[s][p][j]] = BookAddress(s, p)
      <4>1. queue[s][p][j] \in Ids
        BY <3>1, ElementOfSeq
      <4>2. index[queue[s][p][j]] = BookAddress(s, p)
        BY DEF BookIndexed, RestingIsIndexed
      <4> QED
        BY <4>1, <4>2, <3>2, <1>6, <1>7
    <3>4. \A j, k \in 1 .. Len(queue[s][p]) : queue[s][p][j] = queue[s][p][k] => j = k
      BY DEF BookIndexed, RestingIsIndexed
    <3> QED
      BY <3>1, <3>3, <3>4
  <2> QED
    BY <2>1, <2>2
<1>11. IndexedRests'
  <2> SUFFICES ASSUME NEW other \in Ids, NEW s \in Sides, NEW p \in Prices,
                      index'[other] = BookAddress(s, p)
               PROVE  \E j \in 1 .. Len(queue'[s][p]) : queue'[s][p][j] = other
    BY DEF IndexedRests, BookAddress
  <2>1. other # id /\ index[other] = BookAddress(s, p)
    BY <1>7, AddressParts
  <2>2. PICK j \in 1 .. Len(queue[s][p]) : queue[s][p][j] = other
    BY <2>1 DEF BookIndexed, IndexedRests
  <2>3. CASE s = side /\ p = price
    <3>1. j \in 1 .. Len(q) /\ q[j] = other /\ j # i
      BY <2>1, <2>2, <2>3, <1>3 DEF q
    <3>2. CASE j < i
      <4>1. j \in 1 .. Len(r) /\ r[j] = other
        BY <3>1, <3>2, <1>2, <1>3, <1>4
      <4> QED
        BY <4>1, <2>3, <1>5
    <3>3. CASE ~(j < i)
      <4>1. j - 1 \in 1 .. Len(r) /\ r[j-1] = other
        BY <3>1, <3>3, <1>2, <1>3, <1>4
      <4> QED
        BY <4>1, <2>3, <1>5
    <3> QED
      BY <3>2, <3>3
  <2>4. CASE s # side \/ p # price
    BY <2>2, <2>4, <1>5
  <2> QED
    BY <2>3, <2>4
<1>12. NodesAreIndexed'
  BY <1>7 DEF BookIndexed, NodesAreIndexed
<1>13. StopsIndexed'
  <2>1. \A s \in Sides, t \in Prices : StopAddress(s, t) # here /\ StopAddress(s, t) # Null
    BY AddressParts DEF here
  <2>2. ASSUME NEW s \in Sides, NEW t \in Prices, NEW j \in 1 .. Len(stops[s][t])
        PROVE  index'[stops[s][t][j].id] = index[stops[s][t][j].id]
    <3>1. stops[s][t][j] \in Orders
      BY <1>1, ElementOfSeq
    <3>2. stops[s][t][j].id \in Ids
      BY <3>1 DEF Orders
    <3>3. index[stops[s][t][j].id] = StopAddress(s, t)
      BY DEF StopsIndexed, ParkedIsIndexed
    <3> QED
      BY <3>2, <3>3, <2>1, <1>6, <1>7
  <2>3. ParkedIsIndexed'
    BY <2>2 DEF StopsIndexed, ParkedIsIndexed, StopAddress, IsStop
  <2>4. IndexedParks'
    BY <2>1, <1>7 DEF StopsIndexed, IndexedParks, StopAddress
  <2> QED
    BY <2>3, <2>4 DEF StopsIndexed
<1>14. q # <<>>
  BY <1>3, EmptySeq
<1> QED
  BY <1>5, <1>7, <1>10, <1>11, <1>12, <1>13, <1>14 DEF BookIndexed, q

\* Coming to rest (the tail of add_order) keeps the types and both halves of the
\* index: the duplicate check is what makes the id new to every queue.
LEMMA RestKeepsIndex ==
  ASSUME TypeOK, BookIndexed, StopsIndexed, stops' = stops,
         NEW order \in Orders, Restable(order), nextArrival < MaxArrival,
         Rest(order)
  PROVE  /\ order.side \in Sides /\ order.type.price \in Prices
         /\ levels' \in [Sides -> SUBSET Prices]
         /\ queue' \in [Sides -> [Prices -> Seq(Ids)]]
         /\ nodes' \in [Ids -> Orders \union {Null}]
         /\ index' \in [Ids -> Addresses \union {Null}]
         /\ nextArrival' \in 1 .. MaxArrival
         /\ \A s \in Sides, p \in Prices :
              s # order.side \/ p # order.type.price =>
                queue'[s][p] = queue[s][p] /\ (p \in levels'[s] <=> p \in levels[s])
         /\ queue'[order.side][order.type.price] # <<>>
         /\ order.type.price \in levels'[order.side]
         /\ BookIndexed'
         /\ StopsIndexed'
<1> DEFINE side == order.side
           price == order.type.price
           id == order.id
           q == queue[side][price]
           r == Append(q, id)
           here == BookAddress(side, price)
           stamped == [order EXCEPT !.arrival = nextArrival]
<1>1. /\ levels \in [Sides -> SUBSET Prices]
      /\ queue \in [Sides -> [Prices -> Seq(Ids)]]
      /\ nodes \in [Ids -> Orders \union {Null}]
      /\ index \in [Ids -> Addresses \union {Null}]
      /\ stops \in [Sides -> [Prices -> Seq(Orders)]]
      /\ nextArrival \in 1 .. MaxArrival
  BY DEF TypeOK
<1>2. /\ id \in Ids /\ side \in Sides /\ order.type \in OrderTypes
      /\ order.type.kind = "limit" /\ index[id] = Null
  BY DEF Orders, Restable
<1>3. price \in Prices
  BY <1>2, OrderTypeParts
<1>4. /\ stamped \in Orders /\ stamped # Null /\ stamped.id = id
      /\ stamped.side = side /\ stamped.type = order.type
  <2>1. nextArrival \in Nat
    BY <1>1, OrderBookAssumption
  <2>2. stamped \in Orders
    BY <2>1 DEF Orders
  <2>3. stamped.id = id /\ stamped.side = side /\ stamped.type = order.type
    BY DEF Orders
  <2> QED
    BY <2>2, <2>3, NullAssumption
<1>5. /\ q \in Seq(Ids) /\ Len(q) \in Nat /\ r \in Seq(Ids) /\ Len(r) = Len(q) + 1
      /\ \A j \in 1 .. Len(q) : r[j] = q[j]
      /\ r[Len(q) + 1] = id
      /\ r # <<>>
  <2>1. q \in Seq(Ids)
    BY <1>1, <1>2, <1>3
  <2>2. Len(q) \in Nat
    BY <2>1, LenProperties
  <2> HIDE DEF q, id
  <2> QED
    BY <2>1, <2>2, <1>2, AppendProperties
<1>6. here \in Addresses /\ here # Null
  BY <1>2, <1>3, AddressParts
<1> HIDE DEF stamped, r, here
<1>7. /\ levels' = [levels EXCEPT ![side] = @ \union {price}]
      /\ queue' = [queue EXCEPT ![side][price] = r]
      /\ nodes' = [nodes EXCEPT ![id] = stamped]
      /\ index' = [index EXCEPT ![id] = here]
      /\ nextArrival' = nextArrival + 1
  BY DEF Rest, stamped, r, here
<1> HIDE DEF side, price, id, q
<1>8. /\ queue' \in [Sides -> [Prices -> Seq(Ids)]]
      /\ queue'[side][price] = r
      /\ \A s \in Sides, p \in Prices :
           s # side \/ p # price =>
             queue'[s][p] = queue[s][p] /\ (p \in levels'[s] <=> p \in levels[s])
      /\ price \in levels'[side]
  BY <1>1, <1>2, <1>3, <1>5, <1>7
<1>9. /\ index'[id] = here /\ nodes'[id] = stamped
      /\ \A other \in Ids : other # id => index'[other] = index[other] /\ nodes'[other] = nodes[other]
      /\ nodes' \in [Ids -> Orders \union {Null}]
      /\ index' \in [Ids -> Addresses \union {Null}]
  BY <1>1, <1>2, <1>4, <1>6, <1>7
<1>10. levels' \in [Sides -> SUBSET Prices] /\ nextArrival' \in 1 .. MaxArrival
  BY <1>1, <1>2, <1>3, <1>7, OrderBookAssumption
<1>11. \A s \in Sides, p \in Prices : \A j \in 1 .. Len(queue[s][p]) :
         queue[s][p][j] \in Ids /\ queue[s][p][j] # id
  <2> SUFFICES ASSUME NEW s \in Sides, NEW p \in Prices, NEW j \in 1 .. Len(queue[s][p])
               PROVE  queue[s][p][j] \in Ids /\ queue[s][p][j] # id
    OBVIOUS
  <2>1. queue[s][p] \in Seq(Ids)
    BY <1>1
  <2>2. index[queue[s][p][j]] = BookAddress(s, p)
    BY DEF BookIndexed, RestingIsIndexed
  <2> QED
    BY <2>1, <2>2, <1>2, ElementOfSeq, AddressParts
<1>12. RestingIsIndexed'
  <2> SUFFICES ASSUME NEW s \in Sides, NEW p \in Prices
               PROVE  /\ \A j \in 1 .. Len(queue'[s][p]) :
                           index'[queue'[s][p][j]] = BookAddress(s, p)
                      /\ \A j, k \in 1 .. Len(queue'[s][p]) :
                           queue'[s][p][j] = queue'[s][p][k] => j = k
    BY DEF RestingIsIndexed, BookAddress
  <2>1. /\ \A j \in 1 .. Len(queue[s][p]) : index[queue[s][p][j]] = BookAddress(s, p)
        /\ \A j, k \in 1 .. Len(queue[s][p]) : queue[s][p][j] = queue[s][p][k] => j = k
    BY DEF BookIndexed, RestingIsIndexed
  <2>2. CASE s = side /\ p = price
    <3>1. \A j \in 1 .. Len(q) : index'[q[j]] = here /\ q[j] # id
      BY <2>1, <2>2, <1>2, <1>3, <1>9, <1>11 DEF here, q
    <3>2. \A j, k \in 1 .. Len(q) : q[j] = q[k] => j = k
      BY <2>1, <2>2 DEF q
    <3>3. \A j \in 1 .. Len(r) : index'[r[j]] = here
      BY <3>1, <1>5, <1>9
    <3>4. \A j, k \in 1 .. Len(r) : r[j] = r[k] => j = k
      BY <3>1, <3>2, <1>5
    <3> QED
      BY <3>3, <3>4, <2>2, <1>8 DEF here
  <2>3. CASE s # side \/ p # price
    <3>1. queue'[s][p] = queue[s][p]
      BY <2>3, <1>8
    <3>2. \A j \in 1 .. Len(queue[s][p]) : index'[queue[s][p][j]] = BookAddress(s, p)
      BY <2>1, <1>9, <1>11
    <3> QED
      BY <2>1, <3>1, <3>2
  <2> QED
    BY <2>2, <2>3
<1>13. IndexedRests'
  <2> SUFFICES ASSUME NEW other \in Ids, NEW s \in Sides, NEW p \in Prices,
                      index'[other] = BookAddress(s, p)
               PROVE  \E j \in 1 .. Len(queue'[s][p]) : queue'[s][p][j] = other
    BY DEF IndexedRests, BookAddress
  <2>1. CASE other = id
    <3>1. s = side /\ p = price
      <4>1. BookAddress(s, p) = BookAddress(side, price)
        BY <2>1, <1>9 DEF here
      <4> QED
        BY <4>1 DEF BookAddress
    <3>2. Len(q) + 1 \in 1 .. Len(r)
      BY <1>5
    <3> QED
      BY <3>1, <3>2, <2>1, <1>5, <1>8
  <2>2. CASE other # id
    <3>1. index[other] = BookAddress(s, p)
      BY <2>2, <1>9
    <3>2. PICK j \in 1 .. Len(queue[s][p]) : queue[s][p][j] = other
      BY <3>1 DEF BookIndexed, IndexedRests
    <3>3. CASE s = side /\ p = price
      <4>1. j \in 1 .. Len(r) /\ r[j] = other
        BY <3>2, <3>3, <1>5 DEF q
      <4> QED
        BY <4>1, <3>3, <1>8
    <3>4. CASE s # side \/ p # price
      BY <3>2, <3>4, <1>8
    <3> QED
      BY <3>3, <3>4
  <2> QED
    BY <2>1, <2>2
<1>14. NodesAreIndexed'
  <2>1. here # Null /\ here.kind = "book" /\ here.side = side /\ here.price = price
    BY <1>2, <1>3, AddressParts DEF here
  <2>2. /\ stamped # Null /\ stamped.id = id /\ stamped.side = side
        /\ stamped.type.kind = "limit" /\ stamped.type.price = price
    BY <1>2, <1>4 DEF price
  <2> QED
    BY <2>1, <2>2, <1>9 DEF BookIndexed, NodesAreIndexed
<1>15. StopsIndexed'
  <2>1. \A s \in Sides, t \in Prices : StopAddress(s, t) # here /\ StopAddress(s, t) # Null
    BY <1>2, <1>3, AddressParts DEF here
  <2>2. ASSUME NEW s \in Sides, NEW t \in Prices, NEW j \in 1 .. Len(stops[s][t])
        PROVE  index'[stops[s][t][j].id] = index[stops[s][t][j].id]
    <3>1. stops[s][t][j] \in Orders
      BY <1>1, ElementOfSeq
    <3>2. stops[s][t][j].id \in Ids
      BY <3>1 DEF Orders
    <3>3. index[stops[s][t][j].id] = StopAddress(s, t)
      BY DEF StopsIndexed, ParkedIsIndexed
    <3> QED
      BY <3>2, <3>3, <2>1, <1>2, <1>9
  <2>3. ParkedIsIndexed'
    BY <2>2 DEF StopsIndexed, ParkedIsIndexed, StopAddress, IsStop
  <2>4. IndexedParks'
    BY <2>1, <1>9 DEF StopsIndexed, IndexedParks, StopAddress
  <2> QED
    BY <2>3, <2>4 DEF StopsIndexed
<1> QED
  BY <1>2, <1>3, <1>5, <1>8, <1>9, <1>10, <1>12, <1>13, <1>14, <1>15
     DEF BookIndexed, side, price

-------------------------------------------------------------------------------
(* Operations on the stop book keep the index *)

\* Taking a parked order out (pop_triggered_stop, and cancel_order on a stop)
\* keeps the types, both halves of the index and the trigger keys.
LEMMA UnparkKeepsIndex ==
  ASSUME TypeOK, BookIndexed, StopsIndexed, TriggersAreActive,
         queue' = queue, nodes' = nodes,
         NEW side \in Sides, NEW trigger \in Prices,
         NEW i \in 1 .. Len(stops[side][trigger]),
         Unpark(side, trigger, i)
  PROVE  /\ stops' \in [Sides -> [Prices -> Seq(Orders)]]
         /\ triggers' \in [Sides -> SUBSET Prices]
         /\ index' \in [Ids -> Addresses \union {Null}]
         /\ BookIndexed'
         /\ StopsIndexed'
         /\ TriggersAreActive'
<1> DEFINE q == stops[side][trigger]
           r == RemoveAt(q, i)
           id == q[i].id
           here == StopAddress(side, trigger)
<1>1. /\ queue \in [Sides -> [Prices -> Seq(Ids)]]
      /\ nodes \in [Ids -> Orders \union {Null}]
      /\ index \in [Ids -> Addresses \union {Null}]
      /\ triggers \in [Sides -> SUBSET Prices]
      /\ stops \in [Sides -> [Prices -> Seq(Orders)]]
  BY DEF TypeOK
<1>2. q \in Seq(Orders) /\ Len(q) \in Nat
  BY <1>1, LenProperties
<1>3. /\ r \in Seq(Orders)
      /\ Len(r) = Len(q) - 1
      /\ \A j \in 1 .. Len(q) - 1 : r[j] = IF j < i THEN q[j] ELSE q[j+1]
  BY <1>2, RemoveAtElements
<1>4. /\ stops' = [stops EXCEPT ![side][trigger] = r]
      /\ triggers' = [triggers EXCEPT ![side] = IF r = <<>> THEN @ \ {trigger} ELSE @]
      /\ index' = [index EXCEPT ![id] = Null]
  BY DEF Unpark
<1>5. /\ \A j \in 1 .. Len(q) : /\ q[j] \in Orders /\ q[j].id \in Ids
                                /\ index[q[j].id] = here
                                /\ q[j].side = side /\ IsStop(q[j].type)
                                /\ q[j].type.trigger = trigger
      /\ \A j, k \in 1 .. Len(q) : q[j].id = q[k].id => j = k
  <2>1. \A j \in 1 .. Len(q) : q[j] \in Orders
    BY <1>2, ElementOfSeq
  <2>2. \A j \in 1 .. Len(q) : q[j].id \in Ids
    BY <2>1 DEF Orders
  <2> QED
    BY <2>1, <2>2 DEF StopsIndexed, ParkedIsIndexed
<1>6. id \in Ids
  BY <1>5
<1>7. /\ stops' \in [Sides -> [Prices -> Seq(Orders)]]
      /\ stops'[side][trigger] = r
      /\ \A s \in Sides, t \in Prices :
           s # side \/ t # trigger =>
             stops'[s][t] = stops[s][t] /\ (t \in triggers'[s] <=> t \in triggers[s])
      /\ triggers' \in [Sides -> SUBSET Prices]
  BY <1>1, <1>3, <1>4
<1>8. trigger \in triggers'[side] <=> r # <<>>
  <2>1. q # <<>>
    BY <1>2, EmptySeq
  <2>2. trigger \in triggers[side]
    BY <2>1 DEF TriggersAreActive
  <2> QED
    BY <2>2, <1>1, <1>4
<1>9. /\ index'[id] = Null
      /\ \A other \in Ids : other # id => index'[other] = index[other]
      /\ index' \in [Ids -> Addresses \union {Null}]
  BY <1>1, <1>4, <1>6
<1>10. index[id] = here /\ (\A j \in 1 .. Len(q) : q[j].id = id => j = i)
  BY <1>5
<1>11. /\ here # Null /\ here.kind = "stop"
       /\ \A s \in Sides, p \in Prices : BookAddress(s, p) # here /\ BookAddress(s, p) # Null
  BY AddressParts
<1> HIDE DEF q, r, id, here
<1>12. TriggersAreActive'
  BY ZenonT(30), <1>7, <1>8 DEF TriggersAreActive
<1> DEFINE from(j) == IF j < i THEN j ELSE j + 1
<1>13. /\ \A j \in 1 .. Len(r) : from(j) \in 1 .. Len(q) /\ from(j) # i /\ r[j] = q[from(j)]
       /\ \A j, k \in 1 .. Len(r) : from(j) = from(k) => j = k
       /\ \A k \in 1 .. Len(q) : k # i => \E j \in 1 .. Len(r) : from(j) = k
  <2>1. /\ i \in 1 .. Len(q) /\ Len(q) \in Nat
        /\ Len(r) = Len(q) - 1
    BY <1>2, <1>3 DEF q
  <2>2. \A j \in 1 .. Len(r) : from(j) \in 1 .. Len(q) /\ from(j) # i /\ r[j] = q[from(j)]
    BY <2>1, <1>3
  <2>3. \A j, k \in 1 .. Len(r) : from(j) = from(k) => j = k
    BY <2>1
  <2>4. ASSUME NEW k \in 1 .. Len(q), k # i
        PROVE  \E j \in 1 .. Len(r) : from(j) = k
    <3>1. CASE k < i
      <4>1. k \in 1 .. Len(r) /\ from(k) = k
        BY <3>1, <2>1
      <4> QED
        BY <4>1
    <3>2. CASE ~(k < i)
      <4>1. k - 1 \in 1 .. Len(r) /\ from(k - 1) = k
        BY <3>2, <2>1, <2>4
      <4> QED
        BY <4>1
    <3> QED
      BY <3>1, <3>2
  <2> QED
    BY <2>2, <2>3, <2>4
<1> HIDE DEF from
<1>14. ParkedIsIndexed'
  <2> SUFFICES ASSUME NEW s \in Sides, NEW t \in Prices
               PROVE  /\ \A j \in 1 .. Len(stops'[s][t]) :
                           /\ index'[stops'[s][t][j].id] = StopAddress(s, t)
                           /\ stops'[s][t][j].side = s
                           /\ IsStop(stops'[s][t][j].type)
                           /\ stops'[s][t][j].type.trigger = t
                      /\ \A j, k \in 1 .. Len(stops'[s][t]) :
                           stops'[s][t][j].id = stops'[s][t][k].id => j = k
    BY DEF ParkedIsIndexed, StopAddress, IsStop
  <2>1. CASE s = side /\ t = trigger
    <3>1. \A j \in 1 .. Len(r) : index'[r[j].id] = here /\ r[j].side = side
                                 /\ IsStop(r[j].type) /\ r[j].type.trigger = trigger
      BY <1>5, <1>9, <1>10, <1>13
    <3>2. \A j, k \in 1 .. Len(r) : r[j].id = r[k].id => j = k
      BY <1>5, <1>13
    <3> QED
      BY <3>1, <3>2, <2>1, <1>7 DEF here
  <2>2. CASE s # side \/ t # trigger
    <3>1. stops'[s][t] = stops[s][t] /\ stops[s][t] \in Seq(Orders)
      BY <2>2, <1>1, <1>7
    <3>2. StopAddress(s, t) # here
      BY <2>2 DEF here, StopAddress
    <3>3. ASSUME NEW j \in 1 .. Len(stops[s][t])
          PROVE  /\ index'[stops[s][t][j].id] = StopAddress(s, t)
                 /\ stops[s][t][j].side = s
                 /\ IsStop(stops[s][t][j].type)
                 /\ stops[s][t][j].type.trigger = t
      <4>1. stops[s][t][j] \in Orders
        BY <3>1, ElementOfSeq
      <4>2. stops[s][t][j].id \in Ids
        BY <4>1 DEF Orders
      <4>3. /\ index[stops[s][t][j].id] = StopAddress(s, t)
            /\ stops[s][t][j].side = s
            /\ IsStop(stops[s][t][j].type)
            /\ stops[s][t][j].type.trigger = t
        BY DEF StopsIndexed, ParkedIsIndexed
      <4> QED
        BY <4>2, <4>3, <3>2, <1>9, <1>10
    <3>4. \A j, k \in 1 .. Len(stops[s][t]) : stops[s][t][j].id = stops[s][t][k].id => j = k
      BY DEF StopsIndexed, ParkedIsIndexed
    <3> QED
      BY <3>1, <3>3, <3>4
  <2> QED
    BY <2>1, <2>2
<1>15. IndexedParks'
  <2> SUFFICES ASSUME NEW other \in Ids, NEW s \in Sides, NEW t \in Prices,
                      index'[other] = StopAddress(s, t)
               PROVE  \E j \in 1 .. Len(stops'[s][t]) : stops'[s][t][j].id = other
    BY DEF IndexedParks, StopAddress
  <2>1. other # id /\ index[other] = StopAddress(s, t)
    BY <1>9, AddressParts
  <2>2. PICK k \in 1 .. Len(stops[s][t]) : stops[s][t][k].id = other
    BY <2>1 DEF StopsIndexed, IndexedParks
  <2>3. CASE s = side /\ t = trigger
    <3>1. k \in 1 .. Len(q) /\ q[k].id = other /\ k # i
      BY <2>1, <2>2, <2>3 DEF q, id
    <3>2. PICK j \in 1 .. Len(r) : from(j) = k
      BY <3>1, <1>13
    <3> QED
      BY <3>1, <3>2, <2>3, <1>7, <1>13
  <2>4. CASE s # side \/ t # trigger
    BY <2>2, <2>4, <1>7
  <2> QED
    BY <2>3, <2>4
<1>16. RestingIsIndexed' /\ IndexedRests' /\ NodesAreIndexed'
  <2>1. ASSUME NEW s \in Sides, NEW p \in Prices, NEW j \in 1 .. Len(queue[s][p])
        PROVE  index'[queue[s][p][j]] = index[queue[s][p][j]]
    <3>1. queue[s][p][j] \in Ids
      BY <1>1, ElementOfSeq
    <3>2. index[queue[s][p][j]] = BookAddress(s, p)
      BY DEF BookIndexed, RestingIsIndexed
    <3> QED
      BY <3>1, <3>2, <1>9, <1>10, <1>11
  <2>2. RestingIsIndexed'
    BY <2>1 DEF BookIndexed, RestingIsIndexed, BookAddress
  <2>3. IndexedRests'
    BY <1>9, <1>11 DEF BookIndexed, IndexedRests, BookAddress
  <2>4. NodesAreIndexed'
    BY <1>9, <1>10, <1>11, <1>6 DEF BookIndexed, NodesAreIndexed
  <2> QED
    BY <2>2, <2>3, <2>4
<1> QED
  BY <1>7, <1>9, <1>12, <1>14, <1>15, <1>16 DEF BookIndexed, StopsIndexed

\* Parking a stop (park, matching.rs) keeps the types, both halves of the index
\* and the trigger keys.
LEMMA ParkKeepsIndex ==
  ASSUME TypeOK, BookIndexed, StopsIndexed, TriggersAreActive, taker # Null, Park
  PROVE  /\ stops' \in [Sides -> [Prices -> Seq(Orders)]]
         /\ triggers' \in [Sides -> SUBSET Prices]
         /\ index' \in [Ids -> Addresses \union {Null}]
         /\ BookIndexed'
         /\ StopsIndexed'
         /\ TriggersAreActive'
<1> DEFINE side == taker.side
           trigger == taker.type.trigger
           id == taker.id
           q == stops[side][trigger]
           r == Append(q, taker)
           here == StopAddress(side, trigger)
<1>1. /\ queue \in [Sides -> [Prices -> Seq(Ids)]]
      /\ nodes \in [Ids -> Orders \union {Null}]
      /\ index \in [Ids -> Addresses \union {Null}]
      /\ triggers \in [Sides -> SUBSET Prices]
      /\ stops \in [Sides -> [Prices -> Seq(Orders)]]
      /\ taker \in Orders
  BY DEF TypeOK
<1>2. /\ queue' = queue /\ nodes' = nodes
      /\ IsStop(taker.type) /\ index[id] = Null
  BY DEF Park
<1>3. side \in Sides /\ id \in Ids /\ taker.type \in OrderTypes
  BY <1>1 DEF Orders
<1>4. trigger \in Prices
  BY <1>2, <1>3, OrderTypeParts
<1>5. /\ q \in Seq(Orders) /\ Len(q) \in Nat /\ r \in Seq(Orders) /\ Len(r) = Len(q) + 1
      /\ \A j \in 1 .. Len(q) : r[j] = q[j]
      /\ r[Len(q) + 1] = taker
      /\ r # <<>>
  <2>1. q \in Seq(Orders)
    BY <1>1, <1>3, <1>4
  <2>2. Len(q) \in Nat
    BY <2>1, LenProperties
  <2> HIDE DEF q
  <2> QED
    BY <2>1, <2>2, <1>1, AppendProperties
<1>6. /\ here \in Addresses /\ here # Null /\ here.kind = "stop"
      /\ \A s \in Sides, p \in Prices : BookAddress(s, p) # here /\ BookAddress(s, p) # Null
  BY <1>3, <1>4, AddressParts
<1> HIDE DEF r, here
<1>7. /\ stops' = [stops EXCEPT ![side][trigger] = r]
      /\ triggers' = [triggers EXCEPT ![side] = @ \union {trigger}]
      /\ index' = [index EXCEPT ![id] = here]
  BY DEF Park, r, here
<1>8. taker.side = side /\ IsStop(taker.type) /\ taker.type.trigger = trigger /\ taker.id = id
  BY <1>2
<1> HIDE DEF q, side, trigger, id
<1>9. /\ stops' \in [Sides -> [Prices -> Seq(Orders)]]
      /\ stops'[side][trigger] = r
      /\ \A s \in Sides, t \in Prices :
           s # side \/ t # trigger =>
             stops'[s][t] = stops[s][t] /\ (t \in triggers'[s] <=> t \in triggers[s])
      /\ trigger \in triggers'[side]
      /\ triggers' \in [Sides -> SUBSET Prices]
  BY <1>1, <1>3, <1>4, <1>5, <1>7
<1>10. /\ index'[id] = here
       /\ \A other \in Ids : other # id => index'[other] = index[other]
       /\ index' \in [Ids -> Addresses \union {Null}]
  BY <1>1, <1>3, <1>6, <1>7
<1>11. TriggersAreActive'
  BY <1>5, <1>9 DEF TriggersAreActive
<1>12. \A s \in Sides, t \in Prices : \A j \in 1 .. Len(stops[s][t]) :
         /\ stops[s][t][j].id \in Ids /\ stops[s][t][j].id # id
         /\ index[stops[s][t][j].id] = StopAddress(s, t)
         /\ stops[s][t][j].side = s
         /\ IsStop(stops[s][t][j].type)
         /\ stops[s][t][j].type.trigger = t
  <2> SUFFICES ASSUME NEW s \in Sides, NEW t \in Prices, NEW j \in 1 .. Len(stops[s][t])
               PROVE  /\ stops[s][t][j].id \in Ids /\ stops[s][t][j].id # id
                      /\ index[stops[s][t][j].id] = StopAddress(s, t)
                      /\ stops[s][t][j].side = s
                      /\ IsStop(stops[s][t][j].type)
                      /\ stops[s][t][j].type.trigger = t
    OBVIOUS
  <2>1. stops[s][t] \in Seq(Orders)
    BY <1>1
  <2>2. stops[s][t][j] \in Orders
    BY <2>1, ElementOfSeq
  <2>3. stops[s][t][j].id \in Ids
    BY <2>2 DEF Orders
  <2>4. /\ index[stops[s][t][j].id] = StopAddress(s, t)
        /\ stops[s][t][j].side = s
        /\ IsStop(stops[s][t][j].type)
        /\ stops[s][t][j].type.trigger = t
    BY DEF StopsIndexed, ParkedIsIndexed
  <2>5. StopAddress(s, t) # Null
    BY AddressParts
  <2> QED
    BY <2>3, <2>4, <2>5, <1>2 DEF id
<1>13. ParkedIsIndexed'
  <2> SUFFICES ASSUME NEW s \in Sides, NEW t \in Prices
               PROVE  /\ \A j \in 1 .. Len(stops'[s][t]) :
                           /\ index'[stops'[s][t][j].id] = StopAddress(s, t)
                           /\ stops'[s][t][j].side = s
                           /\ IsStop(stops'[s][t][j].type)
                           /\ stops'[s][t][j].type.trigger = t
                      /\ \A j, k \in 1 .. Len(stops'[s][t]) :
                           stops'[s][t][j].id = stops'[s][t][k].id => j = k
    BY DEF ParkedIsIndexed, StopAddress, IsStop
  <2>1. \A j \in 1 .. Len(stops[s][t]) :
          /\ index'[stops[s][t][j].id] = StopAddress(s, t)
          /\ stops[s][t][j].id # id
          /\ stops[s][t][j].side = s
          /\ IsStop(stops[s][t][j].type)
          /\ stops[s][t][j].type.trigger = t
    BY <1>10, <1>12
  <2>2. \A j, k \in 1 .. Len(stops[s][t]) : stops[s][t][j].id = stops[s][t][k].id => j = k
    BY DEF StopsIndexed, ParkedIsIndexed
  <2>3. CASE s = side /\ t = trigger
    <3>1. /\ \A j \in 1 .. Len(q) : /\ index'[q[j].id] = here /\ q[j].id # id
                                    /\ q[j].side = side /\ IsStop(q[j].type)
                                    /\ q[j].type.trigger = trigger
          /\ \A j, k \in 1 .. Len(q) : q[j].id = q[k].id => j = k
      BY <2>1, <2>2, <2>3 DEF q, here
    <3>2. \A j \in 1 .. Len(r) : /\ index'[r[j].id] = here
                                 /\ r[j].side = side /\ IsStop(r[j].type)
                                 /\ r[j].type.trigger = trigger
      BY <3>1, <1>5, <1>8, <1>10
    <3>3. \A j, k \in 1 .. Len(r) : r[j].id = r[k].id => j = k
      BY <3>1, <1>5, <1>8
    <3> QED
      BY <3>2, <3>3, <2>3, <1>9 DEF here
  <2>4. CASE s # side \/ t # trigger
    <3>1. stops'[s][t] = stops[s][t]
      BY <2>4, <1>9
    <3> QED
      BY <3>1, <2>1, <2>2
  <2> QED
    BY <2>3, <2>4
<1>14. IndexedParks'
  <2> SUFFICES ASSUME NEW other \in Ids, NEW s \in Sides, NEW t \in Prices,
                      index'[other] = StopAddress(s, t)
               PROVE  \E j \in 1 .. Len(stops'[s][t]) : stops'[s][t][j].id = other
    BY DEF IndexedParks, StopAddress
  <2>1. CASE other = id
    <3>1. s = side /\ t = trigger
      <4>1. StopAddress(s, t) = StopAddress(side, trigger)
        BY <2>1, <1>10 DEF here
      <4> QED
        BY <4>1 DEF StopAddress
    <3>2. Len(q) + 1 \in 1 .. Len(r)
      BY <1>5
    <3> QED
      BY <3>1, <3>2, <2>1, <1>5, <1>8, <1>9
  <2>2. CASE other # id
    <3>1. index[other] = StopAddress(s, t)
      BY <2>2, <1>10
    <3>2. PICK j \in 1 .. Len(stops[s][t]) : stops[s][t][j].id = other
      BY <3>1 DEF StopsIndexed, IndexedParks
    <3>3. CASE s = side /\ t = trigger
      <4>1. j \in 1 .. Len(r) /\ r[j] = stops[s][t][j]
        BY <3>2, <3>3, <1>5 DEF q
      <4> QED
        BY <4>1, <3>2, <3>3, <1>9
    <3>4. CASE s # side \/ t # trigger
      BY <3>2, <3>4, <1>9
    <3> QED
      BY <3>3, <3>4
  <2> QED
    BY <2>1, <2>2
<1>15. RestingIsIndexed' /\ IndexedRests' /\ NodesAreIndexed'
  <2>1. index[id] = Null
    BY <1>2 DEF id
  <2>2. ASSUME NEW s \in Sides, NEW p \in Prices, NEW j \in 1 .. Len(queue[s][p])
        PROVE  index'[queue[s][p][j]] = index[queue[s][p][j]]
    <3>1. queue[s][p][j] \in Ids
      BY <1>1, ElementOfSeq
    <3>2. index[queue[s][p][j]] = BookAddress(s, p)
      BY DEF BookIndexed, RestingIsIndexed
    <3> QED
      BY <3>1, <3>2, <2>1, <1>6, <1>10
  <2>3. RestingIsIndexed'
    BY <2>2, <1>2 DEF BookIndexed, RestingIsIndexed, BookAddress
  <2>4. IndexedRests'
    BY <2>1, <1>2, <1>6, <1>10 DEF BookIndexed, IndexedRests, BookAddress
  <2>5. NodesAreIndexed'
    BY <2>1, <1>2, <1>3, <1>6, <1>10 DEF BookIndexed, NodesAreIndexed
  <2> QED
    BY <2>3, <2>4, <2>5
<1> QED
  BY <1>9, <1>10, <1>11, <1>13, <1>14, <1>15 DEF BookIndexed, StopsIndexed

-------------------------------------------------------------------------------
(* Fills keep the index *)

\* Applying a level's fills (match_level, matching.rs) never takes more than a
\* maker or the taker has, and moves no order: contract clauses 3 and 4 are what
\* keeps both subtractions from underflowing.
LEMMA AllocateKeepsIndex ==
  ASSUME TypeOK, BookIndexed, StopsIndexed, taker # Null, level \in Prices, Allocate
  PROVE  /\ nodes' \in [Ids -> Orders \union {Null}]
         /\ taker' \in Orders /\ taker'.side = taker.side
         /\ filled' \in SUBSET Ids
         /\ trades' \in Seq(Prints)
         /\ BookIndexed'
         /\ StopsIndexed'
<1> DEFINE side == Opposite(taker.side)
           ids == queue[side][level]
           makers == MakersAt(side, level)
<1>1. /\ queue \in [Sides -> [Prices -> Seq(Ids)]]
      /\ nodes \in [Ids -> Orders \union {Null}]
      /\ taker \in Orders
      /\ trades \in Seq(Prints)
  BY DEF TypeOK
<1>2. /\ queue' = queue /\ index' = index /\ stops' = stops
  BY DEF Allocate, stopBook
<1>3. side \in Sides /\ taker.remaining \in Nat
  BY <1>1, OppositeSide DEF Orders
<1>4. ids \in Seq(Ids) /\ Len(ids) \in Nat /\ DOMAIN ids = 1 .. Len(ids)
  BY <1>1, <1>3, LenProperties
<1>5. \A i \in 1 .. Len(ids) : /\ ids[i] \in Ids /\ index[ids[i]] = BookAddress(side, level)
                               /\ nodes[ids[i]] \in Orders
                               /\ nodes[ids[i]].remaining \in Nat
  <2> SUFFICES ASSUME NEW i \in 1 .. Len(ids)
               PROVE  /\ ids[i] \in Ids /\ index[ids[i]] = BookAddress(side, level)
                      /\ nodes[ids[i]] \in Orders
                      /\ nodes[ids[i]].remaining \in Nat
    OBVIOUS
  <2>1. ids[i] \in Ids
    BY <1>4, ElementOfSeq
  <2>2. index[ids[i]] = BookAddress(side, level)
    BY <1>3 DEF BookIndexed, RestingIsIndexed
  <2>3. nodes[ids[i]] # Null
    BY <2>1, <2>2, <1>3, AddressParts DEF BookIndexed, NodesAreIndexed
  <2>4. nodes[ids[i]] \in Orders
    BY <2>1, <2>3, <1>1
  <2> QED
    BY <2>1, <2>2, <2>4 DEF Orders
<1>6. DOMAIN makers = 1 .. Len(ids) /\ \A i \in 1 .. Len(ids) : makers[i].remaining = nodes[ids[i]].remaining
  BY <1>4 DEF MakersAt
<1> HIDE DEF makers
<1>7. PICK fills \in Allocations(taker.remaining, makers) :
        /\ filled' = {id \in Ids : ByOrder(fills, ids)[id] > 0}
        /\ nodes' = [id \in Ids |->
                       IF ByOrder(fills, ids)[id] > 0
                       THEN [nodes[id] EXCEPT !.remaining = @ - ByOrder(fills, ids)[id]]
                       ELSE nodes[id]]
        /\ taker' = [taker EXCEPT !.remaining = @ - Total(fills)]
        /\ trades' = IF \A id \in Ids : ByOrder(fills, ids)[id] = 0 THEN trades
                     ELSE Append(trades, [price |-> level, fills |-> ByOrder(fills, ids)])
  BY DEF Allocate, makers
<1> DEFINE given == ByOrder(fills, ids)
<1>8. /\ fills \in [1 .. Len(ids) -> 0 .. taker.remaining]
      /\ \A i \in 1 .. Len(ids) : fills[i] <= nodes[ids[i]].remaining
      /\ Total(fills) \in 0 .. taker.remaining
  BY <1>6 DEF Allocations, Contract
<1>9. \A id \in Ids :
        \/ given[id] = 0
        \/ \E i \in 1 .. Len(ids) : ids[i] = id /\ given[id] = fills[i]
  BY <1>4 DEF ByOrder
<1>10. given \in [Ids -> Nat]
  <2>1. \A id \in Ids : given[id] \in Nat
    BY <1>3, <1>8, <1>9
  <2>2. given = [id \in Ids |-> given[id]]
    BY DEF ByOrder
  <2> QED
    BY <2>1, <2>2
<1>11. \A id \in Ids : given[id] > 0 =>
         /\ nodes[id] \in Orders
         /\ given[id] <= nodes[id].remaining
  BY <1>5, <1>8, <1>9
<1> HIDE DEF given, ids, side
<1>12. ASSUME NEW id \in Ids
       PROVE  /\ nodes'[id] \in Orders \union {Null}
              /\ nodes[id] = Null => nodes'[id] = Null
              /\ nodes[id] # Null => /\ nodes'[id] # Null
                                     /\ nodes'[id].id = nodes[id].id
                                     /\ nodes'[id].side = nodes[id].side
                                     /\ nodes'[id].type = nodes[id].type
  <2>1. CASE given[id] > 0
    <3>1. nodes'[id] = [nodes[id] EXCEPT !.remaining = @ - given[id]]
      BY <2>1, <1>7 DEF given
    <3>2. nodes[id].remaining \in Nat /\ nodes[id].remaining - given[id] \in Nat
      BY <2>1, <1>10, <1>11 DEF Orders
    <3>3. nodes'[id] \in Orders
      BY <3>1, <3>2, <2>1, <1>11 DEF Orders
    <3>4. nodes'[id].id = nodes[id].id /\ nodes'[id].side = nodes[id].side
          /\ nodes'[id].type = nodes[id].type
      BY <3>1, <2>1, <1>11 DEF Orders
    <3> QED
      BY <3>3, <3>4, <2>1, <1>11, NullAssumption
  <2>2. CASE ~(given[id] > 0)
    BY <2>2, <1>1, <1>7 DEF given
  <2> QED
    BY <2>1, <2>2
<1>13. nodes' \in [Ids -> Orders \union {Null}]
  <2>1. nodes' = [id \in Ids |-> nodes'[id]]
    BY <1>7
  <2> QED
    BY <2>1, <1>12
<1>14. taker' \in Orders /\ taker'.side = taker.side
  <2>1. taker.remaining - Total(fills) \in Nat
    BY <1>3, <1>8
  <2> QED
    BY <2>1, <1>1, <1>7 DEF Orders
<1>15. filled' \in SUBSET Ids
  BY <1>7
<1>16. trades' \in Seq(Prints)
  <2>1. [price |-> level, fills |-> given] \in Prints
    BY <1>10 DEF Prints
  <2>2. Append(trades, [price |-> level, fills |-> given]) \in Seq(Prints)
    BY <2>1, <1>1, AppendProperties
  <2> QED
    BY <2>2, <1>1, <1>7 DEF given
<1>17. RestingIsIndexed' /\ IndexedRests' /\ StopsIndexed'
  BY <1>2 DEF BookIndexed, StopsIndexed, RestingIsIndexed, IndexedRests,
              ParkedIsIndexed, IndexedParks, BookAddress, StopAddress, IsStop
<1>18. NodesAreIndexed'
  BY <1>2, <1>12 DEF BookIndexed, NodesAreIndexed
<1> QED
  BY <1>13, <1>14, <1>15, <1>16, <1>17, <1>18 DEF BookIndexed

-------------------------------------------------------------------------------
(* The inductive invariant *)

\* An order is in hand throughout an execution.
InHand == Executing => taker # Null

\* The level under sweep is an active one until the sweep leaves it.
AtLevel == pc \in {"stp", "unlink"} => level \in levels[Opposite(taker.side)]

\* What every step preserves: IndexConsistent says nothing of the order in hand
\* and of the level under sweep, on which Allocate and the unlinks depend.
IInv == TypeOK /\ IndexConsistent /\ InHand /\ AtLevel

\* The invariant, its index parts grouped by the half of the book they are about.
LEMMA IInvParts ==
  IInv <=> /\ TypeOK /\ BookIndexed /\ StopsIndexed
           /\ LevelsAreActive /\ TriggersAreActive /\ InHand /\ AtLevel
BY DEF IInv, IndexConsistent, BookIndexed, StopsIndexed

\* The same of the next state.
LEMMA IInvFromParts ==
  ASSUME TypeOK', BookIndexed', StopsIndexed', LevelsAreActive', TriggersAreActive',
         InHand', AtLevel'
  PROVE  IInv'
BY DEF IInv, IndexConsistent, BookIndexed, StopsIndexed

\* A step that changes neither book nor stop book keeps the index
\* (the reporting and bookkeeping steps of submit).
LEMMA UntouchedKeepsIndex ==
  ASSUME BookIndexed, StopsIndexed, TriggersAreActive, UNCHANGED <<book, stopBook>>
  PROVE  BookIndexed' /\ StopsIndexed' /\ TriggersAreActive'
BY DEF BookIndexed, StopsIndexed, RestingIsIndexed, IndexedRests, NodesAreIndexed,
       ParkedIsIndexed, IndexedParks, TriggersAreActive, BookAddress, StopAddress,
       IsStop, book, stopBook

\* The trigger keys depend on the stop book alone.
LEMMA TriggersUntouched ==
  ASSUME TriggersAreActive, UNCHANGED stopBook
  PROVE  TriggersAreActive'
BY DEF TriggersAreActive, stopBook

\* Levels stay active when no level and no queue changes and no sweep of a level
\* is under way.
LEMMA LevelsUntouched ==
  ASSUME LevelsAreActive, levels' = levels, queue' = queue, pc \notin {"stp", "unlink"}
  PROVE  LevelsAreActive'
BY DEF LevelsAreActive

\* Levels stay active when one level changes and is active afterwards exactly if
\* orders rest there (get_or_create on the way in, the emptiness check on the way out).
LEMMA LevelChanged ==
  ASSUME LevelsAreActive,
         NEW side \in Sides, NEW price \in Prices,
         \A s \in Sides, p \in Prices : s # side \/ p # price =>
           queue'[s][p] = queue[s][p] /\ (p \in levels'[s] <=> p \in levels[s]),
         price \in levels'[side] <=> queue'[side][price] # <<>>,
         \/ pc \notin {"stp", "unlink"}
         \/ side = Opposite(taker.side) /\ price = level
  PROVE  LevelsAreActive'
<1> SUFFICES ASSUME NEW s \in Sides, NEW p \in Prices
             PROVE  p \in levels'[s] <=> queue'[s][p] # <<>>
  BY DEF LevelsAreActive
<1>1. CASE s = side /\ p = price
  BY <1>1
<1>2. CASE s # side \/ p # price
  <2>1. queue'[s][p] = queue[s][p] /\ (p \in levels'[s] <=> p \in levels[s])
    BY <1>2
  <2>2. p \in levels[s] <=> queue[s][p] # <<>>
    BY <1>2 DEF LevelsAreActive
  <2> QED
    BY <2>1, <2>2
<1> QED
  BY <1>1, <1>2

\* The empty book (OrderBook::new).
LEMMA InitIInv == Init => IInv
<1> SUFFICES ASSUME Init PROVE IInv
  OBVIOUS
<1>1. TypeOK
  <2>1. /\ <<>> \in Seq(Ids) /\ <<>> \in Seq(Orders) /\ <<>> \in Seq(Prints)
    BY EmptySeq
  <2> QED
    BY <2>1, OrderBookAssumption DEF Init, TypeOK, Steps
<1>2. \A s \in Sides, p \in Prices : Len(queue[s][p]) = 0 /\ Len(stops[s][p]) = 0
  BY EmptySeq DEF Init
<1>3. BookIndexed
  BY <1>2, AddressParts DEF Init, BookIndexed, RestingIsIndexed, IndexedRests, NodesAreIndexed
<1>4. StopsIndexed
  BY <1>2, AddressParts DEF Init, StopsIndexed, ParkedIsIndexed, IndexedParks
<1>5. LevelsAreActive /\ TriggersAreActive /\ InHand /\ AtLevel
  BY DEF Init, LevelsAreActive, TriggersAreActive, InHand, AtLevel, Executing
<1> QED
  BY <1>1, <1>3, <1>4, <1>5, IInvParts

\* Commands: submit accepted, add_order, cancel_order.
LEMMA CommandKeepsIInv ==
  ASSUME IInv, Command
  PROVE  IInv'
<1>1. /\ TypeOK /\ BookIndexed /\ StopsIndexed
      /\ LevelsAreActive /\ TriggersAreActive /\ InHand /\ AtLevel
  BY IInvParts
<1> USE <1>1
<1>2. ASSUME NEW request \in Requests, Submit(request)
      PROVE  IInv'
  <2>1. BookIndexed' /\ StopsIndexed' /\ TriggersAreActive'
    BY <1>2, UntouchedKeepsIndex DEF Submit
  <2>2. LevelsAreActive'
    BY <1>2, LevelsUntouched DEF Submit, book
  <2>3. nextSeq \in Ids /\ nextSeq' \in 1 .. MaxSeq + 1
    BY <1>2, OrderBookAssumption DEF Submit, TypeOK, Ids
  <2>4. taker' \in Orders
    BY <1>2, <2>3, OrderOfType DEF Submit
  <2>5. TypeOK'
    BY <1>2, <2>3, <2>4 DEF Submit, TypeOK, Steps, book, stopBook
  <2>6. InHand' /\ AtLevel'
    BY <1>2, <2>4, NullAssumption DEF Submit, InHand, AtLevel
  <2> QED
    BY <2>1, <2>2, <2>5, <2>6, IInvFromParts
<1>3. ASSUME NEW request \in Requests, NEW id \in CallerIds, AddOrder(request, id)
      PROVE  IInv'
  <2> DEFINE order == OrderOf(request, id)
  <2>1. id \in Ids /\ order \in Orders
    BY OrderOfType DEF Ids
  <2>2. pc = "idle" /\ Restable(order) /\ UNCHANGED <<stopBook, last, nextSeq, taker, level, filled, trades, cancelled>>
    BY <1>3 DEF AddOrder
  <2>3. CASE nextArrival < MaxArrival
    <3>1. Rest(order) /\ pc' = pc
      BY <1>3, <2>3 DEF AddOrder
    <3> HIDE DEF order
    <3>2. stops' = stops /\ triggers' = triggers
      BY <2>2 DEF stopBook
    <3>3. /\ order.side \in Sides /\ order.type.price \in Prices
          /\ levels' \in [Sides -> SUBSET Prices]
          /\ queue' \in [Sides -> [Prices -> Seq(Ids)]]
          /\ nodes' \in [Ids -> Orders \union {Null}]
          /\ index' \in [Ids -> Addresses \union {Null}]
          /\ nextArrival' \in 1 .. MaxArrival
          /\ \A s \in Sides, p \in Prices :
               s # order.side \/ p # order.type.price =>
                 queue'[s][p] = queue[s][p] /\ (p \in levels'[s] <=> p \in levels[s])
          /\ queue'[order.side][order.type.price] # <<>>
          /\ order.type.price \in levels'[order.side]
          /\ BookIndexed'
          /\ StopsIndexed'
      BY <2>1, <2>2, <2>3, <3>1, <3>2, RestKeepsIndex
    <3>4. LevelsAreActive'
      BY <2>2, <3>3, LevelChanged
    <3>5. TypeOK'
      BY <2>2, <3>1, <3>2, <3>3 DEF TypeOK
    <3>6. TriggersAreActive'
      BY <2>2, TriggersUntouched
    <3>7. InHand' /\ AtLevel'
      BY <2>2, <3>1 DEF InHand, AtLevel, Executing
    <3> QED
      BY <3>3, <3>4, <3>5, <3>6, <3>7, IInvFromParts
  <2>4. CASE ~(nextArrival < MaxArrival)
    <3>1. pc' = "panicked" /\ UNCHANGED <<book, nextArrival>>
      BY <1>3, <2>4 DEF AddOrder
    <3>2. BookIndexed' /\ StopsIndexed' /\ TriggersAreActive'
      BY <2>2, <3>1, UntouchedKeepsIndex
    <3>3. LevelsAreActive'
      BY <2>2, <3>1, LevelsUntouched DEF book
    <3>4. TypeOK'
      BY <2>2, <3>1 DEF TypeOK, book, stopBook, Steps
    <3>5. InHand' /\ AtLevel'
      BY <3>1 DEF InHand, AtLevel, Executing
    <3> QED
      BY <3>2, <3>3, <3>4, <3>5, IInvFromParts
  <2> QED
    BY <2>3, <2>4
<1>4. ASSUME NEW id \in Ids, CancelResting(id)
      PROVE  IInv'
  <2> DEFINE side == index[id].side
             price == index[id].price
  <2>1. /\ pc = "idle" /\ index[id] # Null
        /\ Unlink(side, price, id)
        /\ levels' = [levels EXCEPT ![side] = IF queue'[side][price] = <<>> THEN @ \ {price} ELSE @]
        /\ UNCHANGED <<stopBook, last, counters, pc, taker, level, filled, trades, cancelled>>
    BY <1>4 DEF CancelResting
  <2>2. side \in Sides /\ price \in Prices
    BY <2>1, AddressCases DEF TypeOK
  <2> HIDE DEF side, price
  <2>3. stops' = stops
    BY <2>1 DEF stopBook
  <2>4. /\ queue' \in [Sides -> [Prices -> Seq(Ids)]]
        /\ nodes' \in [Ids -> Orders \union {Null}]
        /\ index' \in [Ids -> Addresses \union {Null}]
        /\ \A s \in Sides, p \in Prices :
             s # side \/ p # price => queue'[s][p] = queue[s][p]
        /\ queue[side][price] # <<>>
        /\ BookIndexed'
        /\ StopsIndexed'
    BY <2>1, <2>2, <2>3, UnlinkKeepsIndex
  <2>5. /\ levels' \in [Sides -> SUBSET Prices]
        /\ \A s \in Sides, p \in Prices :
             s # side \/ p # price => (p \in levels'[s] <=> p \in levels[s])
        /\ price \in levels'[side] <=> queue'[side][price] # <<>>
    <3>1. price \in levels[side]
      BY <2>2, <2>4 DEF LevelsAreActive
    <3>2. levels \in [Sides -> SUBSET Prices]
      BY DEF TypeOK
    <3> QED
      BY <3>1, <3>2, <2>1, <2>2
  <2>6. LevelsAreActive'
    BY <2>1, <2>2, <2>4, <2>5, LevelChanged
  <2>7. TypeOK'
    BY <2>1, <2>4, <2>5 DEF TypeOK, stopBook, counters
  <2>8. TriggersAreActive'
    BY <2>1, TriggersUntouched
  <2>9. InHand' /\ AtLevel'
    BY <2>1 DEF InHand, AtLevel, Executing
  <2> QED
    BY <2>4, <2>6, <2>7, <2>8, <2>9, IInvFromParts
<1>5. ASSUME NEW id \in Ids, CancelParked(id)
      PROVE  IInv'
  <2> DEFINE side == index[id].side
             trigger == index[id].price
  <2>1. /\ pc = "idle" /\ index[id] # Null
        /\ \E i \in DOMAIN stops[side][trigger] : Unpark(side, trigger, i)
        /\ UNCHANGED <<levels, queue, nodes, last, counters, pc, taker, level, filled, trades, cancelled>>
    BY <1>5 DEF CancelParked
  <2>2. side \in Sides /\ trigger \in Prices
    BY <2>1, AddressCases DEF TypeOK
  <2> HIDE DEF side, trigger
  <2>3. DOMAIN stops[side][trigger] = 1 .. Len(stops[side][trigger])
    <3>1. stops[side][trigger] \in Seq(Orders)
      BY <2>2 DEF TypeOK
    <3> QED
      BY <3>1, LenProperties
  <2>4. /\ stops' \in [Sides -> [Prices -> Seq(Orders)]]
        /\ triggers' \in [Sides -> SUBSET Prices]
        /\ index' \in [Ids -> Addresses \union {Null}]
        /\ BookIndexed' /\ StopsIndexed' /\ TriggersAreActive'
    BY <2>1, <2>2, <2>3, UnparkKeepsIndex
  <2>5. LevelsAreActive'
    BY <2>1, LevelsUntouched
  <2>6. TypeOK'
    BY <2>1, <2>4 DEF TypeOK, counters
  <2>7. InHand' /\ AtLevel'
    BY <2>1 DEF InHand, AtLevel, Executing
  <2> QED
    BY <2>4, <2>5, <2>6, <2>7, IInvFromParts
<1> QED
  BY <1>2, <1>3, <1>4, <1>5 DEF Command

\* While a level is under sweep its queue may change, down to empty; every other
\* level stays as it is.
LEMMA LevelUnderSweep ==
  ASSUME LevelsAreActive, pc \in {"stp", "unlink"}, pc' \in {"stp", "unlink"},
         levels' = levels, level' = level, taker'.side = taker.side,
         level \in levels[Opposite(taker.side)],
         \A s \in Sides, p \in Prices : s # Opposite(taker.side) \/ p # level =>
           queue'[s][p] = queue[s][p]
  PROVE  LevelsAreActive'
<1>1. Opposite(taker.side)' = Opposite(taker.side)
  BY DEF Opposite
<1> QED
  BY <1>1 DEF LevelsAreActive

\* The order in hand, and the level under sweep, have their types.
LEMMA HandAndLevel ==
  ASSUME TypeOK, InHand, AtLevel
  PROVE  /\ Executing => taker \in Orders /\ Opposite(taker.side) \in Sides
         /\ pc \in {"stp", "unlink"} => level \in Prices
<1>1. ASSUME Executing PROVE taker \in Orders /\ Opposite(taker.side) \in Sides
  <2>1. taker \in Orders
    BY <1>1 DEF TypeOK, InHand
  <2> QED
    BY <2>1, OppositeSide DEF Orders
<1>2. ASSUME pc \in {"stp", "unlink"} PROVE level \in Prices
  BY <1>1, <1>2 DEF AtLevel, Executing, TypeOK
<1> QED
  BY <1>1, <1>2

\* The last price is a price, once there is one.
LEMMA LastAfterType ==
  ASSUME TypeOK
  PROVE  LastAfter \in Prices \union {Null}
<1>1. CASE trades = <<>>
  BY <1>1 DEF LastAfter, TypeOK
<1>2. CASE trades # <<>>
  <2>1. trades \in Seq(Prints) /\ Len(trades) \in Nat \ {0}
    BY <1>2, EmptySeq DEF TypeOK
  <2>2. trades[Len(trades)] \in Prints
    BY <2>1, ElementOfSeq
  <2> QED
    BY <1>2, <2>2 DEF LastAfter, Last, Prints
<1> QED
  BY <1>1, <1>2

\* Steps of an execution that change neither queues nor stop book: the dry run,
\* activation on arrival, the errors, and the ends of sweep and cascade.
LEMMA BookkeepingKeepsIInv ==
  ASSUME IInv,
         \/ KillUnfillable \/ StartSweep \/ ActivateAtOnce \/ ParkDuplicate
         \/ TakeLevel \/ EndSweep \/ SettleWithoutRest \/ SettleFails \/ SettlePanics
         \/ EndCascade
  PROVE  IInv'
<1>1. /\ TypeOK /\ BookIndexed /\ StopsIndexed
      /\ LevelsAreActive /\ TriggersAreActive /\ InHand /\ AtLevel
  BY IInvParts
<1> USE <1>1
<1>2. UNCHANGED <<book, stopBook, counters>> /\ pc \notin {"stp", "unlink"}
  BY DEF KillUnfillable, StartSweep, ActivateAtOnce, ParkDuplicate, TakeLevel, EndSweep,
         SettleWithoutRest, SettleFails, SettlePanics, EndCascade
<1>3. BookIndexed' /\ StopsIndexed' /\ TriggersAreActive'
  BY <1>2, UntouchedKeepsIndex
<1>4. LevelsAreActive'
  BY <1>2, LevelsUntouched DEF book
<1>5. pc' \in Steps /\ last' \in Prices \union {Null}
  <2>1. LastAfter \in Prices \union {Null}
    BY LastAfterType
  <2> QED
    BY <2>1 DEF KillUnfillable, StartSweep, ActivateAtOnce, ParkDuplicate, TakeLevel,
         EndSweep, SettleWithoutRest, SettleFails, SettlePanics, EndCascade, GoIdle,
         TypeOK, Steps
<1>6. /\ taker' \in Orders \union {Null}
      /\ Executing' => taker' # Null
  <2>1. CASE ActivateAtOnce
    <3>1. taker' \in Orders
      BY <2>1, ActivateType, HandAndLevel DEF ActivateAtOnce, Executing
    <3> QED
      BY <3>1, NullAssumption
  <2>2. CASE ParkDuplicate \/ SettleFails \/ EndCascade
    BY <2>2 DEF ParkDuplicate, SettleFails, EndCascade, GoIdle, Executing
  <2>3. CASE KillUnfillable \/ StartSweep \/ TakeLevel \/ EndSweep \/ SettleWithoutRest
             \/ SettlePanics
    BY <2>3 DEF KillUnfillable, StartSweep, TakeLevel, EndSweep, SettleWithoutRest,
                SettlePanics, Executing, InHand, TypeOK
  <2> QED
    BY <2>1, <2>2, <2>3
<1>7. /\ level' \in Prices \union {Null}
      /\ pc' \in {"stp", "unlink"} => level' \in levels'[Opposite(taker'.side)]
  <2>1. CASE TakeLevel
    <3>1. Opposite(taker.side) \in Sides
      BY <2>1, HandAndLevel DEF TakeLevel, Executing
    <3>2. level' \in levels[Opposite(taker.side)]
      BY <2>1, <3>1, BestIsLevel DEF TakeLevel
    <3> QED
      BY <2>1, <3>1, <3>2, <1>2 DEF TakeLevel, TypeOK, book
  <2>2. CASE ParkDuplicate \/ SettleFails \/ EndCascade
    BY <2>2 DEF ParkDuplicate, SettleFails, EndCascade, GoIdle
  <2>3. CASE KillUnfillable \/ StartSweep \/ ActivateAtOnce \/ EndSweep
             \/ SettleWithoutRest \/ SettlePanics
    BY <2>3 DEF KillUnfillable, StartSweep, ActivateAtOnce, EndSweep, SettleWithoutRest,
                SettlePanics, TypeOK
  <2> QED
    BY <2>1, <2>2, <2>3
<1>8. filled' \in SUBSET Ids /\ trades' \in Seq(Prints) /\ cancelled' \in SUBSET Ids
  <2>1. <<>> \in Seq(Prints)
    BY EmptySeq
  <2> QED
    BY <2>1 DEF KillUnfillable, StartSweep, ActivateAtOnce, ParkDuplicate, TakeLevel,
         EndSweep, SettleWithoutRest, SettleFails, SettlePanics, EndCascade, GoIdle, TypeOK
<1>9. TypeOK'
  BY <1>2, <1>5, <1>6, <1>7, <1>8 DEF TypeOK, book, stopBook, counters
<1>10. InHand' /\ AtLevel'
  BY <1>6, <1>7 DEF InHand, AtLevel, Opposite
<1> QED
  BY <1>3, <1>4, <1>9, <1>10, IInvFromParts

\* Parking, and firing a parked stop (park and pop_triggered_stop).
LEMMA StopKeepsIInv ==
  ASSUME IInv, Park \/ \E side \in Sides : FireStop(side)
  PROVE  IInv'
<1>1. /\ TypeOK /\ BookIndexed /\ StopsIndexed
      /\ LevelsAreActive /\ TriggersAreActive /\ InHand /\ AtLevel
  BY IInvParts
<1> USE <1>1
<1>2. ASSUME Park
      PROVE  IInv'
  <2>1. /\ pc = "execute" /\ pc' = "cascade"
        /\ UNCHANGED <<levels, queue, nodes, last, counters, taker, level, filled, trades, cancelled>>
    BY <1>2 DEF Park
  <2>2. taker # Null
    BY <2>1 DEF InHand, Executing
  <2>3. /\ stops' \in [Sides -> [Prices -> Seq(Orders)]]
        /\ triggers' \in [Sides -> SUBSET Prices]
        /\ index' \in [Ids -> Addresses \union {Null}]
        /\ BookIndexed' /\ StopsIndexed' /\ TriggersAreActive'
    BY <1>2, <2>2, ParkKeepsIndex
  <2>4. LevelsAreActive'
    BY <2>1, LevelsUntouched
  <2>5. TypeOK'
    BY <2>1, <2>3 DEF TypeOK, counters, Steps
  <2>6. InHand' /\ AtLevel'
    BY <2>1 DEF InHand, AtLevel, Executing
  <2> QED
    BY <2>3, <2>4, <2>5, <2>6, IInvFromParts
<1>3. ASSUME NEW side \in Sides, FireStop(side)
      PROVE  IInv'
  <2> DEFINE trigger == NearestTrigger(side)
  <2>1. /\ pc = "cascade" /\ pc' = "execute" /\ triggers[side] # {}
        /\ Unpark(side, trigger, 1)
        /\ taker' = Activate(Head(stops[side][trigger]))
        /\ trades' = <<>> /\ cancelled' = {}
        /\ UNCHANGED <<levels, queue, nodes, last, counters, level, filled>>
    BY <1>3 DEF FireStop, Fires
  <2>2. trigger \in triggers[side] /\ trigger \in Prices
    BY <2>1, NearestIsTrigger DEF TypeOK
  <2> HIDE DEF trigger
  <2>3. /\ stops[side][trigger] \in Seq(Orders) /\ stops[side][trigger] # <<>>
        /\ 1 \in 1 .. Len(stops[side][trigger])
    <3>1. stops[side][trigger] \in Seq(Orders)
      BY <2>2 DEF TypeOK
    <3>2. stops[side][trigger] # <<>>
      BY <2>2 DEF TriggersAreActive
    <3> QED
      BY <3>1, <3>2, EmptySeq
  <2>4. /\ stops' \in [Sides -> [Prices -> Seq(Orders)]]
        /\ triggers' \in [Sides -> SUBSET Prices]
        /\ index' \in [Ids -> Addresses \union {Null}]
        /\ BookIndexed' /\ StopsIndexed' /\ TriggersAreActive'
    BY <2>1, <2>2, <2>3, UnparkKeepsIndex
  <2>5. taker' \in Orders
    BY <2>1, <2>3, HeadTailProperties, ActivateType
  <2>6. LevelsAreActive'
    BY <2>1, LevelsUntouched
  <2>7. trades' \in Seq(Prints)
    BY <2>1, EmptySeq
  <2>8. TypeOK'
    BY <2>1, <2>4, <2>5, <2>7 DEF TypeOK, counters, Steps
  <2>9. InHand' /\ AtLevel'
    BY <2>1, <2>5, NullAssumption DEF InHand, AtLevel
  <2> QED
    BY <2>4, <2>6, <2>8, <2>9, IInvFromParts
<1> QED
  BY <1>2, <1>3

\* The sweep of one level: self-trade prevention, the fills, the removal of what
\* they exhausted and the removal of a drained level (match_level).
LEMMA SweepKeepsIInv ==
  ASSUME IInv, CancelOwn \/ Allocate \/ UnlinkExhausted \/ LeaveLevel
  PROVE  IInv'
<1>1. /\ TypeOK /\ BookIndexed /\ StopsIndexed
      /\ LevelsAreActive /\ TriggersAreActive /\ InHand /\ AtLevel
  BY IInvParts
<1> USE <1>1
<1>2. pc \in {"stp", "unlink"} /\ UNCHANGED stopBook
  BY DEF CancelOwn, Allocate, UnlinkExhausted, LeaveLevel
<1> DEFINE side == Opposite(taker.side)
<1>3. /\ taker \in Orders /\ taker # Null /\ side \in Sides /\ level \in Prices
      /\ level \in levels[side]
  BY <1>2, HandAndLevel DEF Executing, InHand, AtLevel
<1>4. TriggersAreActive' /\ stops' = stops /\ triggers' = triggers
  BY <1>2, TriggersUntouched DEF stopBook
<1>5. ASSUME NEW id \in Ids, Unlink(side, level, id),
             UNCHANGED <<levels, stopBook, last, counters, pc, taker, level, filled, trades>>,
             cancelled' \in SUBSET Ids
      PROVE  IInv'
  <2> HIDE DEF side
  <2>1. /\ queue' \in [Sides -> [Prices -> Seq(Ids)]]
        /\ nodes' \in [Ids -> Orders \union {Null}]
        /\ index' \in [Ids -> Addresses \union {Null}]
        /\ \A s \in Sides, p \in Prices : s # side \/ p # level => queue'[s][p] = queue[s][p]
        /\ BookIndexed'
        /\ StopsIndexed'
    BY <1>3, <1>4, <1>5, UnlinkKeepsIndex
  <2>2. LevelsAreActive'
    BY <1>2, <1>3, <1>5, <2>1, LevelUnderSweep DEF side
  <2>3. TypeOK'
    BY <1>4, <1>5, <2>1 DEF TypeOK, counters
  <2>4. InHand' /\ AtLevel'
    BY <1>3, <1>5 DEF InHand, AtLevel, Opposite, side
  <2> QED
    BY <1>4, <2>1, <2>2, <2>3, <2>4, IInvFromParts
<1>6. ASSUME CancelOwn
      PROVE  IInv'
  <2>1. PICK id \in OwnIds :
          Unlink(side, level, id) /\ cancelled' = cancelled \union {id}
    BY <1>6 DEF CancelOwn
  <2>2. id \in Ids
    <3>1. queue[side][level] \in Seq(Ids)
      BY <1>3 DEF TypeOK
    <3>2. PICK i \in DOMAIN queue[side][level] : queue[side][level][i] = id
      BY <2>1 DEF Unlink
    <3> QED
      BY <3>1, <3>2, LenProperties, ElementOfSeq
  <2>3. cancelled' \in SUBSET Ids
    BY <2>1, <2>2 DEF TypeOK
  <2> QED
    BY <1>5, <1>6, <2>1, <2>2, <2>3 DEF CancelOwn
<1>7. ASSUME UnlinkExhausted
      PROVE  IInv'
  <2>1. PICK id \in Exhausted : Unlink(side, level, id)
    BY <1>7 DEF UnlinkExhausted
  <2>2. id \in Ids
    BY <2>1 DEF Exhausted, TypeOK
  <2>3. cancelled' \in SUBSET Ids
    BY <1>7 DEF UnlinkExhausted, TypeOK
  <2> QED
    BY <1>5, <1>7, <2>1, <2>2, <2>3 DEF UnlinkExhausted
<1>8. ASSUME Allocate
      PROVE  IInv'
  <2>1. /\ pc' = "unlink"
        /\ UNCHANGED <<levels, queue, index, stopBook, last, counters, level, cancelled>>
    BY <1>8 DEF Allocate
  <2>2. /\ nodes' \in [Ids -> Orders \union {Null}]
        /\ taker' \in Orders /\ taker'.side = taker.side
        /\ filled' \in SUBSET Ids
        /\ trades' \in Seq(Prints)
        /\ BookIndexed'
        /\ StopsIndexed'
    BY <1>3, <1>8, AllocateKeepsIndex
  <2>3. LevelsAreActive'
    BY <1>2, <1>3, <2>1, <2>2, LevelUnderSweep
  <2>4. TypeOK'
    BY <1>4, <2>1, <2>2 DEF TypeOK, counters, Steps
  <2>5. InHand' /\ AtLevel'
    BY <1>3, <2>1, <2>2, NullAssumption DEF InHand, AtLevel, Opposite
  <2> QED
    BY <1>4, <2>2, <2>3, <2>4, <2>5, IInvFromParts
<1>9. ASSUME LeaveLevel
      PROVE  IInv'
  <2>1. /\ UNCHANGED <<queue, nodes, index, stopBook, last, counters, taker, trades, cancelled>>
        /\ level' = Null /\ filled' = {}
        /\ IF queue[side][level] = <<>>
           THEN levels' = [levels EXCEPT ![side] = @ \ {level}] /\ pc' = "sweep"
           ELSE pc' = "settle" /\ levels' = levels
    BY <1>9 DEF LeaveLevel
  <2> HIDE DEF side
  <2>2. /\ levels' \in [Sides -> SUBSET Prices]
        /\ \A s \in Sides, p \in Prices :
             s # side \/ p # level => (p \in levels'[s] <=> p \in levels[s])
        /\ level \in levels'[side] <=> queue[side][level] # <<>>
    <3>1. levels \in [Sides -> SUBSET Prices]
      BY DEF TypeOK
    <3> QED
      BY <3>1, <2>1, <1>3
  <2>3. LevelsAreActive'
    BY <1>3, <2>1, <2>2, LevelChanged DEF side
  <2>4. BookIndexed' /\ StopsIndexed'
    BY <1>4, <2>1 DEF BookIndexed, StopsIndexed, RestingIsIndexed, IndexedRests, NodesAreIndexed,
                      ParkedIsIndexed, IndexedParks, BookAddress, StopAddress, IsStop
  <2>5. TypeOK'
    BY <1>4, <2>1, <2>2 DEF TypeOK, counters, Steps
  <2>6. InHand' /\ AtLevel'
    BY <1>3, <2>1 DEF InHand, AtLevel
  <2> QED
    BY <1>4, <2>3, <2>4, <2>5, <2>6, IInvFromParts
<1> QED
  BY <1>6, <1>7, <1>8, <1>9

\* The remainder comes to rest (settle_remainder).
LEMMA SettleKeepsIInv ==
  ASSUME IInv, SettleByResting
  PROVE  IInv'
<1>1. /\ TypeOK /\ BookIndexed /\ StopsIndexed
      /\ LevelsAreActive /\ TriggersAreActive /\ InHand /\ AtLevel
  BY IInvParts
<1> USE <1>1
<1>2. /\ pc = "settle" /\ pc' = "cascade"
      /\ Restable(taker) /\ nextArrival < MaxArrival /\ Rest(taker)
      /\ last' = LastAfter
      /\ UNCHANGED <<stopBook, nextSeq, taker, level, filled, trades, cancelled>>
  BY DEF SettleByResting
<1>3. taker \in Orders /\ stops' = stops /\ triggers' = triggers
  BY <1>2, HandAndLevel DEF Executing, stopBook
<1>4. /\ taker.side \in Sides /\ taker.type.price \in Prices
      /\ levels' \in [Sides -> SUBSET Prices]
      /\ queue' \in [Sides -> [Prices -> Seq(Ids)]]
      /\ nodes' \in [Ids -> Orders \union {Null}]
      /\ index' \in [Ids -> Addresses \union {Null}]
      /\ nextArrival' \in 1 .. MaxArrival
      /\ \A s \in Sides, p \in Prices :
           s # taker.side \/ p # taker.type.price =>
             queue'[s][p] = queue[s][p] /\ (p \in levels'[s] <=> p \in levels[s])
      /\ queue'[taker.side][taker.type.price] # <<>>
      /\ taker.type.price \in levels'[taker.side]
      /\ BookIndexed'
      /\ StopsIndexed'
  BY <1>2, <1>3, RestKeepsIndex
<1>5. LevelsAreActive'
  BY <1>2, <1>4, LevelChanged
<1>6. TriggersAreActive'
  BY <1>2, TriggersUntouched
<1>7. last' \in Prices \union {Null}
  BY <1>2, LastAfterType
<1>8. TypeOK'
  BY <1>2, <1>3, <1>4, <1>7 DEF TypeOK, Steps
<1>9. InHand' /\ AtLevel'
  BY <1>2 DEF InHand, AtLevel, Executing
<1> QED
  BY <1>4, <1>5, <1>6, <1>8, <1>9, IInvFromParts

-------------------------------------------------------------------------------
(* The theorems *)

\* Every step of the engine keeps the inductive invariant.
LEMMA NextKeepsIInv == IInv /\ [Next]_vars => IInv'
<1> SUFFICES ASSUME IInv, [Next]_vars
             PROVE  IInv'
  OBVIOUS
<1>1. CASE Command
  BY <1>1, CommandKeepsIInv
<1>2. CASE Execution
  BY <1>2, BookkeepingKeepsIInv, StopKeepsIInv, SweepKeepsIInv, SettleKeepsIInv DEF Execution
<1>3. CASE UNCHANGED vars
  BY <1>3 DEF vars, IInv, IndexConsistent, TypeOK, RestingIsIndexed, IndexedRests,
              NodesAreIndexed, ParkedIsIndexed, IndexedParks, LevelsAreActive,
              TriggersAreActive, InHand, AtLevel, Executing, BookAddress, StopAddress,
              IsStop, Opposite
<1> QED
  BY <1>1, <1>2, <1>3 DEF Next, AwaitCommand

\* The inductive invariant holds throughout.
THEOREM Inductive == Spec => []IInv
<1>1. Init => IInv
  BY InitIInv
<1>2. IInv /\ [Next]_vars => IInv'
  BY NextKeepsIInv
<1> QED
  BY <1>1, <1>2, PTL DEF Spec

\* The state keeps its types: in particular no fill ever takes more than the maker
\* or the taker has left (matching.rs:510-511 subtract without a check), whatever
\* contract-abiding policy is plugged in.
THEOREM TypeCorrect == Spec => []TypeOK
<1>1. IInv => TypeOK
  BY DEF IInv
<1> QED
  BY <1>1, Inductive, PTL

\* The index, the arena, the level queues and the stop book agree at every step,
\* so the expects of cancel_order and remove_key cannot fire
\* (orderbook.rs:280-286, order_queue.rs:58-78).
THEOREM IndexAlwaysConsistent == Spec => []IndexConsistent
<1>1. IInv => IndexConsistent
  BY DEF IInv
<1> QED
  BY <1>1, Inductive, PTL
===============================================================================
