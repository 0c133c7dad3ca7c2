----------------------------- MODULE MatchingProofs -----------------------------
(***************************************************************************)
(* What the engine of OrderBook owes the orders in its book: queues stay   *)
(* in order of arrival, prints go to the best price, a sweep leaves        *)
(* nothing it could have traded with, the book never sits crossed, and     *)
(* between commands no reached stop is left parked.  Every proof adds to   *)
(* the inductive invariant of OrderBookProofs what its property needs.     *)
(***************************************************************************)
EXTENDS OrderBookProofs

-------------------------------------------------------------------------------
(* Orders at rest *)

\* Every position of a level's queue holds a limit order of that side and price.
LEMMA QueuedOrder ==
  ASSUME IInv, NEW s \in Sides, NEW p \in Prices, NEW i \in 1 .. Len(queue[s][p])
  PROVE  /\ queue[s][p] \in Seq(Ids)
         /\ queue[s][p][i] \in Ids
         /\ index[queue[s][p][i]] = BookAddress(s, p)
         /\ nodes[queue[s][p][i]] \in Orders
         /\ nodes[queue[s][p][i]].side = s
         /\ nodes[queue[s][p][i]].type.price = p
<1>1. TypeOK /\ RestingIsIndexed /\ NodesAreIndexed
  BY IInvParts DEF BookIndexed
<1>2. queue[s][p] \in Seq(Ids)
  BY <1>1 DEF TypeOK
<1>3. queue[s][p][i] \in Ids
  BY <1>2, ElementOfSeq
<1>4. index[queue[s][p][i]] = BookAddress(s, p)
  BY <1>1 DEF RestingIsIndexed
<1>5. /\ nodes[queue[s][p][i]] # Null
      /\ nodes[queue[s][p][i]].side = s
      /\ nodes[queue[s][p][i]].type.price = p
  BY <1>1, <1>3, <1>4, AddressParts DEF NodesAreIndexed
<1>6. nodes[queue[s][p][i]] \in Orders
  BY <1>1, <1>3, <1>5 DEF TypeOK
<1> QED
  BY <1>2, <1>3, <1>4, <1>5, <1>6

\* An order in the arena rests at an active level of its side.
LEMMA RestingAtLevel ==
  ASSUME IInv, NEW id \in Ids, nodes[id] # Null
  PROVE  /\ nodes[id] \in Orders
         /\ nodes[id].type.price \in Prices
         /\ nodes[id].type.price \in levels[nodes[id].side]
<1>1. TypeOK /\ IndexedRests /\ NodesAreIndexed /\ LevelsAreActive
  BY IInvParts DEF BookIndexed
<1>2. /\ index[id] # Null /\ index[id].kind = "book"
      /\ nodes[id].side = index[id].side
      /\ nodes[id].type.price = index[id].price
  BY <1>1 DEF NodesAreIndexed
<1>3. index[id] \in Addresses /\ nodes[id] \in Orders
  BY <1>1, <1>2 DEF TypeOK
<1> DEFINE s == index[id].side
           p == index[id].price
<1>4. s \in Sides /\ p \in Prices /\ index[id] = BookAddress(s, p)
  BY <1>2, <1>3, AddressCases
<1> HIDE DEF s, p
<1>5. PICK i \in 1 .. Len(queue[s][p]) : queue[s][p][i] = id
  BY <1>1, <1>4 DEF IndexedRests
<1>6. queue[s][p] # <<>>
  BY <1>5, EmptySeq
<1>7. p \in levels[s]
  BY <1>1, <1>4, <1>6 DEF LevelsAreActive
<1> QED
  BY <1>2, <1>3, <1>4, <1>7 DEF s, p

-------------------------------------------------------------------------------
(* What the operations do to the queues *)

\* Unlinking leaves every queue a subsequence of what it was, without the order
\* that went (LevelQueue::remove_key keeps its neighbours in order).
LEMMA UnlinkKeepsOrder ==
  ASSUME IInv, NEW side \in Sides, NEW price \in Prices, NEW id \in Ids,
         Unlink(side, price, id)
  PROVE  /\ nodes'[id] = Null /\ index'[id] = Null
         /\ \A other \in Ids : other # id => nodes'[other] = nodes[other]
                                             /\ index'[other] = index[other]
         /\ \A s \in Sides, p \in Prices :
              \E from \in [1 .. Len(queue'[s][p]) -> 1 .. Len(queue[s][p])] :
                \A i \in 1 .. Len(queue'[s][p]) :
                  /\ queue'[s][p][i] = queue[s][p][from[i]]
                  /\ queue'[s][p][i] # id
                  /\ \A j \in 1 .. i - 1 : from[j] < from[i]
<1> DEFINE q == queue[side][price]
<1>1. /\ queue \in [Sides -> [Prices -> Seq(Ids)]]
      /\ nodes \in [Ids -> Orders \union {Null}]
      /\ index \in [Ids -> Addresses \union {Null}]
      /\ RestingIsIndexed
  BY IInvParts DEF TypeOK, BookIndexed
<1>2. q \in Seq(Ids) /\ Len(q) \in Nat /\ DOMAIN q = 1 .. Len(q)
  BY <1>1, LenProperties
<1>3. PICK k \in 1 .. Len(q) :
        /\ q[k] = id
        /\ queue' = [queue EXCEPT ![side][price] = RemoveAt(@, k)]
        /\ nodes' = [nodes EXCEPT ![id] = Null]
        /\ index' = [index EXCEPT ![id] = Null]
  BY <1>2 DEF Unlink
<1> DEFINE r == RemoveAt(q, k)
<1>4. /\ Len(r) = Len(q) - 1
      /\ \A j \in 1 .. Len(q) - 1 : r[j] = IF j < k THEN q[j] ELSE q[j+1]
  BY <1>2, RemoveAtElements
<1>5. /\ queue'[side][price] = r
      /\ \A s \in Sides, p \in Prices :
           s # side \/ p # price => queue'[s][p] = queue[s][p]
  BY <1>1, <1>3
<1>6. /\ \A i, j \in 1 .. Len(q) : q[i] = q[j] => i = j
      /\ index[id] = BookAddress(side, price)
  BY <1>1, <1>3 DEF RestingIsIndexed
<1> HIDE DEF r
<1>7. ASSUME NEW s \in Sides, NEW p \in Prices
      PROVE  \E from \in [1 .. Len(queue'[s][p]) -> 1 .. Len(queue[s][p])] :
                \A i \in 1 .. Len(queue'[s][p]) :
                  /\ queue'[s][p][i] = queue[s][p][from[i]]
                  /\ queue'[s][p][i] # id
                  /\ \A j \in 1 .. i - 1 : from[j] < from[i]
  <2>1. CASE s = side /\ p = price
    <3> DEFINE from == [j \in 1 .. Len(r) |-> IF j < k THEN j ELSE j + 1]
    <3>1. from \in [1 .. Len(r) -> 1 .. Len(q)]
      BY <1>2, <1>4
    <3>2. ASSUME NEW i \in 1 .. Len(r)
          PROVE  r[i] = q[from[i]] /\ r[i] # id /\ \A j \in 1 .. i - 1 : from[j] < from[i]
      <4>1. r[i] = q[from[i]]
        BY <1>2, <1>4
      <4>2. from[i] \in 1 .. Len(q) /\ from[i] # k
        BY <1>2, <1>4
      <4>3. r[i] # id
        <5> HIDE DEF from, q
        <5> QED
          BY <4>1, <4>2, <1>3, <1>6
      <4>4. \A j \in 1 .. i - 1 : from[j] < from[i]
        BY <1>2, <1>4
      <4> QED
        BY <4>1, <4>3, <4>4
    <3> HIDE DEF from
    <3> QED
      BY SMTT(30), <3>1, <3>2, <2>1, <1>5
  <2>2. CASE s # side \/ p # price
    <3>1. queue'[s][p] = queue[s][p] /\ queue[s][p] \in Seq(Ids)
      BY <2>2, <1>1, <1>5
    <3>2. Len(queue[s][p]) \in Nat
      BY <3>1, LenProperties
    <3>3. BookAddress(s, p) # BookAddress(side, price)
      BY <2>2, AddressParts
    <3>4. \A i \in 1 .. Len(queue[s][p]) : queue[s][p][i] # id
      BY <3>3, <1>1, <1>6 DEF RestingIsIndexed
    <3> DEFINE from == [j \in 1 .. Len(queue[s][p]) |-> j]
    <3>5. /\ from \in [1 .. Len(queue[s][p]) -> 1 .. Len(queue[s][p])]
          /\ \A i \in 1 .. Len(queue[s][p]) :
               from[i] = i /\ \A j \in 1 .. i - 1 : from[j] < from[i]
      BY <3>2
    <3> HIDE DEF from
    <3> QED
      BY <3>1, <3>4, <3>5
  <2> QED
    BY <2>1, <2>2
<1>8. /\ nodes'[id] = Null /\ index'[id] = Null
      /\ \A other \in Ids : other # id => nodes'[other] = nodes[other]
                                          /\ index'[other] = index[other]
  BY <1>1, <1>3
<1> QED
  BY <1>7, <1>8

\* An allocation moves quantity and nothing else, and leaves the taker full or
\* the whole level empty (clause 4 of the policies' contract).
LEMMA AllocateEffect ==
  ASSUME IInv, Allocate
  PROVE  /\ \A id \in Ids :
              /\ nodes[id] = Null => nodes'[id] = Null
              /\ nodes[id] # Null => nodes'[id].arrival = nodes[id].arrival
              /\ id \notin filled' => nodes'[id] = nodes[id]
         /\ taker' \in Orders
         /\ taker'.id = taker.id /\ taker'.side = taker.side
         /\ taker'.type = taker.type /\ taker'.original = taker.original
         /\ \/ taker'.remaining = 0
            \/ \A i \in 1 .. Len(queue[Opposite(taker.side)][level]) :
                 nodes'[queue[Opposite(taker.side)][level][i]].remaining = 0
         /\ \/ trades' = trades
            \/ \E f : trades' = Append(trades, [price |-> level, fills |-> f])
<1> DEFINE side == Opposite(taker.side)
           ids == queue[side][level]
           makers == MakersAt(side, level)
<1>1. TypeOK /\ BookIndexed /\ RestingIsIndexed /\ InHand /\ AtLevel /\ pc = "stp"
  BY IInvParts DEF BookIndexed, Allocate
<1>2. taker \in Orders /\ side \in Sides /\ level \in Prices
  BY <1>1, HandAndLevel DEF Executing
<1>3. nodes \in [Ids -> Orders \union {Null}] /\ taker.remaining \in Nat
  BY <1>1, <1>2 DEF TypeOK, Orders
<1>4. ids \in Seq(Ids) /\ Len(ids) \in Nat /\ DOMAIN ids = 1 .. Len(ids)
  BY <1>1, <1>2, LenProperties DEF TypeOK
<1>5. \A i \in 1 .. Len(ids) :
        ids[i] \in Ids /\ nodes[ids[i]] \in Orders /\ nodes[ids[i]].remaining \in Nat
  BY <1>2, QueuedOrder DEF Orders
<1>6. \A i, j \in 1 .. Len(ids) : ids[i] = ids[j] => i = j
  BY <1>1, <1>2 DEF RestingIsIndexed
<1>7. DOMAIN makers = 1 .. Len(ids) /\ \A i \in 1 .. Len(ids) : makers[i].remaining = nodes[ids[i]].remaining
  BY <1>4 DEF MakersAt
<1> HIDE DEF makers
<1>8. PICK fills \in Allocations(taker.remaining, makers) :
        /\ filled' = {id \in Ids : ByOrder(fills, ids)[id] > 0}
        /\ nodes' = [id \in Ids |->
                       IF ByOrder(fills, ids)[id] > 0
                       THEN [nodes[id] EXCEPT !.remaining = @ - ByOrder(fills, ids)[id]]
                       ELSE nodes[id]]
        /\ taker' = [taker EXCEPT !.remaining = @ - Total(fills)]
        /\ trades' = IF \A id \in Ids : ByOrder(fills, ids)[id] = 0 THEN trades
                     ELSE Append(trades, [price |-> level, fills |-> ByOrder(fills, ids)])
  BY DEF Allocate, makers
<1> DEFINE given == ByOrder(fills, ids)
<1>9. /\ fills \in [1 .. Len(ids) -> 0 .. taker.remaining]
      /\ Total(fills) \in 0 .. taker.remaining
      /\ Total(fills) = taker.remaining \/ fills = Sizes(makers)
  BY <1>7 DEF Allocations, Contract
<1>10. \A id \in Ids :
        \/ given[id] = 0
        \/ \E i \in 1 .. Len(ids) : ids[i] = id /\ given[id] = fills[i]
  BY <1>4 DEF ByOrder
<1>11. \A i \in 1 .. Len(ids) : given[ids[i]] = fills[i]
  BY <1>4, <1>5, <1>6 DEF ByOrder
<1> HIDE DEF given, ids, side
<1>12. ASSUME NEW id \in Ids
       PROVE  /\ nodes[id] = Null => nodes'[id] = Null
              /\ nodes[id] # Null => nodes'[id].arrival = nodes[id].arrival
              /\ id \notin filled' => nodes'[id] = nodes[id]
  <2>1. CASE given[id] > 0
    <3>1. id \in filled' /\ nodes'[id] = [nodes[id] EXCEPT !.remaining = @ - given[id]]
      BY <2>1, <1>8 DEF given
    <3>2. nodes[id] \in Orders
      BY <2>1, <1>5, <1>10
    <3> QED
      BY <3>1, <3>2, NullAssumption DEF Orders
  <2>2. CASE ~(given[id] > 0)
    BY <2>2, <1>8 DEF given
  <2> QED
    BY <2>1, <2>2
<1>13. /\ taker' \in Orders
       /\ taker'.id = taker.id /\ taker'.side = taker.side
       /\ taker'.type = taker.type /\ taker'.original = taker.original
       /\ taker'.remaining = taker.remaining - Total(fills)
  <2>1. taker.remaining - Total(fills) \in Nat
    BY <1>3, <1>9
  <2> QED
    BY <2>1, <1>2, <1>8 DEF Orders
<1>14. \/ taker'.remaining = 0
       \/ \A i \in 1 .. Len(ids) : nodes'[ids[i]].remaining = 0
  <2>1. CASE Total(fills) = taker.remaining
    BY <2>1, <1>3, <1>13
  <2>2. CASE fills = Sizes(makers)
    <3> SUFFICES ASSUME NEW i \in 1 .. Len(ids)
                 PROVE  nodes'[ids[i]].remaining = 0
      OBVIOUS
    <3>1. given[ids[i]] = nodes[ids[i]].remaining
      BY <2>2, <1>7, <1>11 DEF Sizes
    <3>2. CASE given[ids[i]] > 0
      <4>1. nodes'[ids[i]] = [nodes[ids[i]] EXCEPT !.remaining = @ - given[ids[i]]]
        BY <3>2, <1>5, <1>8 DEF given
      <4> QED
        BY <3>1, <4>1, <1>5 DEF Orders
    <3>3. CASE ~(given[ids[i]] > 0)
      <4>1. nodes'[ids[i]] = nodes[ids[i]]
        BY <3>3, <1>5, <1>8 DEF given
      <4> QED
        BY <3>1, <3>3, <4>1, <1>5
    <3> QED
      BY <3>2, <3>3
  <2> QED
    BY <2>1, <2>2, <1>9
<1>15. \/ trades' = trades
       \/ \E f : trades' = Append(trades, [price |-> level, fills |-> f])
  BY <1>8
<1> QED
  BY <1>12, <1>13, <1>14, <1>15 DEF ids, side

\* An order comes to rest from the hands of a caller, or as the remainder of a sweep.
RestStep(order) ==
  /\ \/ pc = "idle" /\ pc' = "idle" /\ \E request \in Requests, id \in CallerIds : order = OrderOf(request, id)
     \/ pc = "settle" /\ pc' = "cascade" /\ order = taker /\ Rests(order)
  /\ Restable(order) /\ nextArrival < MaxArrival /\ Rest(order)

\* An order leaves the book: cancelled by its owner, by self-trade prevention,
\* or filled.
UnlinkStep ==
  /\ \E side \in Sides, price \in Prices, id \in Ids : Unlink(side, price, id)
  /\ nextArrival' = nextArrival
  /\ pc' = pc /\ filled' = filled /\ taker' = taker /\ level' = level
  /\ \A s \in Sides : levels'[s] \subseteq levels[s]
  /\ pc # "idle" => /\ levels' = levels
                    /\ pc \in {"stp", "unlink"}

\* Nothing that rests changes; levels change only when the sweep leaves one.
StillStep ==
  /\ UNCHANGED <<queue, nodes, nextArrival>>
  /\ \A s \in Sides : levels'[s] \subseteq levels[s]
  /\ LeaveLevel \/ levels' = levels

\* Every step of the engine is of one of four kinds, as far as resting orders go.
LEMMA StepKinds ==
  ASSUME IInv, [Next]_vars
  PROVE  \/ StillStep
         \/ UnlinkStep
         \/ \E order \in Orders : RestStep(order)
         \/ Allocate
<1>1. TypeOK /\ InHand /\ AtLevel
  BY IInvParts
<1>2. CASE UNCHANGED vars
  BY <1>2 DEF vars, StillStep
<1>3. ASSUME NEW request \in Requests, NEW id \in CallerIds, AddOrder(request, id)
      PROVE  StillStep \/ \E order \in Orders : RestStep(order)
  <2>1. OrderOf(request, id) \in Orders
    BY OrderOfType DEF Ids
  <2>2. CASE nextArrival < MaxArrival
    BY <2>1, <2>2, <1>3 DEF AddOrder, RestStep
  <2>3. CASE ~(nextArrival < MaxArrival)
    BY <2>3, <1>3 DEF AddOrder, StillStep, book
  <2> QED
    BY <2>2, <2>3
<1>4. ASSUME NEW id \in Ids, CancelResting(id)
      PROVE  UnlinkStep
  <2>1. index[id] \in Addresses
    BY <1>1, <1>4 DEF CancelResting, TypeOK
  <2>2. index[id].side \in Sides /\ index[id].price \in Prices
    BY <2>1, AddressCases
  <2>3. \A s \in Sides : levels'[s] \subseteq levels[s]
    BY <1>1, <1>4, <2>2 DEF CancelResting, TypeOK
  <2> QED
    BY <1>4, <2>2, <2>3 DEF CancelResting, UnlinkStep, counters
<1>5. ASSUME CancelOwn \/ UnlinkExhausted
      PROVE  UnlinkStep
  <2> DEFINE side == Opposite(taker.side)
  <2>1. pc \in {"stp", "unlink"}
    BY <1>5 DEF CancelOwn, UnlinkExhausted
  <2>2. side \in Sides /\ level \in Prices
    BY <1>1, <2>1, HandAndLevel DEF Executing
  <2>3. \E id \in Ids : Unlink(side, level, id)
    <3>1. CASE CancelOwn
      <4>1. PICK id \in OwnIds : Unlink(side, level, id)
        BY <3>1 DEF CancelOwn
      <4>2. queue[side][level] \in Seq(Ids)
        BY <1>1, <2>2 DEF TypeOK
      <4>3. id \in Ids
        <5>1. PICK i \in DOMAIN queue[side][level] : queue[side][level][i] = id
          BY <4>1 DEF Unlink
        <5> QED
          BY <4>2, <5>1, LenProperties, ElementOfSeq
      <4> QED
        BY <4>1, <4>3
    <3>2. CASE UnlinkExhausted
      BY <3>2, <1>1 DEF UnlinkExhausted, Exhausted, TypeOK
    <3> QED
      BY <1>5, <3>1, <3>2
  <2>4. /\ UNCHANGED <<levels, nextArrival, pc, taker, level, filled>>
    BY <1>5 DEF CancelOwn, UnlinkExhausted, counters
  <2> HIDE DEF side
  <2> QED
    BY <2>1, <2>2, <2>3, <2>4 DEF UnlinkStep
<1>6. ASSUME LeaveLevel
      PROVE  StillStep
  <2>1. Opposite(taker.side) \in Sides
    BY <1>1, <1>6, HandAndLevel DEF LeaveLevel, Executing
  <2>2. \A s \in Sides : levels'[s] \subseteq levels[s]
    BY <2>1, <1>1, <1>6 DEF LeaveLevel, TypeOK
  <2> QED
    BY <2>2, <1>6 DEF LeaveLevel, StillStep, counters
<1>7. ASSUME SettleByResting
      PROVE  \E order \in Orders : RestStep(order)
  <2>1. taker \in Orders
    BY <1>1, <1>7, HandAndLevel DEF SettleByResting, Executing
  <2> QED
    BY <2>1, <1>7 DEF SettleByResting, RestStep
<1>8. CASE \/ \E request \in Requests : Submit(request)
           \/ \E id \in Ids : CancelParked(id)
           \/ KillUnfillable \/ StartSweep \/ ActivateAtOnce \/ Park \/ ParkDuplicate
           \/ TakeLevel \/ EndSweep \/ SettleWithoutRest \/ SettleFails \/ SettlePanics
           \/ \E side \in Sides : FireStop(side)
           \/ EndCascade
  BY <1>8 DEF Submit, CancelParked, KillUnfillable, StartSweep, ActivateAtOnce, Park,
       ParkDuplicate, TakeLevel, EndSweep, SettleWithoutRest, SettleFails, SettlePanics,
       FireStop, EndCascade, StillStep, book, counters
<1> QED
  BY <1>2, <1>3, <1>4, <1>5, <1>6, <1>7, <1>8 DEF Next, Command, Execution, AwaitCommand

-------------------------------------------------------------------------------
(* Time priority: queues stay in order of arrival *)

\* Coming to rest at the back, with the newest stamp, keeps every queue in order.
LEMMA RestKeepsArrival ==
  ASSUME IInv, ArrivalOrder, NEW order \in Orders,
         Restable(order), nextArrival < MaxArrival, Rest(order)
  PROVE  ArrivalOrder'
<1> DEFINE side == order.side
           price == order.type.price
           id == order.id
           q == queue[side][price]
           stamped == [order EXCEPT !.arrival = nextArrival]
<1>1. /\ queue \in [Sides -> [Prices -> Seq(Ids)]]
      /\ nodes \in [Ids -> Orders \union {Null}]
      /\ nextArrival \in Nat
  BY IInvParts, OrderBookAssumption DEF TypeOK
<1>2. /\ id \in Ids /\ side \in Sides /\ price \in Prices /\ index[id] = Null
  BY OrderTypeParts DEF Restable, Orders
<1>3. stamped.arrival = nextArrival
  BY DEF Orders
<1>4. q \in Seq(Ids) /\ Len(q) \in Nat
  BY <1>1, <1>2, LenProperties
<1>5. /\ Len(Append(q, id)) = Len(q) + 1
      /\ \A j \in 1 .. Len(q) : Append(q, id)[j] = q[j]
      /\ Append(q, id)[Len(q) + 1] = id
  <2> HIDE DEF q, id
  <2> QED
    BY <1>2, <1>4, AppendProperties
<1>6. /\ queue' = [queue EXCEPT ![side][price] = Append(q, id)]
      /\ nodes' = [nodes EXCEPT ![id] = stamped]
      /\ nextArrival' = nextArrival + 1
  BY DEF Rest
<1> HIDE DEF stamped, id, side, price
<1>7. /\ nodes'[id] = stamped
      /\ \A other \in Ids : other # id => nodes'[other] = nodes[other]
  BY <1>1, <1>2, <1>6
<1>8. ASSUME NEW s \in Sides, NEW p \in Prices, NEW i \in 1 .. Len(queue[s][p])
      PROVE  /\ nodes'[queue[s][p][i]] = nodes[queue[s][p][i]]
             /\ nodes[queue[s][p][i]].arrival \in Nat
             /\ nodes[queue[s][p][i]].arrival < nextArrival
  <2>1. /\ queue[s][p][i] \in Ids /\ index[queue[s][p][i]] = BookAddress(s, p)
        /\ nodes[queue[s][p][i]] \in Orders
    BY QueuedOrder
  <2>2. queue[s][p][i] # id
    BY <2>1, <1>2, AddressParts
  <2> QED
    BY <2>1, <2>2, <1>7 DEF ArrivalOrder, Orders
<1>9. ASSUME NEW s \in Sides, NEW p \in Prices, NEW i \in 1 .. Len(queue'[s][p])
      PROVE  /\ nodes'[queue'[s][p][i]].arrival < nextArrival'
             /\ \A j \in 1 .. i - 1 :
                  nodes'[queue'[s][p][j]].arrival < nodes'[queue'[s][p][i]].arrival
  <2>1. CASE s = side /\ p = price
    <3>1. queue'[s][p] = Append(q, id)
      BY <2>1, <1>1, <1>2, <1>6
    <3>2. q = queue[s][p]
      BY <2>1
    <3> HIDE DEF q
    <3>3. CASE i \in 1 .. Len(q)
      <4>1. \A j \in 1 .. i : j \in 1 .. Len(q) /\ queue'[s][p][j] = queue[s][p][j]
        BY <3>1, <3>2, <3>3, <1>4, <1>5
      <4>2. \A j \in 1 .. i - 1 : nodes[queue[s][p][j]].arrival < nodes[queue[s][p][i]].arrival
        BY <3>2, <3>3 DEF ArrivalOrder
      <4>3. i \in 1 .. i /\ \A j \in 1 .. i - 1 : j \in 1 .. i
        BY <3>3, <1>4
      <4> QED
        BY <4>1, <4>2, <4>3, <3>2, <1>1, <1>6, <1>8
    <3>4. CASE i = Len(q) + 1
      <4>1. queue'[s][p][i] = id /\ nodes'[queue'[s][p][i]].arrival = nextArrival
        BY <3>1, <3>4, <1>3, <1>5, <1>7
      <4>2. \A j \in 1 .. i - 1 : j \in 1 .. Len(queue[s][p]) /\ queue'[s][p][j] = queue[s][p][j]
        BY <3>1, <3>2, <3>4, <1>4, <1>5
      <4> QED
        BY <4>1, <4>2, <1>1, <1>6, <1>8
    <3> QED
      BY <3>1, <3>3, <3>4, <1>4, <1>5
  <2>2. CASE s # side \/ p # price
    <3>1. queue'[s][p] = queue[s][p]
      BY <2>2, <1>1, <1>2, <1>6
    <3>2. queue[s][p] \in Seq(Ids) /\ Len(queue[s][p]) \in Nat
      BY <1>1, LenProperties
    <3>3. \A j \in 1 .. i - 1 : j \in 1 .. Len(queue[s][p])
      BY <3>1, <3>2
    <3> QED
      BY <3>1, <3>3, <1>1, <1>6, <1>8 DEF ArrivalOrder
  <2> QED
    BY <2>1, <2>2
<1> QED
  BY <1>9 DEF ArrivalOrder

\* Every step keeps every queue in order of arrival.
LEMMA NextKeepsArrival == IInv /\ ArrivalOrder /\ [Next]_vars => ArrivalOrder'
<1> SUFFICES ASSUME IInv, ArrivalOrder, [Next]_vars
             PROVE  ArrivalOrder'
  OBVIOUS
<1>1. CASE StillStep
  BY <1>1 DEF StillStep, ArrivalOrder
<1>2. CASE UnlinkStep
  <2>1. PICK side \in Sides, price \in Prices, id \in Ids : Unlink(side, price, id)
    BY <1>2 DEF UnlinkStep
  <2> SUFFICES ASSUME NEW s \in Sides, NEW p \in Prices, NEW i \in 1 .. Len(queue'[s][p])
               PROVE  /\ nodes'[queue'[s][p][i]].arrival < nextArrival'
                      /\ \A j \in 1 .. i - 1 :
                           nodes'[queue'[s][p][j]].arrival < nodes'[queue'[s][p][i]].arrival
    BY DEF ArrivalOrder
  <2>2. PICK from \in [1 .. Len(queue'[s][p]) -> 1 .. Len(queue[s][p])] :
               \A k \in 1 .. Len(queue'[s][p]) :
                  /\ queue'[s][p][k] = queue[s][p][from[k]]
                  /\ queue'[s][p][k] # id
                  /\ \A j \in 1 .. k - 1 : from[j] < from[k]
    BY <2>1, UnlinkKeepsOrder
  <2>3. \A k \in 1 .. Len(queue'[s][p]) :
          /\ from[k] \in 1 .. Len(queue[s][p])
          /\ nodes'[queue'[s][p][k]] = nodes[queue[s][p][from[k]]]
    <3> SUFFICES ASSUME NEW k \in 1 .. Len(queue'[s][p])
                 PROVE  /\ from[k] \in 1 .. Len(queue[s][p])
                        /\ nodes'[queue'[s][p][k]] = nodes[queue[s][p][from[k]]]
      OBVIOUS
    <3>1. from[k] \in 1 .. Len(queue[s][p]) /\ queue[s][p][from[k]] \in Ids
      BY <2>2, QueuedOrder
    <3> QED
      BY <3>1, <2>1, <2>2, UnlinkKeepsOrder
  <2>4. ASSUME NEW j \in 1 .. i - 1
        PROVE  j \in 1 .. Len(queue'[s][p]) /\ from[j] \in 1 .. from[i] - 1
    <3>1. j \in 1 .. Len(queue'[s][p])
      OBVIOUS
    <3>2. from[j] < from[i]
      BY <2>2
    <3>3. from[j] \in 1 .. Len(queue[s][p]) /\ from[i] \in 1 .. Len(queue[s][p])
      BY <2>3, <3>1
    <3> QED
      BY <3>1, <3>2, <3>3
  <2>5. nextArrival' = nextArrival
    BY <1>2 DEF UnlinkStep
  <2> QED
    BY <2>3, <2>4, <2>5 DEF ArrivalOrder
<1>3. ASSUME NEW order \in Orders, RestStep(order)
      PROVE  ArrivalOrder'
  BY <1>3, RestKeepsArrival DEF RestStep
<1>4. CASE Allocate
  <2>1. queue' = queue /\ nextArrival' = nextArrival
    BY <1>4 DEF Allocate, counters
  <2>2. \A s \in Sides, p \in Prices : \A i \in 1 .. Len(queue[s][p]) :
          nodes'[queue[s][p][i]].arrival = nodes[queue[s][p][i]].arrival
    <3> SUFFICES ASSUME NEW s \in Sides, NEW p \in Prices, NEW i \in 1 .. Len(queue[s][p])
                 PROVE  nodes'[queue[s][p][i]].arrival = nodes[queue[s][p][i]].arrival
      OBVIOUS
    <3>1. queue[s][p][i] \in Ids /\ nodes[queue[s][p][i]] # Null
      BY QueuedOrder, NullAssumption
    <3> QED
      BY <3>1, <1>4, AllocateEffect
  <2>3. \A s \in Sides, p \in Prices : \A i \in 1 .. Len(queue[s][p]) :
          \A j \in 1 .. i - 1 : j \in 1 .. Len(queue[s][p])
    BY IInvParts, LenProperties DEF TypeOK
  <2> QED
    BY <2>1, <2>2, <2>3 DEF ArrivalOrder
<1> QED
  BY <1>1, <1>2, <1>3, <1>4, StepKinds

\* Every queue is in order of arrival at every step: what collect_makers promises
\* the policies (allocation.rs:56-58), through any mix of rests, fills, self-trade
\* cancellations, caller cancellations and activated stops.
THEOREM QueuesStayInOrder == Spec => []ArrivalOrder
<1>1. Init => ArrivalOrder
  <2> SUFFICES ASSUME Init, NEW s \in Sides, NEW p \in Prices
               PROVE  1 .. Len(queue[s][p]) = {}
    BY DEF ArrivalOrder
  <2>1. queue[s][p] = <<>>
    BY DEF Init
  <2> QED
    BY <2>1, EmptySeq
<1>2. IInv /\ ArrivalOrder /\ [Next]_vars => ArrivalOrder'
  BY NextKeepsArrival
<1> QED
  BY <1>1, <1>2, Inductive, PTL DEF Spec

-------------------------------------------------------------------------------
(* Price priority: a sweep trades at the touch *)

\* The level under sweep is the touch of its side, within the taker's limit.  The
\* level stays the touch through the cancellations and unlinks of match_level
\* because nothing comes to rest while a sweep is under way.
AtTouch ==
  pc \in {"stp", "unlink"} =>
    /\ Crosses(taker, level)
    /\ \A p \in levels[Opposite(taker.side)] :
         p = level \/ Better(Opposite(taker.side), level, p)

\* The touch is at least as good as every level of its side.
LEMMA BestIsFirst ==
  ASSUME TypeOK, NEW side \in Sides, NEW p \in levels[side]
  PROVE  p = Best(side) \/ Better(side, Best(side), p)
<1>1. levels[side] \in SUBSET Prices /\ levels[side] # {}
  BY DEF TypeOK
<1> QED
  BY <1>1, BestExists DEF Best

\* Every step keeps the level under sweep at the touch.
LEMMA NextKeepsTouch == IInv /\ AtTouch /\ [Next]_vars => AtTouch'
<1> SUFFICES ASSUME IInv, AtTouch, [Next]_vars, pc' \in {"stp", "unlink"}
             PROVE  /\ Crosses(taker', level')
                    /\ \A p \in levels'[Opposite(taker'.side)] :
                         p = level' \/ Better(Opposite(taker'.side), level', p)
  BY DEF AtTouch, Crosses, Opposite, Better, LimitPrice
<1>1. TypeOK /\ InHand /\ AtLevel
  BY IInvParts
<1>2. CASE TakeLevel
  <2>1. Opposite(taker.side) \in Sides
    BY <1>1, <1>2, HandAndLevel DEF TakeLevel, Executing
  <2>2. /\ levels' = levels /\ taker' = taker
        /\ level' = Best(Opposite(taker.side)) /\ Crosses(taker, level')
    BY <1>2 DEF TakeLevel, book
  <2> QED
    BY <2>1, <2>2, <1>1, BestIsFirst
<1>3. CASE CancelOwn \/ UnlinkExhausted \/ UNCHANGED vars
  BY <1>3 DEF CancelOwn, UnlinkExhausted, AtTouch, vars
<1>4. CASE Allocate
  <2>1. levels' = levels /\ level' = level /\ pc = "stp"
    BY <1>4 DEF Allocate
  <2>2. taker'.side = taker.side /\ taker'.type = taker.type
    BY <1>4, AllocateEffect
  <2> QED
    BY <2>1, <2>2 DEF AtTouch, Crosses
<1>5. CASE \/ \E request \in Requests : Submit(request)
           \/ \E request \in Requests, id \in CallerIds : AddOrder(request, id)
           \/ \E id \in Ids : CancelResting(id) \/ CancelParked(id)
           \/ KillUnfillable \/ StartSweep \/ ActivateAtOnce \/ Park \/ ParkDuplicate
           \/ EndSweep \/ LeaveLevel \/ SettleWithoutRest \/ SettleByResting \/ SettleFails
           \/ SettlePanics \/ EndCascade
           \/ \E side \in Sides : FireStop(side)
  <2>1. pc' \notin {"stp", "unlink"}
    BY <1>5 DEF Submit, AddOrder, CancelResting, CancelParked, KillUnfillable, StartSweep,
         ActivateAtOnce, Park, ParkDuplicate, EndSweep, LeaveLevel, SettleWithoutRest,
         SettleByResting, SettleFails, SettlePanics, EndCascade, FireStop, GoIdle
  <2> QED
    BY <2>1
<1> QED
  BY <1>2, <1>3, <1>4, <1>5 DEF Next, Command, Execution, AwaitCommand

\* Only an allocation adds a print, and it prints the level under sweep.
LEMMA PrintsAtLevel ==
  ASSUME IInv, [Next]_vars, Len(trades') > Len(trades)
  PROVE  pc = "stp" /\ Last(trades').price = level
<1>1. trades \in Seq(Prints) /\ Len(trades) \in Nat
  BY IInvParts, LenProperties DEF TypeOK
<1>2. trades' # trades /\ trades' # <<>>
  BY <1>1, EmptySeq
<1>3. Allocate
  BY <1>2 DEF Next, Command, Execution, AwaitCommand, vars, Submit, AddOrder, CancelResting,
       CancelParked, KillUnfillable, StartSweep, ActivateAtOnce, Park, ParkDuplicate,
       TakeLevel, EndSweep, CancelOwn, UnlinkExhausted, LeaveLevel, SettleWithoutRest,
       SettleByResting, SettleFails, SettlePanics, FireStop, EndCascade, GoIdle
<1>4. PICK f : trades' = Append(trades, [price |-> level, fills |-> f])
  BY <1>2, <1>3, AllocateEffect
<1> DEFINE S == Prints \union {[price |-> level, fills |-> f]}
<1>5. trades \in Seq(S) /\ [price |-> level, fills |-> f] \in S
  <2>1. \A i \in 1 .. Len(trades) : trades[i] \in S
    BY <1>1, ElementOfSeq
  <2> HIDE DEF S
  <2>2. trades \in Seq(S)
    BY <1>1, <2>1, IsASeq, LenProperties
  <2> QED
    BY <2>2 DEF S
<1> HIDE DEF S
<1>6. Len(trades') = Len(trades) + 1 /\ trades'[Len(trades) + 1] = [price |-> level, fills |-> f]
  BY <1>4, <1>5, AppendProperties
<1>7. Last(trades') = [price |-> level, fills |-> f]
  BY <1>6 DEF Last
<1> QED
  BY <1>3, <1>7 DEF Allocate

\* A print is within the taker's limit and at the best price of any order resting
\* on the other side, whatever policy apportions it (matching.rs:440-456).
THEOREM PrintsHavePriority == Spec => PricePriority
<1>1. Init => AtTouch
  BY DEF Init, AtTouch
<1>2. IInv /\ AtTouch /\ [Next]_vars => AtTouch'
  BY NextKeepsTouch
<1>3. IInv /\ AtTouch /\ [Next]_vars =>
        [Len(trades') > Len(trades) =>
           LET print == Last(trades')
               side == Opposite(taker.side)
           IN  /\ Crosses(taker, print.price)
               /\ \A id \in Ids : nodes[id] # Null /\ nodes[id].side = side
                    => ~Better(side, nodes[id].type.price, print.price)]_vars
  <2> SUFFICES ASSUME IInv, AtTouch, [Next]_vars, Len(trades') > Len(trades)
               PROVE  /\ Crosses(taker, Last(trades').price)
                      /\ \A id \in Ids : nodes[id] # Null /\ nodes[id].side = Opposite(taker.side)
                           => ~Better(Opposite(taker.side), nodes[id].type.price, Last(trades').price)
    OBVIOUS
  <2>1. pc = "stp" /\ Last(trades').price = level
    BY PrintsAtLevel
  <2>2. TypeOK /\ InHand /\ AtLevel
    BY IInvParts
  <2>3. Opposite(taker.side) \in Sides /\ level \in Prices
    BY <2>1, <2>2, HandAndLevel DEF Executing
  <2>4. ASSUME NEW id \in Ids, nodes[id] # Null, nodes[id].side = Opposite(taker.side)
        PROVE  ~Better(Opposite(taker.side), nodes[id].type.price, level)
    <3>1. /\ nodes[id].type.price \in Prices
          /\ nodes[id].type.price \in levels[Opposite(taker.side)]
      BY <2>4, RestingAtLevel
    <3>2. \/ nodes[id].type.price = level
          \/ Better(Opposite(taker.side), level, nodes[id].type.price)
      BY <2>1, <3>1 DEF AtTouch
    <3>3. nodes[id].type.price \in Nat /\ level \in Nat
      BY <2>3, <3>1, PricesAssumption
    <3> QED
      BY <3>2, <3>3 DEF Better
  <2> QED
    BY <2>1, <2>4 DEF AtTouch
<1> QED
  BY <1>1, <1>2, <1>3, Inductive, PTL DEF Spec, PricePriority

-------------------------------------------------------------------------------
(* A sweep leaves nothing it could have traded with *)

\* Callers seed the book with orders that have something left to fill; add_order
\* does not check it, and the runs show what a spent order does to a sweep.
NoSpentSeeds == CallerIds # {} => \A request \in Requests : request.remaining # 0

\* Whatever rests is open, but for what the allocation under way has exhausted.
OpenMakers ==
  \A id \in Ids : nodes[id] # Null /\ nodes[id].remaining = 0 => pc = "unlink" /\ id \in filled

\* Once its level is apportioned, the taker is full or every order left is exhausted.
LevelSpent ==
  pc = "unlink" =>
    \/ taker.remaining = 0
    \/ \A i \in 1 .. Len(queue[Opposite(taker.side)][level]) :
         nodes[queue[Opposite(taker.side)][level][i]].remaining = 0

\* What carries RemainderHasNoCounterparty through a sweep: the level survives
\* only if the taker is full, because everything at rest there was open.
SweepInv == OpenMakers /\ LevelSpent /\ RemainderHasNoCounterparty

\* Every step keeps the orders at rest open.
LEMMA NextKeepsOpen ==
  ASSUME NoSpentSeeds, IInv, OpenMakers, [Next]_vars
  PROVE  OpenMakers'
<1> SUFFICES ASSUME NEW id \in Ids, nodes'[id] # Null, nodes'[id].remaining = 0
             PROVE  pc' = "unlink" /\ id \in filled'
  BY DEF OpenMakers
<1>1. nodes \in [Ids -> Orders \union {Null}]
  BY IInvParts DEF TypeOK
<1>2. CASE StillStep
  <2>1. nodes' = nodes
    BY <1>2 DEF StillStep
  <2>2. pc = "unlink" /\ id \in Exhausted
    BY <2>1 DEF OpenMakers, Exhausted
  <2>3. pc' = pc /\ filled' = filled
    BY <1>2, <2>1, <2>2 DEF Next, Command, Execution, AwaitCommand, Submit, AddOrder,
       CancelResting, CancelParked, KillUnfillable, StartSweep, ActivateAtOnce, Park,
       ParkDuplicate, TakeLevel, EndSweep, CancelOwn, Allocate, UnlinkExhausted, LeaveLevel,
       SettleWithoutRest, SettleByResting, SettleFails, SettlePanics, FireStop, EndCascade, vars
  <2> QED
    BY <2>2, <2>3 DEF Exhausted
<1>3. CASE UnlinkStep
  <2>1. PICK side \in Sides, price \in Prices, gone \in Ids : Unlink(side, price, gone)
    BY <1>3 DEF UnlinkStep
  <2>2. id # gone /\ nodes'[id] = nodes[id]
    BY <2>1, UnlinkKeepsOrder
  <2> QED
    BY <2>2, <1>3 DEF UnlinkStep, OpenMakers
<1>4. ASSUME NEW order \in Orders, RestStep(order)
      PROVE  pc' = "unlink" /\ id \in filled'
  <2>1. order.id \in Ids /\ nodes' = [nodes EXCEPT ![order.id] = [order EXCEPT !.arrival = nextArrival]]
    BY <1>4 DEF RestStep, Rest, Orders
  <2>2. order.remaining # 0
    BY <1>4 DEF RestStep, NoSpentSeeds, OrderOf, Rests
  <2>3. nodes'[order.id].remaining # 0
    BY <2>1, <2>2, <1>1 DEF Orders
  <2>4. id # order.id /\ nodes'[id] = nodes[id]
    BY <2>1, <2>3, <1>1
  <2>5. pc = "unlink"
    BY <2>4 DEF OpenMakers
  <2> QED
    BY <2>5, <1>4 DEF RestStep
<1>5. CASE Allocate
  <2>1. pc = "stp" /\ pc' = "unlink"
    BY <1>5 DEF Allocate
  <2>2. CASE id \in filled'
    BY <2>1, <2>2
  <2>3. CASE id \notin filled'
    <3>1. nodes'[id] = nodes[id]
      BY <2>3, <1>5, AllocateEffect
    <3> QED
      BY <3>1, <2>1 DEF OpenMakers
  <2> QED
    BY <2>2, <2>3
<1> QED
  BY <1>2, <1>3, <1>4, <1>5, StepKinds

\* Every step keeps the level's fate: apportioned in full, or the taker is full.
LEMMA NextKeepsSpent ==
  ASSUME IInv, LevelSpent, [Next]_vars
  PROVE  LevelSpent'
<1> SUFFICES ASSUME pc' = "unlink"
             PROVE  \/ taker'.remaining = 0
                    \/ \A i \in 1 .. Len(queue'[Opposite(taker'.side)][level']) :
                         nodes'[queue'[Opposite(taker'.side)][level'][i]].remaining = 0
  BY DEF LevelSpent, Opposite
<1>1. CASE Allocate
  <2>1. queue' = queue /\ level' = level
    BY <1>1 DEF Allocate
  <2>2. /\ taker'.side = taker.side
        /\ \/ taker'.remaining = 0
           \/ \A i \in 1 .. Len(queue[Opposite(taker.side)][level]) :
                nodes'[queue[Opposite(taker.side)][level][i]].remaining = 0
    BY <1>1, AllocateEffect
  <2> QED
    BY <2>1, <2>2
<1>2. CASE UnlinkExhausted
  <2>1. TypeOK /\ InHand /\ AtLevel /\ pc = "unlink"
    BY <1>2, IInvParts DEF UnlinkExhausted
  <2>2. taker' = taker /\ level' = level
    BY <1>2 DEF UnlinkExhausted
  <2> DEFINE side == Opposite(taker.side)
  <2>3. side \in Sides /\ level \in Prices
    BY <2>1, HandAndLevel DEF Executing
  <2>4. PICK gone \in Ids : Unlink(side, level, gone)
    BY <1>2, <2>1 DEF UnlinkExhausted, Exhausted, TypeOK
  <2>5. PICK from \in [1 .. Len(queue'[side][level]) -> 1 .. Len(queue[side][level])] :
          \A i \in 1 .. Len(queue'[side][level]) :
            queue'[side][level][i] = queue[side][level][from[i]] /\ queue'[side][level][i] # gone
    <3> HIDE DEF side
    <3> QED
      BY <2>3, <2>4, UnlinkKeepsOrder
  <2>6. ASSUME NEW i \in 1 .. Len(queue'[side][level]), taker.remaining # 0
        PROVE  nodes'[queue'[side][level][i]].remaining = 0
    <3>1. from[i] \in 1 .. Len(queue[side][level]) /\ queue[side][level][from[i]] \in Ids
      BY <2>3, <2>5, QueuedOrder
    <3>2. nodes[queue[side][level][from[i]]].remaining = 0
      BY <3>1, <2>1, <2>6 DEF LevelSpent
    <3>3. nodes'[queue'[side][level][i]] = nodes[queue[side][level][from[i]]]
      <4> HIDE DEF side
      <4> QED
        BY <3>1, <2>3, <2>4, <2>5, UnlinkKeepsOrder
    <3> QED
      BY <3>2, <3>3
  <2> QED
    BY <2>2, <2>6
<1>3. CASE UNCHANGED vars
  BY <1>3 DEF vars, LevelSpent
<1>4. CASE ~(Allocate \/ UnlinkExhausted \/ UNCHANGED vars)
  <2>1. pc' # "unlink"
    BY <1>4 DEF Next, Command, Execution, AwaitCommand, Submit, AddOrder, CancelResting,
       CancelParked, KillUnfillable, StartSweep, ActivateAtOnce, Park, ParkDuplicate,
       TakeLevel, EndSweep, CancelOwn, LeaveLevel, SettleWithoutRest,
       SettleByResting, SettleFails, SettlePanics, FireStop, EndCascade, GoIdle
  <2> QED
    BY <2>1
<1> QED
  BY <1>1, <1>2, <1>3, <1>4

\* A taker within whose limit the touch does not lie trades with no level at all.
LEMMA TouchDecides ==
  ASSUME TypeOK, taker \in Orders, NEW side, side = Opposite(taker.side),
         levels[side] # {}, ~Crosses(taker, Best(side))
  PROVE  \A price \in levels[side] : ~Crosses(taker, price)
<1> SUFFICES ASSUME NEW price \in levels[side]
             PROVE  ~Crosses(taker, price)
  OBVIOUS
<1>1. taker.side \in Sides /\ side \in Sides
  BY OppositeSide DEF Orders
<1>2. levels[side] \in SUBSET Prices /\ Best(side) \in levels[side]
  BY <1>1, BestIsLevel DEF TypeOK
<1>3. Best(side) \in Nat /\ price \in Nat
  BY <1>2, PricesAssumption
<1>4. LimitPrice(taker.type) # Null /\ LimitPrice(taker.type) \in Nat
  <2>1. LimitPrice(taker.type) # Null
    BY DEF Crosses
  <2>2. LimitPrice(taker.type) \in Prices
    BY <2>1 DEF LimitPrice, Orders, OrderTypes, LimitTypes, MarketTypes, StopTypes,
                StopMarketTypes, StopLimitTypes
  <2> QED
    BY <2>1, <2>2, PricesAssumption
<1>5. price = Best(side) \/ Better(side, Best(side), price)
  BY <1>1, BestIsFirst
<1> QED
  BY <1>1, <1>3, <1>4, <1>5 DEF Crosses, Better, Opposite, Sides

\* Every step keeps the promise of a finished sweep.
LEMMA NextKeepsRemainder ==
  ASSUME IInv, OpenMakers, LevelSpent, RemainderHasNoCounterparty, [Next]_vars
  PROVE  RemainderHasNoCounterparty'
<1> SUFFICES ASSUME pc' = "settle", taker'.remaining # 0
             PROVE  \A price \in levels'[Opposite(taker'.side)] : ~Crosses(taker', price)
  BY DEF RemainderHasNoCounterparty, Opposite, Crosses, LimitPrice
<1>1. TypeOK /\ InHand /\ AtLevel
  BY IInvParts
<1>2. CASE EndSweep
  <2>1. pc = "sweep" /\ levels' = levels /\ taker' = taker
    BY <1>2 DEF EndSweep, book
  <2>2. taker \in Orders
    BY <2>1, <1>1, HandAndLevel DEF Executing
  <2> QED
    BY <2>1, <2>2, <1>1, <1>2, TouchDecides DEF EndSweep
<1>3. CASE LeaveLevel
  <2> DEFINE side == Opposite(taker.side)
  <2>1. /\ pc = "unlink" /\ Exhausted = {} /\ taker' = taker
        /\ queue[side][level] # <<>>
    BY <1>3 DEF LeaveLevel
  <2>2. side \in Sides /\ level \in Prices
    BY <2>1, <1>1, HandAndLevel DEF Executing
  <2>3. 1 \in 1 .. Len(queue[side][level])
    <3>1. queue[side][level] \in Seq(Ids)
      BY <2>2, <1>1 DEF TypeOK
    <3> HIDE DEF side
    <3> QED
      BY <3>1, <2>1, EmptySeq
  <2> DEFINE head == queue[side][level][1]
  <2>4. head \in Ids /\ nodes[head] \in Orders
    <3> HIDE DEF side
    <3> QED
      BY <2>2, <2>3, QueuedOrder
  <2>5. nodes[head].remaining = 0
    BY <2>1, <2>3 DEF LevelSpent
  <2> HIDE DEF head
  <2>6. head \in Exhausted
    BY <2>4, <2>5, NullAssumption DEF OpenMakers, Exhausted
  <2> QED
    BY <2>1, <2>6
<1>4. CASE UNCHANGED vars
  BY <1>4 DEF vars, RemainderHasNoCounterparty
<1>5. CASE ~(EndSweep \/ LeaveLevel \/ UNCHANGED vars)
  <2>1. pc' # "settle"
    BY <1>5 DEF Next, Command, Execution, AwaitCommand, Submit, AddOrder, CancelResting,
       CancelParked, KillUnfillable, StartSweep, ActivateAtOnce, Park, ParkDuplicate,
       TakeLevel, CancelOwn, Allocate, UnlinkExhausted, SettleWithoutRest,
       SettleByResting, SettleFails, SettlePanics, FireStop, EndCascade, GoIdle
  <2> QED
    BY <2>1
<1> QED
  BY <1>2, <1>3, <1>4, <1>5

\* The inductive invariant of a sweep holds throughout.
THEOREM SweepsAreThorough == ASSUME NoSpentSeeds PROVE Spec => []SweepInv
<1>1. Init => SweepInv
  BY DEF Init, SweepInv, OpenMakers, LevelSpent, RemainderHasNoCounterparty
<1>2. IInv /\ SweepInv /\ [Next]_vars => SweepInv'
  BY NextKeepsOpen, NextKeepsSpent, NextKeepsRemainder DEF SweepInv
<1> QED
  BY <1>1, <1>2, Inductive, PTL DEF Spec

\* At the end of a sweep a remainder has no counterparty left: a level survives
\* only if the taker is full (the assertion of matching.rs:531-534), for every
\* contract-abiding policy, if no caller seeds the book with a spent order.
THEOREM NothingLeftToTrade == ASSUME NoSpentSeeds PROVE Spec => []RemainderHasNoCounterparty
<1>1. SweepInv => RemainderHasNoCounterparty
  BY DEF SweepInv
<1> QED
  BY <1>1, SweepsAreThorough, PTL

-------------------------------------------------------------------------------
(* The book never sits crossed *)

\* A book built by submit alone is uncrossed at every step, also between two
\* levels of a sweep: what rests is a remainder, and a remainder has no counterparty.
THEOREM BookNeverCrossed == ASSUME CallerIds = {} PROVE Spec => []NeverCrossed
<1>1. Init => NeverCrossed
  BY DEF Init, NeverCrossed, Sides
<1>2. IInv /\ SweepInv /\ NeverCrossed /\ [Next]_vars => NeverCrossed'
  <2> SUFFICES ASSUME IInv, SweepInv, NeverCrossed, [Next]_vars
               PROVE  NeverCrossed'
    OBVIOUS
  <2>1. TypeOK
    BY IInvParts
  <2>2. ASSUME \A s \in Sides : levels'[s] \subseteq levels[s]
        PROVE  NeverCrossed'
    BY <2>2 DEF NeverCrossed, Sides
  <2>3. ASSUME NEW order \in Orders, RestStep(order)
        PROVE  NeverCrossed'
    <3>1. /\ pc = "settle" /\ order = taker /\ taker.remaining # 0
          /\ taker.type.kind = "limit" /\ Rest(taker)
      BY <2>3 DEF RestStep, Rests
    <3>2. \A price \in levels[Opposite(taker.side)] : ~Crosses(taker, price)
      BY <3>1 DEF SweepInv, RemainderHasNoCounterparty
    <3>3. taker.side \in Sides /\ taker.type.price \in Prices
      BY <3>1, OrderTypeParts DEF Orders
    <3>4. LimitPrice(taker.type) = taker.type.price /\ taker.type.price # Null
      BY <3>1, <3>3, NullAssumption DEF LimitPrice
    <3>5. levels' = [levels EXCEPT ![taker.side] = @ \union {taker.type.price}]
      BY <3>1 DEF Rest
    <3>6. levels \in [Sides -> SUBSET Prices]
      BY <2>1 DEF TypeOK
    <3>7. ASSUME NEW bid \in levels'["bid"], NEW ask \in levels'["ask"]
          PROVE  bid < ask
      <4>1. "bid" \in Sides /\ "ask" \in Sides
        BY DEF Sides
      <4>2. CASE taker.side = "bid"
        <5>1. ask \in levels["ask"] /\ (bid \in levels["bid"] \/ bid = taker.type.price)
          BY <4>1, <4>2, <3>5, <3>6
        <5>2. ~(ask <= taker.type.price)
          BY <5>1, <4>2, <3>2, <3>4 DEF Crosses, Opposite
        <5>3. ask \in Nat /\ taker.type.price \in Nat
          BY <5>1, <4>1, <3>3, <3>6, PricesAssumption
        <5> QED
          BY <5>1, <5>2, <5>3 DEF NeverCrossed
      <4>3. CASE taker.side = "ask"
        <5>1. bid \in levels["bid"] /\ (ask \in levels["ask"] \/ ask = taker.type.price)
          BY <4>1, <4>3, <3>5, <3>6
        <5>2. ~(bid >= taker.type.price)
          BY <5>1, <4>3, <3>2, <3>4 DEF Crosses, Opposite
        <5>3. bid \in Nat /\ taker.type.price \in Nat
          BY <5>1, <4>1, <3>3, <3>6, PricesAssumption
        <5> QED
          BY <5>1, <5>2, <5>3 DEF NeverCrossed
      <4> QED
        BY <4>2, <4>3, <3>3 DEF Sides
    <3> QED
      BY <3>7 DEF NeverCrossed
  <2>4. StillStep \/ UnlinkStep \/ Allocate => \A s \in Sides : levels'[s] \subseteq levels[s]
    BY DEF StillStep, UnlinkStep, Allocate
  <2> QED
    BY <2>2, <2>3, <2>4, StepKinds
<1>3. Spec => []SweepInv
  BY SweepsAreThorough DEF NoSpentSeeds
<1> QED
  BY <1>1, <1>2, <1>3, Inductive, PTL DEF Spec

-------------------------------------------------------------------------------
(* Stops *)

\* No parked stop is reached by the last trade price.
Quiet == \A s \in Sides : \A t \in triggers[s] : ~Reached(s, t, last)

\* Parked orders have passed admission, on the limit they will become as well.
ParkedAdmitted ==
  \A s \in Sides, t \in Prices : \A i \in 1 .. Len(stops[s][t]) : Admits(stops[s][t][i])

\* The order in hand can rest: a command may fail only before the stops stir,
\* so an error never leaves a cascade half done.
HandInv ==
  Executing => /\ Admits(taker)
               /\ Quiet \/ (index[taker.id] = Null /\ ~IsStop(taker.type))

StopInv == ParkedAdmitted /\ HandInv /\ StopDiscipline

\* Admission speaks of the stop's limit, so what it becomes is admitted
\* (activate, matching.rs).
LEMMA ActivateAdmits ==
  ASSUME NEW order \in Orders, Admits(order)
  PROVE  /\ Admits(Activate(order)) /\ ~IsStop(Activate(order).type)
         /\ Activate(order).id = order.id
<1>1. order.type \in OrderTypes
  BY DEF Orders
<1>2. CASE order.type.kind = "stop_market"
  <2>1. Activate(order) = [order EXCEPT !.type = [kind |-> "market"]]
    BY <1>2 DEF Activate
  <2>2. /\ Activate(order).type = [kind |-> "market"]
        /\ Activate(order).original = order.original /\ Activate(order).id = order.id
    BY <2>1 DEF Orders
  <2>3. Activate(order).type.kind = "market"
    BY <2>2
  <2>4. PricesOf(Activate(order).type) = {} /\ LimitPrice(Activate(order).type) = Null
    BY <2>3 DEF PricesOf, LimitPrice
  <2>5. ~IsStop(Activate(order).type)
    BY <2>3 DEF IsStop
  <2>6. AdmitsQty(Activate(order).original)
    BY <2>2 DEF Admits
  <2> QED
    BY <2>2, <2>4, <2>5, <2>6 DEF Admits
<1>3. CASE order.type.kind = "stop_limit"
  <2> DEFINE limit == [kind |-> "limit", price |-> order.type.price, tif |-> order.type.tif]
  <2>1. Activate(order) = [order EXCEPT !.type = limit]
    BY <1>3 DEF Activate
  <2>2. /\ Activate(order).type = limit
        /\ Activate(order).original = order.original /\ Activate(order).id = order.id
    BY <2>1 DEF Orders
  <2>3. /\ PricesOf(limit) = {order.type.price}
        /\ PricesOf(order.type) = {order.type.trigger, order.type.price}
        /\ LimitPrice(limit) = order.type.price /\ LimitPrice(order.type) = order.type.price
        /\ ~IsStop(limit)
    BY <1>3 DEF PricesOf, LimitPrice, IsStop
  <2> HIDE DEF limit
  <2>4. AdmitsPrice(order.type.price)
    BY <2>3 DEF Admits
  <2> QED
    BY <2>2, <2>3, <2>4 DEF Admits
<1>4. CASE order.type.kind \notin {"stop_market", "stop_limit"}
  BY <1>4 DEF Activate, IsStop
<1> QED
  BY <1>2, <1>3, <1>4

\* A cascade that fires nothing any more has left nothing reached: the nearest
\* trigger of each side is the first the market would reach (pop_triggered_stop).
LEMMA NothingFiresIsQuiet ==
  ASSUME TypeOK, ~Fires("bid"), ~Fires("ask")
  PROVE  Quiet
<1> SUFFICES ASSUME NEW s \in Sides, NEW t \in triggers[s], Reached(s, t, last)
             PROVE  FALSE
  BY DEF Quiet
<1>1. triggers[s] \in SUBSET Prices /\ triggers[s] # {} /\ last \in Prices \union {Null}
  BY DEF TypeOK
<1>2. Opposite(s) \in Sides
  BY OppositeSide
<1>3. NearestTrigger(s) \in triggers[s]
  BY <1>1, NearestIsTrigger
<1>4. t = NearestTrigger(s) \/ Better(Opposite(s), NearestTrigger(s), t)
  BY <1>1, <1>2, BestExists DEF NearestTrigger
<1>5. t \in Nat /\ NearestTrigger(s) \in Nat /\ last \in Nat
  BY <1>1, <1>3, PricesAssumption DEF Reached
<1>6. Reached(s, NearestTrigger(s), last)
  BY <1>4, <1>5 DEF Reached, Better, Opposite, Sides
<1>7. Fires(s)
  BY <1>1, <1>6 DEF Fires
<1> QED
  BY <1>7 DEF Sides

\* Taking a parked order out leaves admitted orders parked, no trigger that was
\* not one before, and frees the id.
LEMMA UnparkEffect ==
  ASSUME TypeOK, ParkedAdmitted, NEW side \in Sides, NEW trigger \in Prices,
         NEW k \in 1 .. Len(stops[side][trigger]),
         Unpark(side, trigger, k)
  PROVE  /\ ParkedAdmitted'
         /\ \A s \in Sides : triggers'[s] \subseteq triggers[s]
         /\ stops[side][trigger][k] \in Orders /\ Admits(stops[side][trigger][k])
         /\ index'[stops[side][trigger][k].id] = Null
<1> DEFINE q == stops[side][trigger]
           r == RemoveAt(q, k)
<1>1. /\ stops \in [Sides -> [Prices -> Seq(Orders)]]
      /\ triggers \in [Sides -> SUBSET Prices]
      /\ index \in [Ids -> Addresses \union {Null}]
  BY DEF TypeOK
<1>2. q \in Seq(Orders) /\ Len(q) \in Nat
  BY <1>1, LenProperties
<1>3. q[k] \in Orders /\ q[k].id \in Ids /\ Admits(q[k])
  <2>1. q[k] \in Orders
    BY <1>2, ElementOfSeq
  <2> QED
    BY <2>1 DEF Orders, ParkedAdmitted
<1>4. /\ Len(r) = Len(q) - 1
      /\ \A j \in 1 .. Len(q) - 1 : r[j] = IF j < k THEN q[j] ELSE q[j+1]
  BY <1>2, RemoveAtElements
<1>5. /\ stops' = [stops EXCEPT ![side][trigger] = r]
      /\ triggers' = [triggers EXCEPT ![side] = IF r = <<>> THEN @ \ {trigger} ELSE @]
      /\ index' = [index EXCEPT ![q[k].id] = Null]
  BY DEF Unpark
<1> HIDE DEF r
<1>6. \A j \in 1 .. Len(r) : Admits(r[j])
  <2> SUFFICES ASSUME NEW j \in 1 .. Len(r)
               PROVE  Admits(r[j])
    OBVIOUS
  <2>1. \A i \in 1 .. Len(q) : Admits(q[i])
    BY DEF ParkedAdmitted
  <2> HIDE DEF q
  <2>2. r[j] = q[j] \/ r[j] = q[j+1]
    BY <1>2, <1>4
  <2>3. j \in 1 .. Len(q) /\ j + 1 \in 1 .. Len(q)
    BY <1>2, <1>4
  <2> QED
    BY <2>1, <2>2, <2>3
<1>7. ParkedAdmitted'
  <2> SUFFICES ASSUME NEW s \in Sides, NEW t \in Prices, NEW i \in 1 .. Len(stops'[s][t])
               PROVE  Admits(stops'[s][t][i])
    BY DEF ParkedAdmitted, Admits
  <2>1. CASE s = side /\ t = trigger
    <3>1. stops'[s][t] = r
      BY <2>1, <1>1, <1>5
    <3> QED
      BY <3>1, <1>6
  <2>2. CASE s # side \/ t # trigger
    <3>1. stops'[s][t] = stops[s][t]
      BY <2>2, <1>1, <1>5
    <3> QED
      BY <3>1 DEF ParkedAdmitted
  <2> QED
    BY <2>1, <2>2
<1>8. \A s \in Sides : triggers'[s] \subseteq triggers[s]
  BY <1>1, <1>5
<1>9. index'[q[k].id] = Null
  BY <1>1, <1>3, <1>5
<1> QED
  BY <1>3, <1>7, <1>8, <1>9

\* Parking keeps what is parked admitted.
LEMMA ParkEffect ==
  ASSUME TypeOK, ParkedAdmitted, taker \in Orders, Admits(taker), Park
  PROVE  ParkedAdmitted'
<1> DEFINE side == taker.side
           trigger == taker.type.trigger
           q == stops[side][trigger]
<1>1. side \in Sides /\ trigger \in Prices
  BY OrderTypeParts DEF Orders, Park
<1>2. /\ stops \in [Sides -> [Prices -> Seq(Orders)]]
      /\ stops' = [stops EXCEPT ![side][trigger] = Append(q, taker)]
  BY DEF Park, TypeOK
<1>3. q \in Seq(Orders) /\ Len(q) \in Nat
  BY <1>1, <1>2, LenProperties
<1> SUFFICES ASSUME NEW s \in Sides, NEW t \in Prices, NEW i \in 1 .. Len(stops'[s][t])
             PROVE  Admits(stops'[s][t][i])
  BY DEF ParkedAdmitted, Admits
<1>4. CASE s = side /\ t = trigger
  <2>1. stops'[s][t] = Append(q, taker)
    BY <1>1, <1>2, <1>4
  <2>2. \A j \in 1 .. Len(q) : Admits(q[j])
    BY <1>1 DEF ParkedAdmitted
  <2> HIDE DEF q
  <2>3. (i \in 1 .. Len(q) /\ stops'[s][t][i] = q[i]) \/ stops'[s][t][i] = taker
    BY <2>1, <1>3, AppendProperties
  <2> QED
    BY <2>2, <2>3
<1>5. CASE s # side \/ t # trigger
  <2>1. stops'[s][t] = stops[s][t]
    BY <1>1, <1>2, <1>5
  <2> QED
    BY <2>1 DEF ParkedAdmitted
<1> QED
  BY <1>4, <1>5

\* Commands keep the stop invariant: what a caller does between executions never
\* moves the last price, and only takes triggers away.
LEMMA CommandKeepsStops ==
  ASSUME IInv, StopInv, Command
  PROVE  StopInv'
<1>1. TypeOK /\ TriggersAreActive
  BY IInvParts
<1>2. pc = "idle" /\ Quiet
  BY DEF Command, Submit, AddOrder, CancelResting, CancelParked, StopInv, StopDiscipline, Quiet
<1>3. ASSUME NEW request \in Requests, Submit(request)
      PROVE  StopInv'
  <2>1. Admits(taker')
    <3>1. /\ Admits(request) /\ taker'.type = request.type /\ taker'.original = request.original
      BY <1>3 DEF Submit, OrderOf
    <3> QED
      BY <3>1 DEF Admits
  <2>2. UNCHANGED <<index, triggers, stops, last>> /\ pc' = "execute"
    BY <1>3 DEF Submit, book, stopBook
  <2>3. ParkedAdmitted' /\ Quiet'
    BY <2>2, <1>2 DEF StopInv, ParkedAdmitted, Quiet, Admits, Reached
  <2> QED
    BY <2>1, <2>2, <2>3 DEF StopInv, HandInv, StopDiscipline, Admits
<1>4. CASE \/ \E request \in Requests, id \in CallerIds : AddOrder(request, id)
           \/ \E id \in Ids : CancelResting(id)
  <2>1. UNCHANGED <<triggers, stops, last>> /\ pc' \in {"idle", "panicked"}
    BY <1>2, <1>4 DEF AddOrder, CancelResting, stopBook
  <2>2. ParkedAdmitted' /\ Quiet'
    BY <2>1, <1>2 DEF StopInv, ParkedAdmitted, Quiet, Admits, Reached
  <2> QED
    BY <2>1, <2>2 DEF StopInv, HandInv, StopDiscipline, Quiet, Executing
<1>5. ASSUME NEW id \in Ids, CancelParked(id)
      PROVE  StopInv'
  <2> DEFINE side == index[id].side
             trigger == index[id].price
  <2>1. index[id] \in Addresses /\ last' = last /\ pc' = "idle"
    BY <1>1, <1>5 DEF CancelParked, TypeOK
  <2>2. side \in Sides /\ trigger \in Prices
    BY <2>1, AddressCases
  <2>3. \E i \in DOMAIN stops[side][trigger] : Unpark(side, trigger, i)
    BY <1>5 DEF CancelParked
  <2> HIDE DEF side, trigger
  <2>4. DOMAIN stops[side][trigger] = 1 .. Len(stops[side][trigger])
    BY <1>1, <2>2, LenProperties DEF TypeOK
  <2>5. ParkedAdmitted' /\ \A s \in Sides : triggers'[s] \subseteq triggers[s]
    BY <1>1, <2>2, <2>3, <2>4, UnparkEffect DEF StopInv
  <2>6. Quiet'
    BY <1>2, <2>1, <2>5 DEF Quiet, Reached
  <2> QED
    BY <2>1, <2>5, <2>6 DEF StopInv, HandInv, StopDiscipline, Quiet, Executing
<1> QED
  BY <1>3, <1>4, <1>5 DEF Command

\* The steps of an execution keep the stop invariant: the last price moves only
\* when the execution has succeeded, and the cascade follows.
LEMMA ExecutionKeepsStops ==
  ASSUME Storable = Prices, IInv, StopInv, Execution
  PROVE  StopInv'
<1>1. TypeOK /\ TriggersAreActive /\ InHand /\ AtLevel /\ ParkedAdmitted /\ HandInv
  BY IInvParts DEF StopInv
<1>2. Executing => taker \in Orders /\ Opposite(taker.side) \in Sides
  BY <1>1, HandAndLevel
<1>3. CASE KillUnfillable \/ SettleWithoutRest \/ SettleByResting \/ SettlePanics
  <2>1. UNCHANGED <<triggers, stops>> /\ pc' \in {"cascade", "panicked"}
    BY <1>3 DEF KillUnfillable, SettleWithoutRest, SettleByResting, SettlePanics, stopBook
  <2> QED
    BY <2>1, <1>1 DEF StopInv, HandInv, StopDiscipline, Executing, ParkedAdmitted, Admits
<1>4. CASE StartSweep \/ TakeLevel \/ EndSweep \/ LeaveLevel
  <2>1. /\ UNCHANGED <<index, triggers, stops, last, taker>>
        /\ pc \in {"execute", "sweep", "unlink"} /\ pc' \in {"sweep", "stp", "settle"}
    BY <1>4 DEF StartSweep, TakeLevel, EndSweep, LeaveLevel, book, stopBook
  <2>2. Executing /\ ParkedAdmitted' /\ (Quiet => Quiet')
    BY <2>1, <1>1 DEF Executing, ParkedAdmitted, Quiet, Admits, Reached
  <2> QED
    BY <2>1, <2>2, <1>1 DEF StopInv, HandInv, StopDiscipline, Executing, Admits, IsStop
<1>5. CASE ActivateAtOnce
  <2>1. /\ UNCHANGED <<index, triggers, stops, last>> /\ taker' = Activate(taker)
        /\ pc = "execute" /\ pc' = pc /\ IsStop(taker.type)
    BY <1>5 DEF ActivateAtOnce, book, stopBook
  <2>2. Executing /\ Admits(taker) /\ Quiet
    BY <2>1, <1>1 DEF Executing, HandInv
  <2>3. Admits(taker')
    <3>1. Admits(Activate(taker))
      BY <2>2, <1>2, ActivateAdmits
    <3> QED
      BY <2>1, <3>1
  <2>4. ParkedAdmitted' /\ Quiet'
    BY <2>1, <2>2, <1>1 DEF ParkedAdmitted, Quiet, Admits, Reached
  <2> QED
    BY <2>1, <2>3, <2>4 DEF StopInv, HandInv, StopDiscipline, Admits
<1>6. CASE Park
  <2>1. pc = "execute" /\ pc' = "cascade"
    BY <1>6 DEF Park
  <2>2. ParkedAdmitted'
    BY <2>1, <1>1, <1>2, <1>6, ParkEffect DEF HandInv, Executing
  <2> QED
    BY <2>1, <2>2 DEF StopInv, HandInv, StopDiscipline, Executing
<1>7. CASE ParkDuplicate \/ SettleFails
  <2>1. UNCHANGED <<triggers, stops, last>> /\ pc' = "idle"
    BY <1>7 DEF ParkDuplicate, SettleFails, GoIdle, stopBook
  <2>2. Quiet
    <3>1. CASE ParkDuplicate
      BY <3>1, <1>1 DEF ParkDuplicate, HandInv, Executing
    <3>2. CASE SettleFails
      <4>1. Executing /\ taker.type.kind = "limit"
        BY <3>2 DEF SettleFails, Rests, Executing
      <4>2. taker.type.price \in Storable
        BY <4>1, <1>2, OrderTypeParts DEF Orders
      <4>3. ~Restable(taker)
        BY <3>2, <4>2 DEF SettleFails
      <4> QED
        BY <4>1, <4>3, <1>1 DEF Restable, HandInv
    <3> QED
      BY <1>7, <3>1, <3>2
  <2>3. ParkedAdmitted' /\ Quiet'
    BY <2>1, <2>2, <1>1 DEF ParkedAdmitted, Quiet, Admits, Reached
  <2> QED
    BY <2>1, <2>3 DEF StopInv, HandInv, StopDiscipline, Quiet, Executing
<1>8. CASE CancelOwn \/ UnlinkExhausted
  <2>1. /\ UNCHANGED <<triggers, stops, last, taker, pc>> /\ pc \in {"stp", "unlink"}
        /\ \E id : index' = [index EXCEPT ![id] = Null]
    BY <1>8 DEF CancelOwn, UnlinkExhausted, Unlink, stopBook
  <2>2. index[taker.id] = Null => index'[taker.id] = Null
    BY <2>1, <1>1 DEF TypeOK
  <2>3. Executing /\ ParkedAdmitted' /\ (Quiet => Quiet')
    BY <2>1, <1>1 DEF Executing, ParkedAdmitted, Quiet, Admits, Reached
  <2> QED
    BY <2>1, <2>2, <2>3, <1>1 DEF StopInv, HandInv, StopDiscipline, Executing, Admits, IsStop
<1>9. CASE Allocate
  <2>1. UNCHANGED <<index, triggers, stops, last>> /\ pc = "stp" /\ pc' = "unlink"
    BY <1>9 DEF Allocate, stopBook
  <2>2. /\ taker'.id = taker.id /\ taker'.type = taker.type
        /\ taker'.original = taker.original
    BY <1>9, AllocateEffect
  <2>3. Executing /\ ParkedAdmitted' /\ (Quiet => Quiet')
    BY <2>1, <1>1 DEF Executing, ParkedAdmitted, Quiet, Admits, Reached
  <2> QED
    BY <2>1, <2>2, <2>3, <1>1 DEF StopInv, HandInv, StopDiscipline, Executing, Admits, IsStop
<1>10. ASSUME NEW side \in Sides, FireStop(side)
       PROVE  StopInv'
  <2> DEFINE trigger == NearestTrigger(side)
             stop == stops[side][trigger][1]
  <2>1. /\ pc' = "execute" /\ triggers[side] # {}
        /\ Unpark(side, trigger, 1)
        /\ taker' = Activate(Head(stops[side][trigger]))
    BY <1>10 DEF FireStop, Fires
  <2>2. trigger \in triggers[side] /\ trigger \in Prices
    BY <2>1, <1>1, NearestIsTrigger DEF TypeOK
  <2> HIDE DEF trigger
  <2>3. /\ stops[side][trigger] \in Seq(Orders) /\ stops[side][trigger] # <<>>
        /\ 1 \in 1 .. Len(stops[side][trigger])
    <3>1. stops[side][trigger] \in Seq(Orders)
      BY <2>2, <1>1 DEF TypeOK
    <3>2. stops[side][trigger] # <<>>
      BY <2>2, <1>1 DEF TriggersAreActive
    <3> QED
      BY <3>1, <3>2, EmptySeq
  <2>4. /\ ParkedAdmitted' /\ stop \in Orders /\ Admits(stop)
        /\ index'[stop.id] = Null
    BY <2>1, <2>2, <2>3, <1>1, UnparkEffect
  <2>5. taker' = Activate(stop)
    BY <2>1, <2>3, HeadTailProperties
  <2> HIDE DEF stop
  <2>6. Admits(taker') /\ ~IsStop(taker'.type) /\ index'[taker'.id] = Null
    <3>1. /\ Admits(Activate(stop)) /\ ~IsStop(Activate(stop).type)
          /\ Activate(stop).id = stop.id
      BY <2>4, ActivateAdmits
    <3> QED
      BY <2>4, <2>5, <3>1
  <2> QED
    BY <2>1, <2>4, <2>6 DEF StopInv, HandInv, StopDiscipline, Admits, IsStop
<1>11. CASE EndCascade
  <2>1. UNCHANGED <<triggers, stops, last>> /\ pc' = "idle" /\ ~Fires("bid") /\ ~Fires("ask")
    BY <1>11 DEF EndCascade, GoIdle, stopBook
  <2>2. Quiet
    BY <2>1, <1>1, NothingFiresIsQuiet
  <2>3. ParkedAdmitted' /\ Quiet'
    BY <2>1, <2>2, <1>1 DEF ParkedAdmitted, Quiet, Admits, Reached
  <2> QED
    BY <2>1, <2>3 DEF StopInv, HandInv, StopDiscipline, Quiet, Executing
<1> QED
  BY <1>3, <1>4, <1>5, <1>6, <1>7, <1>8, <1>9, <1>10, <1>11 DEF Execution

\* The stop invariant holds along every behaviour, if the store has a place for
\* every price.
LEMMA StopInvHolds == ASSUME Storable = Prices PROVE Spec => []StopInv
<1>1. Init => StopInv
  <2> SUFFICES ASSUME Init
               PROVE  StopInv
    OBVIOUS
  <2>1. \A s \in Sides, t \in Prices : stops[s][t] = <<>>
    BY DEF Init
  <2>2. ParkedAdmitted
    BY <2>1, EmptySeq DEF ParkedAdmitted
  <2> QED
    BY <2>2 DEF Init, StopInv, HandInv, StopDiscipline, Executing
<1>2. IInv /\ StopInv /\ [Next]_vars => StopInv'
  <2>1. CASE UNCHANGED vars
    BY <2>1 DEF vars, StopInv, ParkedAdmitted, HandInv, StopDiscipline, Executing, Quiet,
                Reached, Admits, IsStop
  <2> QED
    BY <2>1, CommandKeepsStops, ExecutionKeepsStops DEF Next, AwaitCommand
<1> QED
  BY <1>1, <1>2, Inductive, PTL DEF Spec

\* Between commands no stop the last trade price has reached is parked, also after
\* a command that failed half way, if the store has a place for every price
\* (orderbook.rs:71, matching.rs:80-84).  A duplicate id can fail a submission, but
\* no activated stop: its id was indexed while it was parked and is free when it fires.
THEOREM StopsAreDisciplined == ASSUME Storable = Prices PROVE Spec => []StopDiscipline
<1>1. StopInv => StopDiscipline
  BY DEF StopInv
<1> QED
  BY <1>1, StopInvHolds, PTL
===============================================================================
