--------------------------------- MODULE Views ---------------------------------
(***************************************************************************)
(* What a reader of the book is shown: the queries of                      *)
(* src/src/orderbook.rs, the level snapshots of src/src/types.rs, and the  *)
(* outcome a submission reports (src/src/matching.rs).  Queries change     *)
(* nothing; their properties relate them to one another, to the engine     *)
(* and to the steps it takes.                                              *)
(***************************************************************************)
EXTENDS OrderBook

-------------------------------------------------------------------------------
(* Level snapshots: an owned copy of a level's orders, oldest first *)

NewLevel(side, price) == [side |-> side, price |-> price, orders |-> <<>>]

\* Null stands for the error: a wrong side or an id already there.
AddToLevel(snapshot, order) ==
  IF order.side # snapshot.side \/ \E n \in DOMAIN snapshot.orders : snapshot.orders[n].id = order.id
  THEN Null
  ELSE [snapshot EXCEPT !.orders = Append(@, order)]

RemoveFromLevel(snapshot, id) ==
  [snapshot EXCEPT !.orders =
     IF \E n \in DOMAIN @ : @[n].id = id
     THEN RemoveAt(@, CHOOSE n \in DOMAIN @ : @[n].id = id /\ \A m \in 1 .. n - 1 : @[m].id # id)
     ELSE @]

\* Mutant: what the orders started with is summed.
MutTotalQuantity(snapshot) ==
  FoldLeft(LAMBDA sum, order : (sum + order.original) % QtyLimit, 0, snapshot.orders)

TotalQuantity(snapshot) ==
  FoldLeft(LAMBDA sum, order : (sum + order.remaining) % QtyLimit, 0, snapshot.orders)

\* The view of a level and its owned copy show the same.
Snapshot(side, price) ==
  [NewLevel(side, price) EXCEPT
     !.orders = [n \in DOMAIN queue[side][price] |-> nodes[queue[side][price][n]]]]

-------------------------------------------------------------------------------
(* Queries *)

\* best_bid, best_ask
BestPrice(side) == IF levels[side] = {} THEN Null ELSE Best(side)

\* The distance of the touches, whichever is the higher.
Spread ==
  IF BestPrice("bid") = Null \/ BestPrice("ask") = Null THEN Null
  ELSE IF BestPrice("ask") > BestPrice("bid")
       THEN BestPrice("ask") - BestPrice("bid")
       ELSE BestPrice("bid") - BestPrice("ask")

\* The best `count' levels, each with its price and total.
Depth(side, count) ==
  LET prices == LevelsBestFirst(side)
  IN  [n \in 1 .. Smaller(count, Len(prices)) |->
         [price |-> prices[n], total |-> TotalQuantity(Snapshot(side, prices[n]))]]

OrderIds == {id \in Ids : index[id] # Null}

\* Mutant: sell stops are looked up among the buy stops.
MutGetOrder(id) ==
  IF index[id] = Null THEN Null
  ELSE IF index[id].kind = "book" THEN nodes[id]
  ELSE LET parked == {order \in ToSet(stops["bid"][index[id].price]) : order.id = id}
       IN  IF parked = {} THEN Null ELSE CHOOSE order \in parked : TRUE

\* get_order: through the index, into the arena or the trigger's queue.
GetOrder(id) ==
  IF index[id] = Null THEN Null
  ELSE IF index[id].kind = "book" THEN nodes[id]
  ELSE ParkedOrder(id)

\* Mutant: a price equal to the touch does not cross.
MutWouldCross(side, price) ==
  LET touch == BestPrice(Opposite(side))
  IN  touch # Null /\ IF side = "ask" THEN price < touch ELSE price > touch

\* crosses: would an order of `side' at `price' trade against the book?
WouldCross(side, price) ==
  LET touch == BestPrice(Opposite(side))
  IN  touch # Null /\ IF side = "ask" THEN price <= touch ELSE price >= touch

-------------------------------------------------------------------------------
(* The outcome of an execution *)

\* Mutant: a remainder that rests after self-trade cancellations counts as
\* partially filled.
MutOutcome ==
  IF taker.remaining = 0 \/ IsFok(taker) THEN "filled"
  ELSE IF ~Rests(taker) THEN "killed"
  ELSE IF trades = <<>> /\ cancelled = {} THEN "rested" ELSE "partially_filled_and_rested"

\* SubmitOutcome, as the order types' handlers decide it after the sweep.
Outcome ==
  IF taker.remaining = 0 \/ IsFok(taker) THEN "filled"
  ELSE IF ~Rests(taker) THEN "killed"
  ELSE IF trades = <<>> THEN "rested" ELSE "partially_filled_and_rested"

-------------------------------------------------------------------------------
(* Properties *)

\* The queries show one book: summed depth is what rests on the side, strictly
\* best first, a shallower depth is a prefix of a deeper one, its head is the
\* touch, and the touches are a positive spread apart (orderbook.rs:316-347).
DepthAddsUp ==
  pc = "idle" =>
    /\ \A side \in Sides :
         LET depth == Depth(side, Cardinality(Prices))
             resting == {id \in Ids : nodes[id] # Null /\ nodes[id].side = side}
         IN  /\ Total([n \in DOMAIN depth |-> depth[n].total])
                  = Total([id \in resting |-> nodes[id].remaining])
             /\ \A n \in DOMAIN depth : depth[n].total > 0
             /\ \A m, n \in DOMAIN depth : m < n => Better(side, depth[m].price, depth[n].price)
             /\ \A count \in 0 .. Len(depth) : Depth(side, count) = SubSeq(depth, 1, count)
             /\ BestPrice(side) = IF depth = <<>> THEN Null ELSE Head(depth).price
    /\ Spread # Null => Spread > 0 /\ BestPrice("ask") = BestPrice("bid") + Spread

\* Every live order is shown exactly once: its id leads to it and to nothing
\* else, and the ids are as many as the orders of all levels and triggers
\* (orderbook.rs:371-409).
LookupsAgree ==
  /\ \A id \in OrderIds :
       /\ GetOrder(id) # Null
       /\ GetOrder(id).id = id /\ GetOrder(id).side = index[id].side
  /\ Cardinality(OrderIds)
       = Total([s \in Sides |->
                  Total([p \in Prices |-> Len(Snapshot(s, p).orders) + Len(stops[s][p])])])

\* What crosses promises the sweep does: a limit order reaches a level exactly
\* when the query said it would (orderbook.rs:411-422, matching.rs:448-457).
CrossesForetellsTrade ==
  [][pc = "sweep" /\ LimitPrice(taker.type) # Null /\ taker.remaining # 0
       => (pc' = "stp" <=> WouldCross(taker.side, LimitPrice(taker.type)))]_vars

\* A reader's snapshot of a level keeps up with the book by add_order and
\* remove_order alone: who joins the level is accepted at the back, who leaves
\* goes by id, and nobody else moves (types.rs:325-348, order_queue.rs:37-78).
SnapshotsFollow ==
  [][\A side \in Sides, price \in Prices :
       LET then == queue[side][price]
           now == queue'[side][price]
           joined == {id \in ToSet(now) : id \notin ToSet(then)}
           left == {id \in ToSet(then) : id \notin ToSet(now)}
       IN  then # now =>
             \/ \E id \in joined : Snapshot(side, price)' = AddToLevel(Snapshot(side, price), nodes'[id])
             \/ \E id \in left : Snapshot(side, price)' = RemoveFromLevel(Snapshot(side, price), id)]_vars

\* The reported outcome is what became of the order, for orders submitted with
\* nothing filled yet: its prints and its remainder make up its quantity, and
\* the remainder rests under its id exactly if the report says so
\* (matching.rs:29-43).
OutcomeIsTrue ==
  [][pc = "settle" /\ pc' = "cascade" =>
       LET traded == Total([n \in DOMAIN trades |-> Total(trades[n].fills)])
       IN  /\ traded + taker.remaining = taker.original
           /\ CASE Outcome = "filled" -> index'[taker.id] = Null /\ traded = taker.original
                [] Outcome = "killed" -> index'[taker.id] = Null /\ traded < taker.original
                [] Outcome = "rested" ->
                     nodes'[taker.id].remaining = taker.original /\ traded = 0
                [] Outcome = "partially_filled_and_rested" ->
                     /\ nodes'[taker.id].remaining = taker.original - traded
                     /\ 0 < traded]_vars
===============================================================================
