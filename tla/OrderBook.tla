------------------------------- MODULE OrderBook -------------------------------
(***************************************************************************)
(* The matching engine of src/src/orderbook.rs and src/src/matching.rs:    *)
(* the resting book, the stop book, the index over both, and the commands  *)
(* submit, add_order and cancel_order.                                     *)
(*                                                                         *)
(* A submitted order is executed in small steps, so that the properties    *)
(* can speak of the book in the middle of a sweep and of a stop cascade.   *)
(* `pc' names the step the engine is about to take:                        *)
(*                                                                         *)
(*   idle -> execute -> sweep -> stp -> unlink -> sweep ... -> settle      *)
(*                  \-> (park, or killed dry run)                          *)
(*                                                                         *)
(*   settle -> cascade -> execute ... -> idle                              *)
(*                                                                         *)
(* Nothing else runs meanwhile: the code borrows the book mutably for the  *)
(* whole command.  An arena node is named by the id of the order it holds  *)
(* (the index keeps ids unique), a level's linked list is the sequence of  *)
(* its ids, and a BTreeMap or price ladder is the set of its active keys   *)
(* next to a total function.                                               *)
(***************************************************************************)
EXTENDS Instrument, Allocation, SequencesExt

CONSTANTS
  Clients,
  Requests,    \* the orders callers may hand in, ids aside
  CallerIds,   \* ids callers put on the orders they add without matching
  Storable,    \* prices the level store has a place for
  MaxSeq,      \* bound: submissions accepted in a behaviour
  MaxArrival,  \* largest value of the arrival counter (u32::MAX)
  QtyLimit,    \* quantities wrap at this value (2^64)
  Policy       \* "any" contract-abiding policy, or one of the three shipped

\* The matching policies, by the code's struct: FifoMatcher, ProRataMatcher,
\* TimeProRataMatcher; "any" stands for an arbitrary MatchingAlgorithm.
Policies == {"any", "fifo", "pro_rata", "time_pro_rata"}

Request ==
  [client : Clients, side : Sides, type : OrderTypes, original : Nat, remaining : Nat]

Ids == 1 .. MaxSeq \union CallerIds

Orders ==
  [id : Ids, client : Clients, side : Sides, type : OrderTypes,
   original : Nat, remaining : Nat, arrival : Nat]

Addresses == [kind : {"book", "stop"}, side : Sides, price : Prices]

ASSUME OrderBookAssumption ==
  /\ Requests \subseteq Request
  /\ CallerIds \subseteq Nat \ {0} /\ IsFiniteSet(CallerIds)
  /\ Storable \subseteq Prices
  /\ MaxSeq \in Nat
  /\ MaxArrival \in Nat \ {0}
  /\ QtyLimit \in Nat \ {0}
  /\ Policy \in Policies

ASSUME NullAssumption ==
  Null \notin Orders /\ Null \notin Addresses /\ Null \notin Prices /\ Null \notin Clients

VARIABLES
  \* the book
  levels,       \* levels[side]: prices with an active level
  queue,        \* queue[side][price]: ids resting there, oldest first
  nodes,        \* the arena: the resting order of each id, or Null
  index,        \* where each live id is, or Null
  triggers,     \* triggers[side]: keys of the stop book
  stops,        \* stops[side][trigger]: parked orders, oldest first
  last,         \* last_trade_price
  nextSeq,
  nextArrival,
  \* the command being executed
  pc,
  taker,        \* the order in hand, or Null
  level,        \* the price level being swept, or Null
  filled,       \* ids the last allocation filled
  trades,       \* this execution's prints, one record per level traded
  cancelled     \* own orders this execution cancelled

book == <<levels, queue, nodes, index>>
stopBook == <<triggers, stops>>
counters == <<nextSeq, nextArrival>>
vars == <<levels, queue, nodes, index, triggers, stops, last, nextSeq, nextArrival,
          pc, taker, level, filled, trades, cancelled>>

Init ==
  /\ levels = [s \in Sides |-> {}]
  /\ queue = [s \in Sides |-> [p \in Prices |-> <<>>]]
  /\ nodes = [id \in Ids |-> Null]
  /\ index = [id \in Ids |-> Null]
  /\ triggers = [s \in Sides |-> {}]
  /\ stops = [s \in Sides |-> [p \in Prices |-> <<>>]]
  /\ last = Null
  /\ nextSeq = 1
  /\ nextArrival = 1
  /\ pc = "idle"
  /\ taker = Null
  /\ level = Null
  /\ filled = {}
  /\ trades = <<>>
  /\ cancelled = {}

-------------------------------------------------------------------------------
(* Reading the book *)

BookAddress(side, price) == [kind |-> "book", side |-> side, price |-> price]
StopAddress(side, trigger) == [kind |-> "stop", side |-> side, price |-> trigger]

\* Mutant: the far end of the side is taken for its touch.
MutBest(side) ==
  CHOOSE p \in levels[side] : \A q \in levels[side] : q = p \/ Better(side, q, p)

Best(side) ==
  CHOOSE p \in levels[side] : \A q \in levels[side] : q = p \/ Better(side, p, q)

LevelsBestFirst(side) == Ranked(levels[side], BetterFirst(side))

\* Mutant: an order does not trade at its own limit.
MutCrosses(order, price) ==
  LET limit == LimitPrice(order.type)
  IN  limit # Null => IF order.side = "bid" THEN price < limit ELSE price > limit

\* Would `order' trade at `price'?  A market order takes any price.
Crosses(order, price) ==
  LET limit == LimitPrice(order.type)
  IN  limit # Null => IF order.side = "bid" THEN price <= limit ELSE price >= limit

MakersAt(side, price) ==
  [i \in DOMAIN queue[side][price] |->
     [remaining |-> nodes[queue[side][price][i]].remaining,
      arrival   |-> nodes[queue[side][price][i]].arrival]]

\* Mutant: the dry run counts the client's own orders.
MutFillableOwn(order) ==
  LET side == Opposite(order.side)
  IN  SumFunction([id \in {id \in Ids : /\ nodes[id] # Null
                                        /\ nodes[id].side = side
                                        /\ Crosses(order, nodes[id].type.price)}
                     |-> nodes[id].remaining])

\* Mutant: the dry run never leaves the best level.
MutFillableTouch(order) ==
  LET side == Opposite(order.side)
  IN  SumFunction([id \in {id \in Ids : /\ nodes[id] # Null
                                        /\ nodes[id].side = side
                                        /\ nodes[id].client # order.client
                                        /\ nodes[id].type.price = Best(side)
                                        /\ Crosses(order, Best(side))}
                     |-> nodes[id].remaining])

\* What the queue at `price' adds to the dry run of `order': its client's own
\* orders are skipped, and nothing is added once there is enough.
DryRunLevel(order, price, available) ==
  LET ids == queue[Opposite(order.side)][price]
      after[i \in 0 .. Len(ids)] ==
        IF i = 0 THEN available
        ELSE IF nodes[ids[i]].client = order.client \/ after[i-1] >= order.remaining
             THEN after[i-1]
             ELSE (after[i-1] + nodes[ids[i]].remaining) % QtyLimit
  IN  after[Len(ids)]

\* The level a walk over `prices', best first, comes to last.
Worst(side, prices) == CHOOSE p \in prices : \A q \in prices : q = p \/ Better(side, q, p)

\* fillable_quantity: the dry run of a sweep over the crossing levels.
Fillable(order) ==
  LET side == Opposite(order.side)
      crossing == {p \in levels[side] : Crosses(order, p)}
      walk[walked \in SUBSET crossing] ==
        IF walked = {} THEN 0
        ELSE DryRunLevel(order, Worst(side, walked), walk[walked \ {Worst(side, walked)}])
  IN  walk[crossing]

\* Has the market reached a trigger?  Nothing has, before the first trade.
Reached(side, trigger, price) ==
  /\ price # Null
  /\ IF side = "bid" THEN price >= trigger ELSE price <= trigger

\* Mutant: the far end of the stop book is examined.
MutNearestTrigger(side) ==
  CHOOSE t \in triggers[side] : \A u \in triggers[side] : u = t \/ Better(side, t, u)

\* The stop a cascade fires next: buy stops from the lowest trigger, then sell
\* stops from the highest.
NearestTrigger(side) ==
  CHOOSE t \in triggers[side] : \A u \in triggers[side] : u = t \/ Better(Opposite(side), t, u)

Fires(side) == triggers[side] # {} /\ Reached(side, NearestTrigger(side), last)

\* Mutant: a triggered stop is executed as the stop it was.
MutActivate(order) == order

\* What a triggered stop becomes.
Activate(order) ==
  CASE order.type.kind = "stop_market" ->
         [order EXCEPT !.type = [kind |-> "market"]]
    [] order.type.kind = "stop_limit" ->
         [order EXCEPT !.type = [kind |-> "limit", price |-> order.type.price,
                                 tif |-> order.type.tif]]
    [] OTHER -> order

-------------------------------------------------------------------------------
(* Changing the book *)

\* An order of `request' under id `id', not yet at rest.
OrderOf(request, id) ==
  [id |-> id, client |-> request.client, side |-> request.side, type |-> request.type,
   original |-> request.original, remaining |-> request.remaining, arrival |-> 0]

\* Mutant: a duplicate id is not noticed.
MutRestable(order) == order.type.kind = "limit" /\ Admits(order)

Restable(order) == order.type.kind = "limit" /\ Admits(order) /\ index[order.id] = Null

\* Mutant: the newest order joins the front of the queue.
MutRest(order) ==
  /\ levels' = [levels EXCEPT ![order.side] = @ \union {order.type.price}]
  /\ queue' = [queue EXCEPT ![order.side][order.type.price] = <<order.id>> \o @]
  /\ nodes' = [nodes EXCEPT ![order.id] = [order EXCEPT !.arrival = nextArrival]]
  /\ index' = [index EXCEPT ![order.id] = BookAddress(order.side, order.type.price)]
  /\ nextArrival' = nextArrival + 1

\* The tail of add_order: the order joins the back of its level's queue and is
\* stamped with the next arrival.
Rest(order) ==
  LET side == order.side
      price == order.type.price
  IN  /\ levels' = [levels EXCEPT ![side] = @ \union {price}]
      /\ queue' = [queue EXCEPT ![side][price] = Append(@, order.id)]
      /\ nodes' = [nodes EXCEPT ![order.id] = [order EXCEPT !.arrival = nextArrival]]
      /\ index' = [index EXCEPT ![order.id] = BookAddress(side, price)]
      /\ nextArrival' = nextArrival + 1

\* Mutant: the index keeps the address of an order that is gone.
MutUnlink(side, price, id) ==
  /\ \E i \in DOMAIN queue[side][price] :
       /\ queue[side][price][i] = id
       /\ queue' = [queue EXCEPT ![side][price] = RemoveAt(@, i)]
  /\ nodes' = [nodes EXCEPT ![id] = Null]
  /\ UNCHANGED index

\* Unlink a resting order from its level's queue and free its node.
Unlink(side, price, id) ==
  /\ \E i \in DOMAIN queue[side][price] :
       /\ queue[side][price][i] = id
       /\ queue' = [queue EXCEPT ![side][price] = RemoveAt(@, i)]
  /\ nodes' = [nodes EXCEPT ![id] = Null]
  /\ index' = [index EXCEPT ![id] = Null]

\* Mutant: the order is looked at and left where it is.
MutUnparkPeek(side, trigger, i) ==
  /\ index' = [index EXCEPT ![stops[side][trigger][i].id] = Null]
  /\ UNCHANGED <<stops, triggers>>

\* Take the i-th parked order out of its trigger queue, and the key with it
\* when that queue runs empty.
Unpark(side, trigger, i) ==
  LET left == RemoveAt(stops[side][trigger], i)
  IN  /\ stops' = [stops EXCEPT ![side][trigger] = left]
      /\ triggers' = [triggers EXCEPT ![side] = IF left = <<>> THEN @ \ {trigger} ELSE @]
      /\ index' = [index EXCEPT ![stops[side][trigger][i].id] = Null]

-------------------------------------------------------------------------------
(* Commands *)

\* submit, up to execution.  A request that is not admitted changes nothing.
Submit(request) ==
  /\ pc = "idle"
  /\ nextSeq <= MaxSeq
  /\ Admits(request)
  /\ taker' = OrderOf(request, nextSeq)
  /\ nextSeq' = nextSeq + 1
  /\ pc' = "execute"
  /\ UNCHANGED <<book, stopBook, last, nextArrival, level, filled, trades, cancelled>>

\* add_order by a caller.  An order that cannot rest is refused and changes
\* nothing; the counter's last value is never handed out.
AddOrder(request, id) ==
  LET order == OrderOf(request, id)
  IN  /\ pc = "idle"
      /\ Restable(order)
      /\ IF nextArrival < MaxArrival
         THEN order.type.price \in Storable /\ Rest(order) /\ UNCHANGED pc
         ELSE pc' = "panicked" /\ UNCHANGED <<book, nextArrival>>
      /\ UNCHANGED <<stopBook, last, nextSeq, taker, level, filled, trades, cancelled>>

\* cancel_order, for an order resting in the book.
CancelResting(id) ==
  /\ pc = "idle"
  /\ index[id] # Null
  /\ index[id].kind = "book"
  /\ LET side == index[id].side
         price == index[id].price
     IN  /\ Unlink(side, price, id)
         /\ levels' = [levels EXCEPT ![side] =
                         IF queue'[side][price] = <<>> THEN @ \ {price} ELSE @]
  /\ UNCHANGED <<stopBook, last, counters, pc, taker, level, filled, trades, cancelled>>

\* cancel_order, for a parked stop.
CancelParked(id) ==
  /\ pc = "idle"
  /\ index[id] # Null
  /\ index[id].kind = "stop"
  /\ \E i \in DOMAIN stops[index[id].side][index[id].price] :
       /\ stops[index[id].side][index[id].price][i].id = id
       /\ Unpark(index[id].side, index[id].price, i)
  /\ UNCHANGED <<levels, queue, nodes, last, counters, pc, taker, level, filled,
                 trades, cancelled>>

-------------------------------------------------------------------------------
(* Execution of the order in hand *)

\* The order in hand may still trade.
Executing == pc \in {"execute", "sweep", "stp", "unlink", "settle"}

IsFok(order) == order.type.kind = "limit" /\ order.type.tif = "fok"

\* The command is over; its report is out.
GoIdle ==
  /\ pc' = "idle"
  /\ taker' = Null
  /\ level' = Null
  /\ filled' = {}
  /\ trades' = <<>>
  /\ cancelled' = {}

\* A fill-or-kill whose dry run falls short is killed, touching nothing.
KillUnfillable ==
  /\ pc = "execute"
  /\ IsFok(taker)
  /\ Fillable(taker) < taker.remaining
  /\ pc' = "cascade"
  /\ UNCHANGED <<book, stopBook, last, counters, taker, level, filled, trades, cancelled>>

StartSweep ==
  /\ pc = "execute"
  /\ ~IsStop(taker.type)
  /\ IsFok(taker) => Fillable(taker) >= taker.remaining
  /\ pc' = "sweep"
  /\ UNCHANGED <<book, stopBook, last, counters, taker, level, filled, trades, cancelled>>

\* A stop the market has already reached executes at once.
ActivateAtOnce ==
  /\ pc = "execute"
  /\ IsStop(taker.type)
  /\ Reached(taker.side, taker.type.trigger, last)
  /\ taker' = Activate(taker)
  /\ UNCHANGED <<book, stopBook, last, counters, pc, level, filled, trades, cancelled>>

\* Any other stop parks; an id that is already live fails the command.
Park ==
  /\ pc = "execute"
  /\ IsStop(taker.type)
  /\ ~Reached(taker.side, taker.type.trigger, last)
  /\ index[taker.id] = Null
  /\ index' = [index EXCEPT ![taker.id] = StopAddress(taker.side, taker.type.trigger)]
  /\ triggers' = [triggers EXCEPT ![taker.side] = @ \union {taker.type.trigger}]
  /\ stops' = [stops EXCEPT ![taker.side][taker.type.trigger] = Append(@, taker)]
  /\ pc' = "cascade"
  /\ UNCHANGED <<levels, queue, nodes, last, counters, taker, level, filled, trades, cancelled>>

ParkDuplicate ==
  /\ pc = "execute"
  /\ IsStop(taker.type)
  /\ ~Reached(taker.side, taker.type.trigger, last)
  /\ index[taker.id] # Null
  /\ GoIdle
  /\ UNCHANGED <<book, stopBook, last, counters>>

\* The sweep moves to the best opposing level ...
TakeLevel ==
  LET side == Opposite(taker.side)
  IN  /\ pc = "sweep"
      /\ taker.remaining # 0
      /\ levels[side] # {}
      /\ Crosses(taker, Best(side))
      /\ level' = Best(side)
      /\ pc' = "stp"
      /\ UNCHANGED <<book, stopBook, last, counters, taker, filled, trades, cancelled>>

\* ... until the taker is full, the side is dry or the level does not cross.
EndSweep ==
  LET side == Opposite(taker.side)
  IN  /\ pc = "sweep"
      /\ \/ taker.remaining = 0
         \/ levels[side] = {}
         \/ levels[side] # {} /\ ~Crosses(taker, Best(side))
      /\ pc' = "settle"
      /\ UNCHANGED <<book, stopBook, last, counters, taker, level, filled, trades, cancelled>>

\* Mutant: no self-trade prevention.
MutOwnIds == {}

\* Ids at the level under sweep that belong to the taker's own client.
OwnIds ==
  {id \in ToSet(queue[Opposite(taker.side)][level]) : nodes[id].client = taker.client}

\* Self-trade prevention cancels every own order of the level, one per
\* step from the head of the queue.
CancelOwn ==
  /\ pc = "stp"
  /\ \E id \in OwnIds :
       /\ \A own \in OwnIds : nodes[id].arrival <= nodes[own].arrival
       /\ Unlink(Opposite(taker.side), level, id)
       /\ cancelled' = cancelled \union {id}
  /\ UNCHANGED <<levels, stopBook, last, counters, pc, taker, level, filled, trades>>

\* What the policy may answer: any contract-abiding allocation, or the one the
\* shipped policy computes.
Chosen(fills, available, makers) ==
  CASE Policy = "any"           -> TRUE
    [] Policy = "fifo"          -> fills = FifoAllocate(available, makers)
    [] Policy = "pro_rata"      -> fills = ProRataAllocate(available, makers)
    [] Policy = "time_pro_rata" -> fills = TimeProRataAllocate(available, makers, nextArrival)

\* The fills of the queue `ids', position by position, as a quantity per order.
ByOrder(fills, ids) ==
  [id \in Ids |-> IF \E i \in DOMAIN ids : ids[i] = id
                  THEN fills[CHOOSE i \in DOMAIN ids : ids[i] = id]
                  ELSE 0]

\* The policy apportions the level and every fill is applied: maker and taker
\* lose the quantity, a trade prints at the level's price.
Allocate ==
  LET side == Opposite(taker.side)
      ids == queue[side][level]
      makers == MakersAt(side, level)
  IN  /\ pc = "stp"
      /\ OwnIds = {}
      /\ \E fills \in Allocations(taker.remaining, makers) :
           LET given == ByOrder(fills, ids)
           IN  /\ Chosen(fills, taker.remaining, makers)
               /\ filled' = {id \in Ids : given[id] > 0}
               /\ nodes' = [id \in Ids |->
                              IF given[id] > 0
                              THEN [nodes[id] EXCEPT !.remaining = @ - given[id]]
                              ELSE nodes[id]]
               /\ taker' = [taker EXCEPT !.remaining = @ - Total(fills)]
               /\ trades' = IF \A id \in Ids : given[id] = 0 THEN trades
                            ELSE Append(trades, [price |-> level, fills |-> given])
      /\ pc' = "unlink"
      /\ UNCHANGED <<levels, queue, index, stopBook, last, counters, level, cancelled>>

Exhausted == {id \in filled : nodes[id] # Null /\ nodes[id].remaining = 0}

UnlinkExhausted ==
  /\ pc = "unlink"
  /\ \E id \in Exhausted :
       /\ \A done \in Exhausted : nodes[id].arrival <= nodes[done].arrival
       /\ Unlink(Opposite(taker.side), level, id)
  /\ UNCHANGED <<levels, stopBook, last, counters, pc, taker, level, filled, trades, cancelled>>

\* A drained level is removed and the sweep goes on; one that survives ends it.
LeaveLevel ==
  LET side == Opposite(taker.side)
  IN  /\ pc = "unlink"
      /\ Exhausted = {}
      /\ IF queue[side][level] = <<>>
         THEN levels' = [levels EXCEPT ![side] = @ \ {level}] /\ pc' = "sweep"
         ELSE pc' = "settle" /\ UNCHANGED levels
      /\ level' = Null
      /\ filled' = {}
      /\ UNCHANGED <<queue, nodes, index, stopBook, last, counters, taker, trades, cancelled>>

-------------------------------------------------------------------------------
(* The fate of the remainder, and the cascade *)

\* Mutant: the prints of market orders, activated stops among them, do not count.
MutLastAfterLimits ==
  IF trades = <<>> \/ taker.type.kind = "market" THEN last ELSE Last(trades).price

\* The price of the most recent print, once the execution has succeeded.
LastAfter == IF trades = <<>> THEN last ELSE Last(trades).price

Rests(order) == order.remaining # 0 /\ order.type.kind = "limit" /\ order.type.tif = "gtc"

\* Filled, or killed with whatever is left.
SettleWithoutRest ==
  /\ pc = "settle"
  /\ ~Rests(taker)
  /\ last' = LastAfter
  /\ pc' = "cascade"
  /\ UNCHANGED <<book, stopBook, counters, taker, level, filled, trades, cancelled>>

SettleByResting ==
  /\ pc = "settle"
  /\ Rests(taker)
  /\ Restable(taker)
  /\ nextArrival < MaxArrival
  /\ taker.type.price \in Storable
  /\ Rest(taker)
  /\ last' = LastAfter
  /\ pc' = "cascade"
  /\ UNCHANGED <<stopBook, nextSeq, taker, level, filled, trades, cancelled>>

\* The remainder cannot rest, refused by the book or, after the counter was
\* checked, by the store: the error leaves submit before the last price is
\* updated and before any report, with the fills applied.
SettleFails ==
  /\ pc = "settle"
  /\ Rests(taker)
  /\ ~Restable(taker) \/ (nextArrival < MaxArrival /\ taker.type.price \notin Storable)
  /\ GoIdle
  /\ UNCHANGED <<book, stopBook, last, counters>>

SettlePanics ==
  /\ pc = "settle"
  /\ Rests(taker)
  /\ Restable(taker)
  /\ nextArrival >= MaxArrival
  /\ pc' = "panicked"
  /\ UNCHANGED <<book, stopBook, last, counters, taker, level, filled, trades, cancelled>>

\* pop_triggered_stop, oldest parked order first, and its activation.
FireStop(side) ==
  /\ pc = "cascade"
  /\ Fires(side)
  /\ side = "ask" => ~Fires("bid")
  /\ Unpark(side, NearestTrigger(side), 1)
  /\ taker' = Activate(Head(stops[side][NearestTrigger(side)]))
  /\ trades' = <<>>
  /\ cancelled' = {}
  /\ pc' = "execute"
  /\ UNCHANGED <<levels, queue, nodes, last, counters, level, filled>>

EndCascade ==
  /\ pc = "cascade"
  /\ ~Fires("bid")
  /\ ~Fires("ask")
  /\ GoIdle
  /\ UNCHANGED <<book, stopBook, last, counters>>

\* No command is under way: the caller may wait, or be refused, for ever.
AwaitCommand == pc \in {"idle", "panicked"} /\ UNCHANGED vars

Command ==
  \/ \E request \in Requests : Submit(request)
  \/ \E request \in Requests, id \in CallerIds : AddOrder(request, id)
  \/ \E id \in Ids : CancelResting(id) \/ CancelParked(id)

Execution ==
  \/ KillUnfillable \/ StartSweep \/ ActivateAtOnce \/ Park \/ ParkDuplicate
  \/ TakeLevel \/ EndSweep \/ CancelOwn \/ Allocate \/ UnlinkExhausted \/ LeaveLevel
  \/ SettleWithoutRest \/ SettleByResting \/ SettleFails \/ SettlePanics
  \/ \E side \in Sides : FireStop(side)
  \/ EndCascade

Next == Command \/ Execution \/ AwaitCommand

Spec == Init /\ [][Next]_vars

\* A command that has started runs to its end: it is one call of a
\* single-threaded program.
FairSpec == Spec /\ WF_vars(Execution)

-------------------------------------------------------------------------------
(* Types *)

Steps ==
  {"idle", "execute", "sweep", "stp", "unlink", "settle", "cascade", "panicked"}

Prints == [price : Prices, fills : [Ids -> Nat]]

\* The state has the shape the structs of orderbook.rs give it; a quantity is
\* never negative, so no subtraction of a fill underflows (matching.rs:510-511).
TypeOK ==
  /\ levels \in [Sides -> SUBSET Prices]
  /\ queue \in [Sides -> [Prices -> Seq(Ids)]]
  /\ nodes \in [Ids -> Orders \union {Null}]
  /\ index \in [Ids -> Addresses \union {Null}]
  /\ triggers \in [Sides -> SUBSET Prices]
  /\ stops \in [Sides -> [Prices -> Seq(Orders)]]
  /\ last \in Prices \union {Null}
  /\ nextSeq \in 1 .. MaxSeq + 1
  /\ nextArrival \in 1 .. MaxArrival
  /\ pc \in Steps
  /\ taker \in Orders \union {Null}
  /\ level \in Prices \union {Null}
  /\ filled \in SUBSET Ids
  /\ trades \in Seq(Prints)
  /\ cancelled \in SUBSET Ids

-------------------------------------------------------------------------------
(* Safety: the book and its index *)

\* Every queued id is indexed at its level, and queued once.
RestingIsIndexed ==
  \A s \in Sides, p \in Prices :
    /\ \A i \in 1 .. Len(queue[s][p]) : index[queue[s][p][i]] = BookAddress(s, p)
    /\ \A i, j \in 1 .. Len(queue[s][p]) : queue[s][p][i] = queue[s][p][j] => i = j

\* Every id indexed in the book is in the queue of its address.
IndexedRests ==
  \A id \in Ids : \A s \in Sides, p \in Prices :
    index[id] = BookAddress(s, p) => \E i \in 1 .. Len(queue[s][p]) : queue[s][p][i] = id

\* The arena holds exactly the orders the index places in the book, each a
\* limit order of the side and price of its address.
NodesAreIndexed ==
  \A id \in Ids :
    IF index[id] # Null /\ index[id].kind = "book"
    THEN /\ nodes[id] # Null
         /\ nodes[id].id = id
         /\ nodes[id].side = index[id].side
         /\ nodes[id].type.kind = "limit"
         /\ nodes[id].type.price = index[id].price
    ELSE nodes[id] = Null

\* Every parked order is a stop indexed at its trigger, and parked once.
ParkedIsIndexed ==
  \A s \in Sides, t \in Prices :
    /\ \A i \in 1 .. Len(stops[s][t]) :
         /\ index[stops[s][t][i].id] = StopAddress(s, t)
         /\ stops[s][t][i].side = s
         /\ IsStop(stops[s][t][i].type)
         /\ stops[s][t][i].type.trigger = t
    /\ \A i, j \in 1 .. Len(stops[s][t]) : stops[s][t][i].id = stops[s][t][j].id => i = j

\* Every id indexed in the stop book is parked at its address.
IndexedParks ==
  \A id \in Ids : \A s \in Sides, t \in Prices :
    index[id] = StopAddress(s, t) => \E i \in 1 .. Len(stops[s][t]) : stops[s][t][i].id = id

\* A level is active exactly while orders rest there; only the level under
\* sweep may be empty for a moment.
LevelsAreActive ==
  \A s \in Sides, p \in Prices :
    /\ queue[s][p] # <<>> => p \in levels[s]
    /\ p \in levels[s] /\ queue[s][p] = <<>>
         => pc \in {"stp", "unlink"} /\ s = Opposite(taker.side) /\ p = level

TriggersAreActive ==
  \A s \in Sides, t \in Prices : t \in triggers[s] <=> stops[s][t] # <<>>

\* The index, the arena, the level queues and the stop book tell one story at
\* every step of every command, also after an error or a panic: an address
\* never dangles (the expects of cancel_order, orderbook.rs:280-286) and no
\* live order is out of reach of its id.
IndexConsistent ==
  /\ RestingIsIndexed
  /\ IndexedRests
  /\ NodesAreIndexed
  /\ ParkedIsIndexed
  /\ IndexedParks
  /\ LevelsAreActive
  /\ TriggersAreActive

\* Every queue is in order of arrival, and every stamp is in the past: the
\* order collect_makers owes the policies (allocation.rs:56-58), through any
\* mix of rests, partial fills, self-trade cancellations and activated stops.
ArrivalOrder ==
  \A s \in Sides, p \in Prices :
    LET ids == queue[s][p]
    IN  \A i \in 1 .. Len(ids) :
          /\ nodes[ids[i]].arrival < nextArrival
          /\ \A j \in 1 .. i - 1 : nodes[ids[j]].arrival < nodes[ids[i]].arrival

-------------------------------------------------------------------------------
(* Safety: matching *)

\* The book never sits crossed, not even between two steps of a sweep.  Only
\* for books built by submit: add_order seeds without matching.
NeverCrossed ==
  \A bid \in levels["bid"], ask \in levels["ask"] : bid < ask

\* A sweep leaves a remainder only when nothing is left to trade with.  The
\* assertion that a level survives only if the taker is full
\* (matching.rs:531-534), seen from the end of the sweep.
RemainderHasNoCounterparty ==
  pc = "settle" /\ taker.remaining # 0
    => \A price \in levels[Opposite(taker.side)] : ~Crosses(taker, price)

\* Fill or kill: once its dry run has passed, the sweep fills the order
\* completely, whatever self-trade prevention and the policy do on the way
\* (matching.rs:305-308).
FokFillsCompletely ==
  pc = "settle" /\ IsFok(taker) => taker.remaining = 0

\* What other clients offer within the limit, counted without wrapping.
Liquidity(order) ==
  SumFunction([id \in {id \in Ids :
                         /\ nodes[id] # Null
                         /\ nodes[id].side = Opposite(order.side)
                         /\ nodes[id].client # order.client
                         /\ Crosses(order, nodes[id].type.price)} |-> nodes[id].remaining])

\* Fill or kill: an order is killed only if the book could not fill it
\* (matching.rs:361-363).
FokKillIsJustified ==
  [][pc = "execute" /\ IsFok(taker) /\ pc' = "cascade"
       => Liquidity(taker) < taker.remaining]_vars

\* Price priority: a print is within the taker's limit, and no order it could
\* have traded with instead was better priced.
PricePriority ==
  [][Len(trades') > Len(trades) =>
       LET print == Last(trades')
           side == Opposite(taker.side)
       IN  /\ Crosses(taker, print.price)
           /\ \A id \in Ids : nodes[id] # Null /\ nodes[id].side = side
                => ~Better(side, nodes[id].type.price, print.price)]_vars

\* The policy answers as FIFO would.
AnswersFifo ==
  LET ids == queue[Opposite(taker.side)][level]
      fills == FifoAllocate(taker.remaining, MakersAt(Opposite(taker.side), level))
  IN  /\ pc = "stp" /\ pc' = "unlink"
      /\ \A i \in DOMAIN ids :
           nodes'[ids[i]].remaining = nodes[ids[i]].remaining - fills[i]

\* Time priority of FIFO allocation, whatever happened at the level before:
\* nobody trades while an order that came to rest earlier at the same price
\* keeps something to trade.
TimePriority ==
  [][AnswersFifo => \A early, late \in Ids :
       (/\ nodes[early] # Null /\ nodes'[early] # Null
        /\ nodes[late] # Null /\ nodes'[late] # Null
        /\ index[early] = index[late]
        /\ nodes[early].arrival < nodes[late].arrival
        /\ nodes'[late].remaining < nodes[late].remaining)
       => nodes'[early].remaining = 0]_vars

\* The trigger signal is the price of the most recent trade (orderbook.rs:71):
\* an execution that traded ends with the price of its last print.
LastPriceFollowsTrades ==
  [][pc = "settle" /\ pc' # "settle" /\ trades # <<>>
       => last' = Last(trades).price]_vars

-------------------------------------------------------------------------------
(* Safety: stops *)

\* Between commands no parked stop is reached by the last trade price, and
\* every parked stop is still a stop of its trigger.
StopDiscipline ==
  pc = "idle" =>
    \A s \in Sides : \A t \in triggers[s] : ~Reached(s, t, last)

\* A stop parks "until a trade reaches its trigger" (matching.rs:152-154): once
\* the cascade is over, none is left that a trade of the last execution reached.
StopsReachedByTradesFire ==
  pc = "cascade" /\ ~Fires("bid") /\ ~Fires("ask") =>
    \A s \in Sides : \A t \in triggers[s] :
      \A n \in 1 .. Len(trades) : ~Reached(s, t, trades[n].price)

-------------------------------------------------------------------------------
(* Refinement: the engine keeps the ledger of quantities *)

ParkedOrder(id) ==
  LET queued == stops[index[id].side][index[id].price]
      found == {i \in DOMAIN queued : queued[i].id = id}
  IN  IF found = {} THEN Null ELSE queued[CHOOSE i \in found : TRUE]

\* The live order of an id: in hand, resting or parked.
LiveOrder(id) ==
  IF Executing /\ taker.id = id THEN taker
  ELSE IF nodes[id] # Null THEN nodes[id]
  ELSE IF index[id] # Null THEN ParkedOrder(id)
  ELSE Null

Open == [id \in Ids |-> IF LiveOrder(id) = Null THEN 0 ELSE LiveOrder(id).remaining]
Owner == [id \in Ids |-> IF LiveOrder(id) = Null THEN Null ELSE LiveOrder(id).client]

L == INSTANCE Ledger WITH
       accepted <- 1 .. nextSeq - 1, open <- Open, owner <- Owner

\* No quantity is created, lost or traded with oneself on the way from
\* submission through parking, activation, partial fills, rest and cancellation.
LedgerKept == L!LedgerSpec

-------------------------------------------------------------------------------
(* Liveness *)

\* Every command ends: the sweep drains levels, the cascade drains stops
\* (matching.rs:80-84), and no step blocks.
CommandsEnd == pc # "idle" ~> pc \in {"idle", "panicked"}
===============================================================================
