-------------------------------- MODULE Backend --------------------------------
(***************************************************************************)
(* A book's storage as the engine drives it: the linked lists of           *)
(* LevelQueue under the level stores of storage.rs.  The ladder and the    *)
(* hash map are alternative layouts of one book; they are given the same   *)
(* calls side by side, so that they can be compared.                       *)
(*                                                                         *)
(* The engine creates a level before the first order joins it and removes  *)
(* it after the last has left (add_order, cancel_order, fill_against).     *)
(***************************************************************************)
EXTENDS LevelQueue, TickLadderStore, HashMapStore, TLC

backendVars == <<queueVars, ladderVars, hashVars>>

BackendInit == QueueInit /\ LadderInit /\ HashInit

LevelKey(side, price) == [side |-> side, price |-> price]

\* Both stores lose the level.
RemoveLevels(q) == RemoveLadder(q.side, q.price) /\ RemoveHash(q.side, q.price)

\* Mutant: a drained level stays.
MutKeepDrained(q) == UNCHANGED <<ladderVars, hashVars>>

RemoveIfDrained(q) ==
  IF list'[q].len = 0 THEN RemoveLevels(q) ELSE UNCHANGED <<ladderVars, hashVars>>

\* add_order.  A price without a slot is an error of the store, before any
\* change.
AddOrder(side, price, client) ==
  /\ EnsureLadder(side, price)
  /\ EnsureHash(side, price)
  /\ Rest(LevelKey(side, price), client)

CancelOrder(order) ==
  /\ Cancel(order)
  /\ RemoveIfDrained(index[order].queue)

\* A taker of the other side reaches the best level.
SweepBest(side, client) ==
  /\ best[side] # Null
  /\ BeginSweep(LevelKey(side, LadderTouch(side)), client)
  /\ UNCHANGED <<ladderVars, hashVars>>

Sweep ==
  \/ (Purge \/ Unindex \/ Project \/ Allocate \/ SpareMaker \/ ExhaustMaker) /\ UNCHANGED <<ladderVars, hashVars>>
  \/ LeaveLevel /\ RemoveIfDrained(at)

\* No call is under way: the caller may wait for ever.
AwaitCall == pc = "idle" /\ UNCHANGED backendVars

BackendNext ==
  \/ \E side \in Sides, price \in Prices, client \in Clients : AddOrder(side, price, client)
  \/ \E order \in Arrivals : CancelOrder(order)
  \/ \E side \in Sides, client \in Clients : SweepBest(side, client)
  \/ Sweep
  \/ AwaitCall

BackendSpec == BackendInit /\ [][BackendNext]_backendVars

\* Cells and clients are interchangeable.
BackendSymmetry == Permutations(Cells) \union Permutations(Clients)

-------------------------------------------------------------------------------
(* Properties *)

\* Between calls a level is in the store exactly while orders rest in it; a
\* sweep may hold on to the one it is draining (orderbook.rs:285-287,
\* matching.rs:531-541).
LevelsHoldOrders ==
  \A side \in Sides, price \in Prices :
    LET q == LevelKey(side, price)
    IN  /\ list[q].len # 0 => price \in LadderActive[side]
        /\ price \in LadderActive[side] => list[q].len # 0 \/ q = at

\* Whatever the layout, the book shows the same levels in the same order, best
\* first, and the touch is the first of them.
StoresAgree ==
  \A side \in Sides :
    /\ LadderLevels(side) = HashLevels(side)
    /\ LadderTouch(side) = HashTouch(side)
    /\ LadderTouch(side) = IF LadderLevels(side) = <<>> THEN Null ELSE LadderLevels(side)[1]
===============================================================================
